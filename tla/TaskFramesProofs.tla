-------------------------- MODULE TaskFramesProofs --------------------------
(***************************************************************************)
(* An invariant of coroutine frames, and the moves that preserve it: which *)
(* frame a handle refers to, what a suspended one waits for, and whom a    *)
(* full ring is blamed on.                                                 *)
(***************************************************************************)
EXTENDS TaskFrames, TLAPS

-----------------------------------------------------------------------------
(* The frames, field by field. *)
Made  == 1 .. Len(frames)
St    == [f \in Made |-> frames[f].st]
Cont  == [f \in Made |-> frames[f].cont]
Child == [f \in Made |-> frames[f].child]
Root  == [f \in Made |-> frames[f].root]
Doing == [f \in Made |-> Stmt(f).do]

(* The frames whose operation is staged, those with a completion, and all  *)
(* those that the kernel or drain() may still refer to.                    *)
OpSqe(f)      == [kind |-> "op", awt |-> f]
TimerSqe(f)   == [kind |-> "timeout", awt |-> f]
EventSqe      == [kind |-> "eventfd"]
Sqes(M)       == {EventSqe} \cup {OpSqe(f) : f \in M} \cup {TimerSqe(f) : f \in M}
OpsOf(q, M)   == {f \in M : OpSqe(f) \in Elements(q)}
OnceIn(q, M)  == \A f \in M : \A m, n \in 1 .. Len(q) : q[m] = OpSqe(f) /\ q[n] = OpSqe(f) => m = n

Staged    == OpsOf(sq, Made)
Completed == {f \in Made : \E i \in 1 .. Len(cq) : cq[i].awt = f}
Pending   == Staged \cup inflight \cup Completed

OnceCompleted ==
  \A m, n \in 1 .. Len(cq) : cq[m].awt = cq[n].awt /\ cq[m].awt # 0 => m = n

IsFrame(r) ==
  r = [fn |-> r.fn, pc |-> r.pc, cont |-> r.cont, child |-> r.child, root |-> r.root,
       exc |-> r.exc, val |-> r.val, st |-> r.st]
IsFrames(fr) == fr \in Seq(Elements(fr)) /\ \A i \in 1 .. Len(fr) : IsFrame(fr[i])

TypeInv ==
  /\ prog.size \in Nat \ {0} /\ Len(prog.main) \in Nat /\ mpc \in Nat \ {0}
  /\ IsFrames(frames)
  /\ St \in [Made -> {"started", "final", "freed"}] /\ Root \in [Made -> Made]
  /\ Cont \in [Made -> 0 .. Len(frames)] /\ Child \in [Made -> 0 .. Len(frames)]
  /\ cur \in 0 .. Len(frames) /\ tasks \subseteq Made
  /\ at \in {"main", "code", "enter", "wait", "cqes", "aborted", "crashed", "failed"}
  /\ calls \in Seq([by : {"spawn", "drain"}, task : Made, caller : 0 .. Len(frames)])
  /\ sq \in Seq(Sqes(Made)) /\ inflight \subseteq Made
  /\ cq \in Seq(Elements(cq)) /\ \A i \in 1 .. Len(cq) : cq[i] = Null \/ cq[i].awt \in Made
  /\ tl_sq_full \in BOOLEAN /\ refused \subseteq Made \X BOOLEAN

(* Frames form trees: a root is a spawned Task, the others are each owned  *)
(* by the co_await of their continuation.  What a live handle refers to is *)
(* alive.                                                                  *)
TreeInv ==
  /\ \A f \in Made :
       /\ Root[f] <= f /\ Root[Root[f]] = Root[f]
       /\ IF Cont[f] = 0 THEN Root[f] = f ELSE Cont[f] < f /\ Root[Cont[f]] = Root[f]
       /\ Child[f] # 0 => Child[f] > f /\ Cont[Child[f]] = f
       /\ St[f] # "freed" /\ Child[f] # 0 =>
            St[f] = "started" /\ Doing[f] = "call" /\ St[Child[f]] # "freed"
       /\ St[f] # "freed" /\ Cont[f] # 0 =>
            St[Cont[f]] = "started" /\ Child[Cont[f]] = f
  /\ \A t \in tasks : Root[t] = t /\ St[t] # "freed"

(* The resume() calls in progress: the running frame belongs to the        *)
(* innermost, and each but the first was made by a frame of the one before.*)
RunInv ==
  /\ at = "code" <=> calls # <<>>
  /\ cur # 0 => /\ calls # <<>> /\ St[cur] = "started" /\ Root[cur] = calls[Len(calls)].task
                /\ Child[cur] # 0 => St[Child[cur]] = "final"
  /\ \A i \in 1 .. Len(calls) :
       /\ Root[calls[i].task] = calls[i].task
       /\ calls[i].by = "spawn" => calls[i].task \notin tasks /\ St[calls[i].task] # "freed"
       /\ IF i = 1 THEN calls[i].caller = 0
          ELSE /\ calls[i].by = "spawn" /\ calls[i].caller # 0
               /\ St[calls[i].caller] = "started" /\ Doing[calls[i].caller] = "spawn"
               /\ Root[calls[i].caller] = calls[i - 1].task
       /\ \A j \in 1 .. Len(calls) : calls[i].task = calls[j].task => i = j

(* An operation is in one place, once. *)
OpsInv ==
  /\ OnceIn(sq, Made) /\ OnceCompleted
  /\ Staged \cap inflight = {} /\ Staged \cap Completed = {} /\ inflight \cap Completed = {}

(* Operations and frames: whose operation can still complete, and why a    *)
(* frame is not running.                                                   *)
PendInv ==
  /\ \A f \in Pending :
       /\ St[f] \in {"started", "freed"}
       /\ St[f] = "started" => Doing[f] = "await" /\ f # cur
       /\ St[f] = "freed" => \E x \in killed : x.task = Root[f]
  /\ \A f \in Made : St[f] = "started" /\ f # cur =>
       \/ f \in Pending \cup overwritten \/ Child[f] # 0
       \/ \E i \in 1 .. Len(calls) : calls[i].caller = f

(* The flag, and the tasks it was set for. *)
IsRefused(r) == <<r, TRUE>> \in refused \/ <<r, FALSE>> \in refused

FlagInv ==
  /\ tl_sq_full => \E i \in 1 .. Len(calls) : IsRefused(calls[i].task)
  /\ \A i \in 1 .. Len(calls) :
       calls[i].by = "spawn" /\ <<calls[i].task, TRUE>> \in refused => tl_sq_full \/ MisblamedBy(calls[i].task)
  /\ \A t \in tasks : <<t, TRUE>> \in refused => MisblamedBy(t)
  /\ \A x \in killed : IsRefused(x.task) \/ \E r \in x.by : IsRefused(r)

CoroutineInv == TypeInv /\ TreeInv /\ RunInv /\ OpsInv /\ PendInv /\ FlagInv

-----------------------------------------------------------------------------
(* Sequences. *)
LEMMA AppendedElements ==
  ASSUME NEW S, NEW s \in Seq(S), NEW e \in S
  PROVE  Elements(Append(s, e)) = Elements(s) \cup {e}
BY DEF Elements

LEMMA SeqExtensional ==
  ASSUME NEW S, NEW p \in Seq(S), NEW q \in Seq(S), Len(p) = Len(q), \A i \in 1 .. Len(p) : p[i] = q[i]
  PROVE  p = q
OBVIOUS

LEMMA Slice ==
  ASSUME NEW S, NEW s \in Seq(S), NEW m \in 1 .. Len(s) + 1, NEW n \in 0 .. Len(s), m <= n + 1
  PROVE  LET u == SubSeq(s, m, n)
         IN  u \in Seq(S) /\ Len(u) = n - m + 1 /\ \A i \in 1 .. n - m + 1 : u[i] = s[m + i - 1]
<1> DEFINE u == SubSeq(s, m, n)
<1>1. u \in Seq(S) OBVIOUS
<1>2. Len(u) = n - m + 1 OBVIOUS
<1>3. \A i \in 1 .. n - m + 1 : u[i] = s[m + i - 1] OBVIOUS
<1> QED BY <1>1, <1>2, <1>3

LEMMA Front ==
  ASSUME NEW S, NEW s \in Seq(S), NEW m \in Nat, m <= Len(s)
  PROVE  /\ SubSeq(s, 1, m) \in Seq(S) /\ Len(SubSeq(s, 1, m)) = m
         /\ \A i \in 1 .. m : SubSeq(s, 1, m)[i] = s[i]
<1>1. SubSeq(s, 1, m) \in Seq(S) OBVIOUS
<1>2. Len(SubSeq(s, 1, m)) = m OBVIOUS
<1>3. \A i \in 1 .. m : SubSeq(s, 1, m)[i] = s[i] OBVIOUS
<1> QED BY <1>1, <1>2, <1>3

(* Sequences of frames. *)
LEMMA FunSeq ==
  ASSUME NEW n \in Nat, NEW s, s = [i \in 1 .. n |-> s[i]]
  PROVE  s \in Seq(Elements(s)) /\ Len(s) = n
<1> DEFINE S == {s[i] : i \in 1 .. n}
<1>1. s \in [1 .. n -> S] BY Zenon
<1> HIDE DEF S
<1>2. s \in Seq(S) /\ Len(s) = n BY <1>1
<1>3. S = Elements(s) BY <1>2 DEF S, Elements
<1> QED BY <1>2, <1>3

LEMMA NextStmt ==
  ASSUME NEW m \in Nat \ {0}, NEW n, n \in {m, m + 1}
  PROVE  n \in Nat \ {0}
OBVIOUS

LEMMA SeqIsFun ==
  ASSUME NEW S, NEW u \in Seq(S)
  PROVE  u = [i \in 1 .. Len(u) |-> u[i]]
OBVIOUS

LEMMA SeqFun ==
  ASSUME NEW s, s \in Seq(Elements(s))
  PROVE  Len(s) \in Nat /\ s = [i \in 1 .. Len(s) |-> s[i]] /\ DOMAIN s = 1 .. Len(s)
<1> DEFINE S == Elements(s)
<1>1. s \in Seq(S) OBVIOUS
<1> HIDE DEF S
<1> QED BY <1>1

Lengthened(u, s, e) ==
  /\ u \in Seq(Elements(u)) /\ Len(u) = Len(s) + 1
  /\ u[Len(s) + 1] = e /\ \A i \in 1 .. Len(s) : u[i] = s[i]

LEMMA SeqAppend ==
  ASSUME NEW s, s \in Seq(Elements(s)), NEW e
  PROVE  Lengthened(Append(s, e), s, e)
<1> DEFINE S == Elements(s) \cup {e}
           u == Append(s, e)
<1>1. s \in Seq(S) /\ e \in S BY SeqFun DEF Elements
<1> HIDE DEF S
<1>2. /\ u \in Seq(S) /\ Len(u) = Len(s) + 1 /\ Len(s) \in Nat
      /\ u[Len(s) + 1] = e /\ \A i \in 1 .. Len(s) : u[i] = s[i]
  BY <1>1
<1> HIDE DEF u
<1>3. Len(s) + 1 \in Nat BY <1>2
<1>4. u = [i \in 1 .. Len(s) + 1 |-> u[i]] BY Zenon, <1>2, SeqIsFun
<1>5. u \in Seq(Elements(u)) BY Zenon, <1>3, <1>4, FunSeq
<1>6. Lengthened(u, s, e) BY Zenon, <1>2, <1>5 DEF Lengthened
<1> QED BY Zenon, <1>6 DEF u

(* u is fr with r at f. *)
Updated(u, fr, f, r) ==
  IsFrames(u) /\ Len(u) = Len(fr) /\ u[f] = r /\ \A g \in 1 .. Len(fr) : g # f => u[g] = fr[g]

LEMMA UpdateFrame ==
  ASSUME NEW fr, IsFrames(fr), NEW f \in 1 .. Len(fr), NEW r, IsFrame(r)
  PROVE  Updated([fr EXCEPT ![f] = r], fr, f, r)
<1> DEFINE u == [fr EXCEPT ![f] = r]
<1>1. fr = [i \in 1 .. Len(fr) |-> fr[i]] /\ Len(fr) \in Nat /\ DOMAIN fr = 1 .. Len(fr)
  BY SeqFun DEF IsFrames
<1>2. u = [i \in 1 .. Len(fr) |-> u[i]] /\ u[f] = r /\ \A g \in 1 .. Len(fr) : g # f => u[g] = fr[g]
  BY Zenon, <1>1
<1> HIDE DEF u
<1>3. u \in Seq(Elements(u)) /\ Len(u) = Len(fr) BY <1>1, <1>2, FunSeq
<1>4. IsFrames(u) BY <1>2, <1>3 DEF IsFrames
<1>5. Updated(u, fr, f, r) BY <1>2, <1>3, <1>4 DEF Updated
<1> QED BY <1>5 DEF u

(* A frame from its fields. *)
Fields(fn, pc, cont, child, root, exc, val, st) ==
  [fn |-> fn, pc |-> pc, cont |-> cont, child |-> child, root |-> root, exc |-> exc, val |-> val, st |-> st]

LEMMA FieldsOf ==
  ASSUME NEW a, NEW b, NEW c, NEW d, NEW e, NEW g, NEW h, NEW i
  PROVE  LET r == Fields(a, b, c, d, e, g, h, i)
         IN  /\ IsFrame(r) /\ r.fn = a /\ r.pc = b /\ r.cont = c /\ r.child = d
             /\ r.root = e /\ r.exc = g /\ r.val = h /\ r.st = i
BY DEF Fields, IsFrame

LEMMA PcField ==
  ASSUME NEW r, IsFrame(r), NEW x
  PROVE  [r EXCEPT !.pc = x] = Fields(r.fn, x, r.cont, r.child, r.root, r.exc, r.val, r.st)
BY DEF IsFrame, Fields

LEMMA ChildField ==
  ASSUME NEW r, IsFrame(r), NEW x
  PROVE  [r EXCEPT !.child = x] = Fields(r.fn, r.pc, r.cont, x, r.root, r.exc, r.val, r.st)
BY DEF IsFrame, Fields

LEMMA ExcField ==
  ASSUME NEW r, IsFrame(r), NEW x
  PROVE  [r EXCEPT !.exc = x] = Fields(r.fn, r.pc, r.cont, r.child, r.root, x, r.val, r.st)
BY DEF IsFrame, Fields

LEMMA ValField ==
  ASSUME NEW r, IsFrame(r), NEW x
  PROVE  [r EXCEPT !.val = x] = Fields(r.fn, r.pc, r.cont, r.child, r.root, r.exc, x, r.st)
BY DEF IsFrame, Fields

LEMMA StField ==
  ASSUME NEW r, IsFrame(r), NEW x
  PROVE  [r EXCEPT !.st = x] = Fields(r.fn, r.pc, r.cont, r.child, r.root, r.exc, r.val, x)
BY DEF IsFrame, Fields

(* fr is frames after the frames of D were destroyed and frame f was left   *)
(* without an inner Task.                                                   *)
Cleared(fr, D, f) ==
  /\ IsFrames(fr) /\ Len(fr) = Len(frames)
  /\ \A g \in Made :
       /\ fr[g].fn = frames[g].fn /\ fr[g].pc = frames[g].pc
       /\ fr[g].cont = frames[g].cont /\ fr[g].root = frames[g].root
       /\ fr[g].child = IF g = f THEN 0 ELSE frames[g].child
       /\ fr[g].st = IF g \in D THEN "freed" ELSE frames[g].st

(* The frame operations of one step: the frames of D are destroyed, and f  *)
(* has its inner Task destroyed, leaves the statement it was at, and ends  *)
(* if ends is TRUE.                                                        *)
Advances(D, f, ends) ==
  /\ IsFrames(frames') /\ Len(frames') = Len(frames)
  /\ Cont' = Cont /\ Root' = Root
  /\ St' = [g \in Made |-> IF g \in D THEN "freed" ELSE IF g = f /\ ends THEN "final" ELSE St[g]]
  /\ Child' = [g \in Made |-> IF g = f THEN 0 ELSE Child[g]]
  /\ \A g \in Made : g # f => Doing'[g] = Doing[g]

LEMMA StmtStays ==
  ASSUME prog' = prog, NEW g, frames'[g].fn = frames[g].fn, frames'[g].pc = frames[g].pc
  PROVE  Stmt(g)' = Stmt(g)
BY DEF Stmt, Code

(* frames' is fr but for the statement, the results and the state of f. *)
MovedTo(fr, f, st) ==
  /\ IsFrames(frames') /\ Len(frames') = Len(fr)
  /\ \A g \in Made : g # f => frames'[g] = fr[g]
  /\ f \in Made => /\ frames'[f].cont = fr[f].cont /\ frames'[f].root = fr[f].root
                   /\ frames'[f].child = fr[f].child /\ frames'[f].st = st

LEMMA MovedOn ==
  ASSUME TypeInv, prog' = prog, NEW fr, NEW D, NEW f, Cleared(fr, D, f), MovedTo(fr, f, fr[f].st)
  PROVE  Advances(D, f, FALSE)
<1>1. Made' = Made BY DEF Made, Cleared, MovedTo
<1>2. Cont' = Cont /\ Root' = Root BY <1>1 DEF Cont, Root, Cleared, MovedTo
<1>3. Child' = [g \in Made |-> IF g = f THEN 0 ELSE Child[g]] BY <1>1 DEF Child, Cleared, MovedTo
<1>4. St' = [g \in Made |-> IF g \in D THEN "freed" ELSE St[g]] BY <1>1 DEF St, Cleared, MovedTo
<1>5. ASSUME NEW g \in Made, g # f PROVE Doing'[g] = Doing[g]
  <2>1. Stmt(g)' = Stmt(g) BY <1>5, StmtStays DEF Cleared, MovedTo
  <2> QED BY <1>1, <2>1 DEF Doing
<1> QED BY <1>1, <1>2, <1>3, <1>4, <1>5 DEF Advances, Cleared, MovedTo

LEMMA MovedEnd ==
  ASSUME TypeInv, prog' = prog, NEW fr, NEW D, NEW f, f \notin D, Cleared(fr, D, f), MovedTo(fr, f, "final")
  PROVE  Advances(D, f, TRUE)
<1>1. Made' = Made BY DEF Made, Cleared, MovedTo
<1>2. Cont' = Cont /\ Root' = Root BY <1>1 DEF Cont, Root, Cleared, MovedTo
<1>3. Child' = [g \in Made |-> IF g = f THEN 0 ELSE Child[g]] BY <1>1 DEF Child, Cleared, MovedTo
<1>4. St' = [g \in Made |-> IF g \in D THEN "freed" ELSE IF g = f THEN "final" ELSE St[g]]
  BY <1>1 DEF St, Cleared, MovedTo
<1>5. ASSUME NEW g \in Made, g # f PROVE Doing'[g] = Doing[g]
  <2>1. Stmt(g)' = Stmt(g) BY <1>5, StmtStays DEF Cleared, MovedTo
  <2> QED BY <1>1, <2>1 DEF Doing
<1> QED BY <1>1, <1>2, <1>3, <1>4, <1>5 DEF Advances, Cleared, MovedTo


-----------------------------------------------------------------------------
(* What ~Task takes along. *)
LEMMA OwnedSet ==
  ASSUME TypeInv, NEW S \in SUBSET Made
  PROVE  /\ Owned(frames, S) \subseteq Made /\ S \subseteq Owned(frames, S)
         /\ \A f \in Owned(frames, S) : Child[f] \in Owned(frames, S) \cup {0}
         /\ \A C \in SUBSET Made :
              S \subseteq C /\ (\A f \in C : Child[f] \in C \cup {0}) => Owned(frames, S) \subseteq C
<1>1. DOMAIN frames = Made /\ 0 \notin Made /\ Child \in [Made -> 0 .. Len(frames)]
  BY SeqFun DEF TypeInv, IsFrames, Made
<1>2. \A f \in Made : frames[f].child = Child[f] BY DEF Child
<1> DEFINE Closed(C) == S \subseteq C /\ (\A f \in C : Child[f] \in C \cup {0})
<1>3. Owned(frames, S) = {g \in Made : \A C \in SUBSET Made : Closed(C) => g \in C}
  <2>1. S \ {0} = S BY <1>1
  <2>2. \A C \in SUBSET Made : (\A f \in C : frames[f].child \in C \cup {0}) <=> (\A f \in C : Child[f] \in C \cup {0})
    BY <1>2
  <2> QED BY Zenon, <1>1, <2>1, <2>2 DEF Owned
<1>4. \A C \in SUBSET Made : Closed(C) => Owned(frames, S) \subseteq C BY <1>3
<1>5. S \subseteq Owned(frames, S) BY <1>3
<1>6. ASSUME NEW f \in Owned(frames, S) PROVE Child[f] \in Owned(frames, S) \cup {0}
  <2>1. f \in Made /\ \A C \in SUBSET Made : Closed(C) => f \in C BY <1>3
  <2>2. CASE Child[f] # 0
    <3>1. Child[f] \in Made BY <1>1, <2>1, <2>2 DEF Made
    <3>2. \A C \in SUBSET Made : Closed(C) => Child[f] \in C BY <2>1, <2>2
    <3> QED BY <1>3, <3>1, <3>2
  <2> QED BY <2>2
<1> QED BY <1>3, <1>4, <1>5, <1>6

(* A frame is destroyed with the frame that awaits it, or directly. *)
LEMMA OwnedBy ==
  ASSUME TypeInv, NEW S \in SUBSET Made, NEW g \in Owned(frames, S), g \notin S
  PROVE  \E h \in Owned(frames, S) : Child[h] = g
<1> DEFINE D == Owned(frames, S)
<1>1. SUFFICES ASSUME \A h \in D : Child[h] # g PROVE FALSE OBVIOUS
<1>2. /\ D \subseteq Made /\ S \subseteq D /\ \A f \in D : Child[f] \in D \cup {0}
      /\ \A C \in SUBSET Made : S \subseteq C /\ (\A f \in C : Child[f] \in C \cup {0}) => D \subseteq C
  BY OwnedSet
<1>3. g \in D OBVIOUS
<1> HIDE DEF D
<1> DEFINE C == D \ {g}
<1>4. C \in SUBSET Made /\ S \subseteq C /\ \A f \in C : Child[f] \in C \cup {0} BY <1>1, <1>2
<1> QED BY Zenon, <1>2, <1>3, <1>4

(* u is fr with the frames of G destroyed. *)
Without(u, fr, G) ==
  /\ IsFrames(u) /\ Len(u) = Len(fr)
  /\ \A g \in 1 .. Len(fr) :
       /\ u[g].fn = fr[g].fn /\ u[g].pc = fr[g].pc
       /\ u[g].cont = fr[g].cont /\ u[g].root = fr[g].root /\ u[g].child = fr[g].child
       /\ u[g].st = IF g \in G THEN "freed" ELSE fr[g].st

LEMMA DestroyedSeq ==
  ASSUME NEW fr, IsFrames(fr), NEW S
  PROVE  Without(Destroy(fr, S), fr, Owned(fr, S))
<1> DEFINE G == Owned(fr, S)
           u == Destroy(fr, S)
           Gone(g) == Fields(fr[g].fn, fr[g].pc, fr[g].cont, fr[g].child, fr[g].root, fr[g].exc, fr[g].val, "freed")
<1>1. Len(fr) \in Nat /\ DOMAIN fr = 1 .. Len(fr) BY SeqFun DEF IsFrames
<1>2. \A g \in 1 .. Len(fr) : [fr[g] EXCEPT !.st = "freed"] = Gone(g) BY Zenon, StField DEF IsFrames
<1>3. u = [g \in 1 .. Len(fr) |-> IF g \in G THEN [fr[g] EXCEPT !.st = "freed"] ELSE fr[g]]
  BY <1>1 DEF Destroy
<1> HIDE DEF G, u
<1>4. u = [g \in 1 .. Len(fr) |-> u[g]] BY <1>3
<1>5. \A g \in 1 .. Len(fr) : u[g] = IF g \in G THEN Gone(g) ELSE fr[g]
  BY <1>2, <1>3
<1>6. \A g \in 1 .. Len(fr) :
        /\ IsFrame(Gone(g))
        /\ Gone(g).fn = fr[g].fn /\ Gone(g).pc = fr[g].pc /\ Gone(g).cont = fr[g].cont
        /\ Gone(g).root = fr[g].root /\ Gone(g).child = fr[g].child /\ Gone(g).st = "freed"
  BY DEF IsFrame, Fields
<1> HIDE DEF Gone
<1>7. u \in Seq(Elements(u)) /\ Len(u) = Len(fr) BY <1>1, <1>4, FunSeq
<1>8. IsFrames(u) BY <1>5, <1>6, <1>7 DEF IsFrames
<1>9. \A g \in 1 .. Len(fr) :
        /\ u[g].fn = fr[g].fn /\ u[g].pc = fr[g].pc
        /\ u[g].cont = fr[g].cont /\ u[g].root = fr[g].root /\ u[g].child = fr[g].child
        /\ u[g].st = IF g \in G THEN "freed" ELSE fr[g].st
  BY <1>5, <1>6
<1>10. Without(u, fr, G) BY <1>7, <1>8, <1>9 DEF Without
<1> QED BY <1>10 DEF G, u

LEMMA ClearedNone ==
  ASSUME TypeInv, NEW f, f \in Made => Child[f] = 0
  PROVE  Cleared(frames, {}, f)
BY DEF TypeInv, Cleared, Child

LEMMA ClearedDestroyed ==
  ASSUME TypeInv, NEW S, NEW f, f \in Made => Child[f] = 0
  PROVE  Cleared(Destroy(frames, S), Owned(frames, S), f)
<1>1. \A g \in Made : frames[g].child = Child[g] BY DEF Child
<1>2. Without(Destroy(frames, S), frames, Owned(frames, S)) BY DestroyedSeq DEF TypeInv
<1> QED BY <1>1, <1>2 DEF Cleared, Without, Made

LEMMA ClearedInner ==
  ASSUME TypeInv, NEW S, NEW f \in Made
  PROVE  Cleared([Destroy(frames, S) EXCEPT ![f].child = 0], Owned(frames, S), f)
<1> DEFINE fr == Destroy(frames, S)
           r  == [fr[f] EXCEPT !.child = 0]
           u  == [fr EXCEPT ![f] = r]
<1>1. Without(fr, frames, Owned(frames, S)) BY DestroyedSeq DEF TypeInv
<1>2. [fr EXCEPT ![f].child = 0] = u OBVIOUS
<1> HIDE DEF fr
<1>3. IsFrames(fr) /\ Len(fr) = Len(frames) /\ f \in 1 .. Len(fr) BY <1>1 DEF Without, Made
<1>4. r = Fields(fr[f].fn, fr[f].pc, fr[f].cont, 0, fr[f].root, fr[f].exc, fr[f].val, fr[f].st)
  BY Zenon, <1>3, ChildField DEF IsFrames
<1> HIDE DEF r
<1>5. IsFrame(r) BY <1>4 DEF IsFrame, Fields
<1>6. Updated(u, fr, f, r) BY <1>3, <1>5, UpdateFrame
<1> HIDE DEF u
<1>7. \A g \in Made :
           /\ u[g].fn = frames[g].fn /\ u[g].pc = frames[g].pc
           /\ u[g].cont = frames[g].cont /\ u[g].root = frames[g].root
           /\ u[g].child = IF g = f THEN 0 ELSE frames[g].child
           /\ u[g].st = IF g \in Owned(frames, S) THEN "freed" ELSE frames[g].st
  <2> TAKE g \in Made
  <2>1. CASE g = f BY <1>1, <1>4, <1>6, <2>1 DEF Updated, Without, Made, Fields
  <2>2. CASE g # f BY <1>1, <1>3, <1>6, <2>2 DEF Updated, Without, Made
  <2> QED BY <2>1, <2>2
<1>8. Cleared(u, Owned(frames, S), f) BY <1>3, <1>6, <1>7 DEF Cleared, Updated
<1> QED BY Zenon, <1>2, <1>8 DEF fr

(* A frame leaves its statement, or ends. *)
LEMMA StepAdvances ==
  ASSUME TypeInv, prog' = prog, NEW fr, NEW D, NEW f \in Made, Cleared(fr, D, f), NEW x,
         frames' = [fr EXCEPT ![f].pc = x]
  PROVE  Advances(D, f, FALSE)
<1> DEFINE r == [fr[f] EXCEPT !.pc = x]
<1>1. IsFrames(fr) /\ Len(fr) = Len(frames) /\ f \in 1 .. Len(fr) BY DEF Cleared, Made
<1>2. r = Fields(fr[f].fn, x, fr[f].cont, fr[f].child, fr[f].root, fr[f].exc, fr[f].val, fr[f].st)
  BY Zenon, <1>1, PcField DEF IsFrames
<1>3. frames' = [fr EXCEPT ![f] = r] OBVIOUS
<1> HIDE DEF r
<1>4. IsFrame(r) BY <1>2 DEF IsFrame, Fields
<1>5. Updated([fr EXCEPT ![f] = r], fr, f, r) BY Zenon, <1>1, <1>4, UpdateFrame
<1>6. Updated(frames', fr, f, r) BY Zenon, <1>3, <1>5
<1>7. /\ IsFrames(frames') /\ Len(frames') = Len(frames)
      /\ frames'[f].cont = fr[f].cont /\ frames'[f].root = fr[f].root
      /\ frames'[f].child = fr[f].child /\ frames'[f].st = fr[f].st
  BY <1>1, <1>2, <1>6 DEF Updated, Fields
<1>8. \A g \in Made : g # f => frames'[g] = fr[g] BY <1>1, <1>6 DEF Made, Updated
<1>9. MovedTo(fr, f, fr[f].st) BY <1>1, <1>7, <1>8 DEF MovedTo
<1> QED BY Zenon, <1>9, MovedOn

LEMMA EndFrame ==
  ASSUME NEW fr, IsFrames(fr), NEW f \in 1 .. Len(fr), NEW x, NEW y, NEW z
  PROVE  Updated([fr EXCEPT ![f].exc = x, ![f].val = y, ![f].st = z], fr, f,
                 Fields(fr[f].fn, fr[f].pc, fr[f].cont, fr[f].child, fr[f].root, x, y, z))
<1> DEFINE r == Fields(fr[f].fn, fr[f].pc, fr[f].cont, fr[f].child, fr[f].root, x, y, z)
<1>1. IsFrame(fr[f]) BY DEF IsFrames
<1>2. [fr[f] EXCEPT !.exc = x, !.val = y, !.st = z] = r
  <2> DEFINE r0 == fr[f]
             r1 == Fields(r0.fn, r0.pc, r0.cont, r0.child, r0.root, x, r0.val, r0.st)
             r2 == Fields(r0.fn, r0.pc, r0.cont, r0.child, r0.root, x, y, r0.st)
  <2>1. [r0 EXCEPT !.exc = x] = r1 BY <1>1, ExcField
  <2>2. [r1 EXCEPT !.val = y] = r2 BY DEF Fields
  <2>3. [r2 EXCEPT !.st = z] = r BY DEF Fields
  <2>4. [fr[f] EXCEPT !.exc = x, !.val = y, !.st = z]
          = [[[r0 EXCEPT !.exc = x] EXCEPT !.val = y] EXCEPT !.st = z]
    OBVIOUS
  <2> QED BY Zenon, <2>1, <2>2, <2>3, <2>4
<1>3. f \in DOMAIN fr BY SeqFun DEF IsFrames
<1>4. [fr EXCEPT ![f].exc = x, ![f].val = y, ![f].st = z]
        = [fr EXCEPT ![f] = [fr[f] EXCEPT !.exc = x, !.val = y, !.st = z]]
  BY Zenon, <1>3
<1>5. IsFrame(r) BY DEF IsFrame, Fields
<1> HIDE DEF r
<1>6. Updated([fr EXCEPT ![f] = r], fr, f, r) BY <1>5, UpdateFrame
<1> QED BY Zenon, <1>2, <1>4, <1>6 DEF r

LEMMA EndAdvances ==
  ASSUME TypeInv, prog' = prog, NEW fr, NEW D, NEW f \in Made \ D, Cleared(fr, D, f), NEW x, NEW y,
         frames' = [fr EXCEPT ![f].exc = x, ![f].val = y, ![f].st = "final"]
  PROVE  Advances(D, f, TRUE)
<1> DEFINE r == Fields(fr[f].fn, fr[f].pc, fr[f].cont, fr[f].child, fr[f].root, x, y, "final")
<1>1. IsFrames(fr) /\ Len(fr) = Len(frames) /\ f \in 1 .. Len(fr) BY DEF Cleared, Made
<1>2. Updated(frames', fr, f, r) BY Zenon, <1>1, EndFrame
<1>3. /\ IsFrames(frames') /\ Len(frames') = Len(frames)
      /\ frames'[f].cont = fr[f].cont /\ frames'[f].root = fr[f].root
      /\ frames'[f].child = fr[f].child /\ frames'[f].st = "final"
  BY <1>1, <1>2 DEF Updated, Fields
<1>4. \A g \in Made : g # f => frames'[g] = fr[g] BY <1>1, <1>2 DEF Made, Updated
<1>5. MovedTo(fr, f, "final") BY Zenon, <1>1, <1>3, <1>4 DEF MovedTo
<1>6. f \notin D OBVIOUS
<1> QED BY Zenon, <1>5, <1>6, MovedEnd

LEMMA DestroyAdvances ==
  ASSUME TypeInv, prog' = prog, NEW S, frames' = Destroy(frames, S)
  PROVE  Advances(Owned(frames, S), 0, FALSE)
<1>1. 0 \notin Made BY SeqFun DEF Made, TypeInv, IsFrames
<1>2. Cleared(frames', Owned(frames, S), 0) BY <1>1, ClearedDestroyed
<1>3. MovedTo(frames', 0, frames'[0].st) BY <1>1, <1>2 DEF Cleared, MovedTo
<1> QED BY Zenon, <1>2, <1>3, MovedOn

-----------------------------------------------------------------------------
(* Operations in a queue. *)
LEMMA SqesGrow ==
  ASSUME NEW M, NEW N, M \subseteq N
  PROVE  Seq(Sqes(M)) \subseteq Seq(Sqes(N))
<1>1. Sqes(M) \subseteq Sqes(N) BY DEF Sqes
<1> QED BY <1>1

LEMMA SqeKinds ==
  ASSUME NEW M, NEW a \in M
  PROVE  /\ OpSqe(a) \in Sqes(M) /\ TimerSqe(a) \in Sqes(M) /\ EventSqe \in Sqes(M)
         /\ \A b : OpSqe(b) # EventSqe /\ OpSqe(b) # TimerSqe(a) /\ (OpSqe(b) = OpSqe(a) => b = a)
BY DEF Sqes, OpSqe, TimerSqe, EventSqe

LEMMA OpsMade ==
  ASSUME NEW M, NEW q \in Seq(Sqes(M)), NEW a, OpSqe(a) \in Elements(q)
  PROVE  a \in M
<1>1. OpSqe(a) \in Sqes(M) BY DEF Elements
<1> QED BY Zenon, <1>1 DEF Sqes, OpSqe, TimerSqe, EventSqe

LEMMA OpAppended ==
  ASSUME NEW M, NEW q \in Seq(Sqes(M)), NEW a \in M, a \notin OpsOf(q, M)
  PROVE  LET p == Append(q, OpSqe(a))
         IN  /\ p \in Seq(Sqes(M)) /\ Len(p) = Len(q) + 1
             /\ OpsOf(p, M) = OpsOf(q, M) \cup {a} /\ (OnceIn(q, M) => OnceIn(p, M))
<1> DEFINE e == OpSqe(a)
           p == Append(q, e)
<1>0. e \in Sqes(M) /\ \A b : OpSqe(b) = e => b = a BY SqeKinds
<1>1. e \notin Elements(q) BY DEF OpsOf
<1>5. e = OpSqe(a) OBVIOUS
<1> HIDE DEF e
<1>2. p \in Seq(Sqes(M)) /\ Len(p) = Len(q) + 1 BY <1>0
<1>3. Elements(p) = Elements(q) \cup {e} BY <1>0, AppendedElements
<1>4. /\ Len(q) \in Nat /\ p[Len(q) + 1] = e /\ \A i \in 1 .. Len(q) : p[i] = q[i] BY <1>0
<1> HIDE DEF p
<1>6. OpsOf(p, M) = OpsOf(q, M) \cup {a} BY <1>0, <1>3, <1>5 DEF OpsOf
<1>7. ASSUME OnceIn(q, M) PROVE OnceIn(p, M)
  <2> SUFFICES ASSUME NEW b \in M, NEW i \in 1 .. Len(p), NEW m \in 1 .. Len(p), p[i] = OpSqe(b), p[m] = OpSqe(b)
               PROVE  i = m
    BY DEF OnceIn
  <2>1. CASE b = a
    <3>1. \A k \in 1 .. Len(q) : q[k] # e BY <1>1 DEF Elements
    <3> QED BY <1>2, <1>4, <1>5, <2>1, <3>1
  <2>2. CASE b # a
    <3>1. i \in 1 .. Len(q) /\ m \in 1 .. Len(q) BY <1>0, <1>2, <1>4, <2>2
    <3> QED BY <1>4, <1>7, <3>1 DEF OnceIn
  <2> QED BY <2>1, <2>2
<1> QED BY <1>2, <1>6, <1>7 DEF p, e

LEMMA TimerAppended ==
  ASSUME NEW M, NEW q \in Seq(Sqes(M)), NEW a \in M
  PROVE  LET p == Append(q, TimerSqe(a))
         IN  p \in Seq(Sqes(M)) /\ OpsOf(p, M) = OpsOf(q, M) /\ (OnceIn(q, M) => OnceIn(p, M))
<1> DEFINE e == TimerSqe(a)
           p == Append(q, e)
<1>0. e \in Sqes(M) /\ \A b : OpSqe(b) # e BY SqeKinds
<1> HIDE DEF e
<1>2. p \in Seq(Sqes(M)) /\ Len(p) = Len(q) + 1 BY <1>0
<1>3. Elements(p) = Elements(q) \cup {e} BY <1>0, AppendedElements
<1>4. /\ Len(q) \in Nat /\ p[Len(q) + 1] = e /\ \A i \in 1 .. Len(q) : p[i] = q[i] BY <1>0
<1> HIDE DEF p
<1>6. OpsOf(p, M) = OpsOf(q, M) BY <1>0, <1>3 DEF OpsOf
<1>7. OnceIn(q, M) => OnceIn(p, M) BY <1>0, <1>2, <1>4 DEF OnceIn
<1> QED BY <1>2, <1>6, <1>7 DEF p, e

(* Submitting parts the operations of a queue into those taken and those   *)
(* left.                                                                   *)
Taken(q, k, M) == {f \in M : OpSqe(f) \in Elements(SubSeq(q, 1, k))}

-----------------------------------------------------------------------------
(* What TypeInv says of the frames and their fields. *)
LEMMA Types ==
  ASSUME TypeInv
  PROVE  /\ Len(frames) \in Nat /\ 0 \notin Made /\ Made \subseteq Nat /\ 0 .. Len(frames) = Made \cup {0}
         /\ St \in [Made -> {"started", "final", "freed"}] /\ Root \in [Made -> Made]
         /\ Cont \in [Made -> Made \cup {0}] /\ Child \in [Made -> Made \cup {0}]
         /\ cur \in Made \cup {0} /\ tasks \subseteq Made /\ inflight \subseteq Made
         /\ Pending \subseteq Made /\ Staged \subseteq Made /\ Completed \subseteq Made
<1>1. Len(frames) \in Nat BY SeqFun DEF TypeInv, IsFrames
<1>2. 0 \notin Made /\ Made \subseteq Nat /\ 0 .. Len(frames) = Made \cup {0} BY <1>1 DEF Made
<1>3. /\ St \in [Made -> {"started", "final", "freed"}] /\ Root \in [Made -> Made]
      /\ Cont \in [Made -> Made \cup {0}] /\ Child \in [Made -> Made \cup {0}]
      /\ cur \in Made \cup {0} /\ tasks \subseteq Made /\ inflight \subseteq Made
  BY Zenon, <1>2 DEF TypeInv
<1>4. Pending \subseteq Made /\ Staged \subseteq Made /\ Completed \subseteq Made
  BY <1>3 DEF Pending, Staged, Completed, OpsOf
<1> QED BY <1>1, <1>2, <1>3, <1>4

(* The frame a coroutine call allocates is a new one. *)
LEMMA Fresh ==
  ASSUME TypeInv
  PROVE  NewFrame \notin Made /\ NewFrame # 0
<1>1. Len(frames) \in Nat BY Types
<1> QED BY <1>1 DEF Made, NewFrame

LEMMA CallTypes ==
  ASSUME TypeInv
  PROVE  /\ Len(calls) \in Nat /\ (calls = <<>> <=> Len(calls) = 0)
         /\ \A i \in 1 .. Len(calls) :
              calls[i].by \in {"spawn", "drain"} /\ calls[i].task \in Made /\ calls[i].caller \in Made \cup {0}
<1> DEFINE C == [by : {"spawn", "drain"}, task : Made, caller : 0 .. Len(frames)]
<1>1. calls \in Seq(C) BY DEF TypeInv
<1>2. \A c \in C : c.by \in {"spawn", "drain"} /\ c.task \in Made /\ c.caller \in 0 .. Len(frames) OBVIOUS
<1> HIDE DEF C
<1>3. Len(calls) \in Nat /\ (calls = <<>> <=> Len(calls) = 0) /\ \A i \in 1 .. Len(calls) : calls[i] \in C
  BY <1>1
<1> QED BY <1>2, <1>3, Types

(* A root has no continuation. *)
LEMMA RootCont ==
  ASSUME TypeInv, TreeInv, NEW t \in Made, Root[t] = t
  PROVE  Cont[t] = 0
<1> SUFFICES ASSUME Cont[t] # 0 PROVE FALSE OBVIOUS
<1>1. Cont[t] \in Made /\ Made \subseteq Nat BY Types
<1>2. Cont[t] < t /\ Root[Cont[t]] = t /\ Root[Cont[t]] <= Cont[t] BY Zenon, <1>1 DEF TreeInv
<1>3. t \in Nat /\ Cont[t] \in Nat /\ t <= Cont[t] BY Zenon, <1>1, <1>2
<1> QED BY <1>2, <1>3

(* The continuation of a live frame is suspended in the co_await of it. *)
LEMMA Continuation ==
  ASSUME TypeInv, TreeInv, NEW f \in Made, St[f] # "freed", Cont[f] # 0
  PROVE  /\ Cont[f] \in Made /\ Cont[f] # f /\ St[Cont[f]] = "started" /\ Child[Cont[f]] = f
         /\ Doing[Cont[f]] = "call" /\ Root[Cont[f]] = Root[f]
<1> DEFINE p == Cont[f]
<1>1. p \in Made /\ Made \subseteq Nat /\ 0 \notin Made BY Types
<1>2. p < f /\ Root[p] = Root[f] /\ St[p] = "started" /\ Child[p] = f BY DEF TreeInv
<1>3. p # f BY <1>1, <1>2
<1> HIDE DEF p
<1>4. Child[p] # 0 /\ St[p] # "freed" BY <1>1, <1>2
<1>5. Doing[p] = "call" BY <1>1, <1>4 DEF TreeInv
<1> QED BY <1>1, <1>2, <1>3, <1>5 DEF p

(* Frames of D are destroyed, with all they own, and f, which owns no      *)
(* other, goes on or ends.                                                 *)
LEMMA AdvancesTree ==
  ASSUME TypeInv, TreeInv, NEW D \in SUBSET Made, NEW f \in (Made \cup {0}) \ D, NEW ends \in BOOLEAN,
         Advances(D, f, ends),
         f \in Made => St[f] = "started" /\ Child[f] \in D \cup {0},
         \A g \in D : Child[g] \in D \cup {0} /\ Cont[g] \in D \cup {0, f},
         \A t \in tasks' : t \in Made \ D /\ Root[t] = t /\ St[t] # "freed"
  PROVE  TreeInv'
<1>1. /\ 0 \notin Made /\ St \in [Made -> {"started", "final", "freed"}] /\ Root \in [Made -> Made]
      /\ Cont \in [Made -> Made \cup {0}] /\ Child \in [Made -> Made \cup {0}]
  BY Types
<1>2. /\ Made' = Made /\ Cont' = Cont /\ Root' = Root
      /\ \A g \in Made :
           /\ St'[g] = IF g \in D THEN "freed" ELSE IF g = f /\ ends THEN "final" ELSE St[g]
           /\ Child'[g] = IF g = f THEN 0 ELSE Child[g]
           /\ g # f => Doing'[g] = Doing[g]
  BY DEF Advances, Made
<1>3. ASSUME NEW g \in Made
      PROVE  /\ Root'[g] <= g /\ Root'[Root'[g]] = Root'[g]
             /\ IF Cont'[g] = 0 THEN Root'[g] = g ELSE Cont'[g] < g /\ Root'[Cont'[g]] = Root'[g]
             /\ Child'[g] # 0 => Child'[g] > g /\ Cont'[Child'[g]] = g
  BY <1>1, <1>2 DEF TreeInv
<1>4. ASSUME NEW g \in Made, St'[g] # "freed", Child'[g] # 0
      PROVE  St'[g] = "started" /\ Doing'[g] = "call" /\ St'[Child'[g]] # "freed"
  <2>1. g \notin D /\ g # f /\ Child'[g] = Child[g] /\ St'[g] = St[g] /\ Doing'[g] = Doing[g]
    BY <1>2, <1>4
  <2>2. /\ St[g] = "started" /\ Doing[g] = "call" /\ St[Child[g]] # "freed" /\ Cont[Child[g]] = g
        /\ Child[g] \in Made
    BY <1>1, <1>4, <2>1 DEF TreeInv
  <2>3. Child[g] \notin D BY <1>1, <2>1, <2>2
  <2> QED BY <1>2, <2>1, <2>2, <2>3
<1>5. ASSUME NEW g \in Made, St'[g] # "freed", Cont'[g] # 0
      PROVE  St'[Cont'[g]] = "started" /\ Child'[Cont'[g]] = g
  <2>1. g \notin D /\ Cont'[g] = Cont[g] /\ Cont[g] \in Made /\ St[g] # "freed"
    <3>1. g \notin D BY <1>2, <1>5
    <3>2. g = f => St[g] # "freed" OBVIOUS
    <3> QED BY <1>1, <1>2, <1>5, <3>1, <3>2
  <2>2. St[Cont[g]] = "started" /\ Child[Cont[g]] = g BY <1>5, <2>1 DEF TreeInv
  <2>3. Cont[g] \notin D BY <1>1, <2>1, <2>2
  <2>4. Cont[g] # f BY <1>1, <2>1, <2>2
  <2> QED BY <1>2, <2>1, <2>2, <2>3, <2>4
<1>6. \A t \in tasks' : Root'[t] = t /\ St'[t] # "freed" BY <1>2
<1> QED BY <1>2, <1>3, <1>4, <1>5, <1>6 DEF TreeInv

-----------------------------------------------------------------------------
(* The running frame goes on or ends, as does the inner Task it had. *)
Steps(D, ends) ==
  /\ cur # 0 /\ ends \in BOOLEAN
  /\ D = IF Child[cur] = 0 THEN {} ELSE {Child[cur]}
  /\ Advances(D, cur, ends)
  /\ cur' = IF ends THEN Cont[cur] ELSE cur
  /\ UNCHANGED <<calls, at, tasks, Staged, inflight, Completed, overwritten, killed>>
  /\ \/ UNCHANGED <<tl_sq_full, refused>>
     \/ tl_sq_full' = TRUE /\ refused' = refused \cup {<<Root[cur], calls[Len(calls)].by = "spawn">>}

LEMMA StepsFacts ==
  ASSUME TypeInv, TreeInv, RunInv, NEW D, NEW ends, Steps(D, ends)
  PROVE  /\ cur \in Made \ D /\ D \subseteq Made /\ St[cur] = "started" /\ calls # <<>>
         /\ \A g \in D : St[g] = "final" /\ Cont[g] = cur /\ Child[g] = 0 /\ Root[g] # g
         /\ Made' = Made /\ Cont' = Cont /\ Root' = Root
         /\ \A g \in Made :
              /\ St'[g] = IF g \in D THEN "freed" ELSE IF g = cur /\ ends THEN "final" ELSE St[g]
              /\ Child'[g] = IF g = cur THEN 0 ELSE Child[g]
              /\ g # cur => Doing'[g] = Doing[g]
<1>1. /\ cur \in Made /\ 0 \notin Made /\ Child \in [Made -> Made \cup {0}] /\ Cont \in [Made -> Made \cup {0}]
      /\ Made \subseteq Nat
  BY Types DEF Steps
<1>2. St[cur] = "started" /\ calls # <<>> /\ (Child[cur] # 0 => St[Child[cur]] = "final") BY <1>1 DEF RunInv
<1>3. D \subseteq Made /\ \A g \in D : g = Child[cur] /\ St[g] = "final" BY <1>1, <1>2 DEF Steps
<1>4. \A g \in D : Cont[g] = cur /\ g > cur BY <1>1, <1>3 DEF TreeInv
<1>5. \A g \in D : Child[g] = 0 BY <1>1, <1>3 DEF TreeInv
<1>6. \A g \in D : Root[g] # g BY <1>1, <1>3, <1>4, RootCont
<1>7. cur \notin D BY <1>2, <1>3
<1>8. Made' = Made BY DEF Steps, Advances, Made
<1> QED BY <1>1, <1>2, <1>3, <1>4, <1>5, <1>6, <1>7, <1>8 DEF Steps, Advances

(* The frames that wait in spawn() belong to other calls than the running  *)
(* one.                                                                    *)
LEMMA CallersRoots ==
  ASSUME TypeInv, TreeInv, RunInv, NEW i \in 1 .. Len(calls), calls[i].caller # 0
  PROVE  /\ calls[i].caller \in Made /\ i - 1 \in 1 .. Len(calls) /\ Root[calls[i].caller] = calls[i - 1].task
         /\ St[calls[i].caller] = "started" /\ Doing[calls[i].caller] = "spawn" /\ Child[calls[i].caller] = 0
         /\ calls[i].by = "spawn"
         /\ \A j \in i .. Len(calls) : Root[calls[i].caller] # calls[j].task
<1>1. /\ Len(calls) \in Nat /\ calls[i].caller \in Made BY CallTypes
<1>2. i # 1 BY DEF RunInv
<1>3. i - 1 \in 1 .. Len(calls) BY <1>1, <1>2
<1>4. /\ Root[calls[i].caller] = calls[i - 1].task /\ calls[i].by = "spawn"
      /\ St[calls[i].caller] = "started" /\ Doing[calls[i].caller] = "spawn"
  BY <1>2 DEF RunInv
<1>5. Child[calls[i].caller] = 0 BY <1>1, <1>4 DEF TreeInv
<1>6. ASSUME NEW j \in i .. Len(calls) PROVE calls[i - 1].task # calls[j].task
  <2>1. j \in 1 .. Len(calls) /\ j # i - 1 BY <1>1
  <2> QED BY <1>3, <2>1 DEF RunInv
<1> QED BY <1>1, <1>3, <1>4, <1>5, <1>6

LEMMA StepsInv ==
  ASSUME TypeInv, TreeInv, RunInv, PendInv, FlagInv, NEW D, NEW ends, Steps(D, ends)
  PROVE  TreeInv' /\ RunInv' /\ PendInv' /\ FlagInv'
<1>0. /\ 0 \notin Made /\ tasks \subseteq Made /\ Pending \subseteq Made /\ Cont \in [Made -> Made \cup {0}]
      /\ Root \in [Made -> Made]
  BY Types
<1>1. /\ cur \in Made \ D /\ D \subseteq Made /\ St[cur] = "started" /\ calls # <<>>
      /\ \A g \in D : St[g] = "final" /\ Cont[g] = cur /\ Child[g] = 0 /\ Root[g] # g
      /\ Made' = Made /\ Cont' = Cont /\ Root' = Root
      /\ \A g \in Made :
           /\ St'[g] = IF g \in D THEN "freed" ELSE IF g = cur /\ ends THEN "final" ELSE St[g]
           /\ Child'[g] = IF g = cur THEN 0 ELSE Child[g]
           /\ g # cur => Doing'[g] = Doing[g]
  BY StepsFacts
<1>2. /\ ends \in BOOLEAN /\ Advances(D, cur, ends) /\ D = (IF Child[cur] = 0 THEN {} ELSE {Child[cur]})
      /\ cur' = IF ends THEN Cont[cur] ELSE cur
      /\ UNCHANGED <<calls, at, tasks, overwritten, killed, Pending>>
  BY ZenonT(30) DEF Steps, Pending
<1>3. TreeInv'
  <2>1. Child[cur] \in D \cup {0} BY <1>2
  <2>2. \A t \in tasks' : t \in Made \ D /\ Root[t] = t /\ St[t] # "freed"
    <3>1. \A t \in tasks : Root[t] = t /\ St[t] # "freed" BY ZenonT(30) DEF TreeInv
    <3> QED BY <1>0, <1>1, <1>2, <3>1
  <2>3. D \in SUBSET Made /\ cur \in (Made \cup {0}) \ D BY ZenonT(30), <1>1
  <2>4. \A g \in D : Child[g] \in D \cup {0} /\ Cont[g] \in D \cup {0, cur} BY ZenonT(30), <1>1
  <2> QED BY <1>1, <1>2, <2>1, <2>2, <2>3, <2>4, AdvancesTree
<1>4. ASSUME ends, Cont[cur] # 0
      PROVE  /\ Cont[cur] \in Made \ D /\ Cont[cur] # cur /\ St'[Cont[cur]] = "started" /\ Child'[Cont[cur]] = cur
             /\ Root[Cont[cur]] = Root[cur] /\ Doing'[Cont[cur]] = "call"
  <2>1. /\ Cont[cur] \in Made /\ Cont[cur] # cur /\ St[Cont[cur]] = "started" /\ Child[Cont[cur]] = cur
        /\ Doing[Cont[cur]] = "call" /\ Root[Cont[cur]] = Root[cur]
    BY <1>1, <1>4, Continuation
  <2>2. Cont[cur] \notin D BY <1>1, <2>1
  <2> QED BY <1>1, <2>1, <2>2
<1>5. Len(calls) \in Nat /\ Len(calls) \in 1 .. Len(calls) /\ Root[cur] = calls[Len(calls)].task
  <2>1. Len(calls) \in Nat /\ Len(calls) # 0 BY <1>1, CallTypes
  <2>2. Root[cur] = calls[Len(calls)].task BY <1>0, <1>1 DEF RunInv
  <2> QED BY <2>1, <2>2
<1>6. ASSUME NEW i \in 1 .. Len(calls), calls[i].caller # 0
      PROVE  calls[i].caller \in Made \ D /\ calls[i].caller # cur
  <2>1. Root[calls[i].caller] # Root[cur] /\ calls[i].caller \in Made /\ St[calls[i].caller] = "started"
    <3>1. Len(calls) \in i .. Len(calls) BY <1>5
    <3>2. /\ calls[i].caller \in Made /\ St[calls[i].caller] = "started"
          /\ \A j \in i .. Len(calls) : Root[calls[i].caller] # calls[j].task
      BY ZenonT(30), <1>6, CallersRoots
    <3> QED BY <1>5, <3>1, <3>2
  <2> QED BY <1>1, <2>1
<1>7. RunInv'
  <2>1. (at = "code" <=> calls # <<>>)' BY <1>2 DEF RunInv
  <2>2. ASSUME cur' # 0
        PROVE  /\ calls' # <<>> /\ St'[cur'] = "started" /\ Root'[cur'] = calls'[Len(calls')].task
               /\ Child'[cur'] # 0 => St'[Child'[cur']] = "final"
    <3>1. CASE ~ends BY Zenon, <1>1, <1>2, <1>5, <3>1
    <3>2. CASE ends BY ZenonT(30), <1>1, <1>2, <1>4, <1>5, <2>2, <3>2
    <3> QED BY Zenon, <1>2, <3>1, <3>2
  <2>3. ASSUME NEW i \in 1 .. Len(calls)
        PROVE  /\ Root'[calls[i].task] = calls[i].task
               /\ calls[i].by = "spawn" => calls[i].task \notin tasks /\ St'[calls[i].task] # "freed"
               /\ IF i = 1 THEN calls[i].caller = 0
                  ELSE /\ calls[i].by = "spawn" /\ calls[i].caller # 0
                       /\ St'[calls[i].caller] = "started" /\ Doing'[calls[i].caller] = "spawn"
                       /\ Root'[calls[i].caller] = calls[i - 1].task
               /\ \A j \in 1 .. Len(calls) : calls[i].task = calls[j].task => i = j
    <3>1. calls[i].task \in Made BY CallTypes
    <3>2. Root[calls[i].task] = calls[i].task /\ (calls[i].by = "spawn" => calls[i].task \notin tasks /\ St[calls[i].task] # "freed")
      BY Zenon DEF RunInv
    <3>3. calls[i].task \notin D BY <1>1, <3>2
    <3>4. calls[i].by = "spawn" => St'[calls[i].task] # "freed" BY Zenon, <1>1, <3>1, <3>2, <3>3
    <3>5. ASSUME i # 1
          PROVE  /\ calls[i].by = "spawn" /\ calls[i].caller # 0
                 /\ St'[calls[i].caller] = "started" /\ Doing'[calls[i].caller] = "spawn"
                 /\ Root'[calls[i].caller] = calls[i - 1].task
      <4>1. calls[i].by = "spawn" /\ calls[i].caller # 0 BY <3>5 DEF RunInv
      <4>2. /\ calls[i].caller \in Made /\ Root[calls[i].caller] = calls[i - 1].task
            /\ St[calls[i].caller] = "started" /\ Doing[calls[i].caller] = "spawn"
        BY <4>1, CallersRoots
      <4> QED BY Zenon, <1>1, <1>6, <4>1, <4>2
    <3>6. i = 1 => calls[i].caller = 0 BY DEF RunInv
    <3>7. \A j \in 1 .. Len(calls) : calls[i].task = calls[j].task => i = j BY ZenonT(30) DEF RunInv
    <3> QED BY <1>1, <3>2, <3>4, <3>5, <3>6, <3>7
  <2>4. calls' = calls /\ tasks' = tasks BY Zenon, <1>2
  <2>5. \A i \in 1 .. Len(calls') :
          /\ Root'[calls'[i].task] = calls'[i].task
          /\ calls'[i].by = "spawn" => calls'[i].task \notin tasks' /\ St'[calls'[i].task] # "freed"
          /\ IF i = 1 THEN calls'[i].caller = 0
             ELSE /\ calls'[i].by = "spawn" /\ calls'[i].caller # 0
                  /\ St'[calls'[i].caller] = "started" /\ Doing'[calls'[i].caller] = "spawn"
                  /\ Root'[calls'[i].caller] = calls'[i - 1].task
          /\ \A j \in 1 .. Len(calls') : calls'[i].task = calls'[j].task => i = j
    BY Zenon, <2>3, <2>4
  <2> QED BY Zenon, <2>1, <2>2, <2>5 DEF RunInv
<1>8. PendInv'
  <2>1. ASSUME NEW g \in Pending
        PROVE  /\ St'[g] \in {"started", "freed"} /\ (St'[g] = "started" => Doing'[g] = "await" /\ g # cur')
               /\ St'[g] = "freed" => \E x \in killed' : x.task = Root'[g]
    <3>1. g \in Made /\ St[g] \in {"started", "freed"} /\ (St[g] = "started" => Doing[g] = "await" /\ g # cur)
      BY <1>0 DEF PendInv
    <3>2. g # cur /\ g \notin D BY ZenonT(30), <1>1, <3>1
    <3>3. St'[g] = St[g] /\ Doing'[g] = Doing[g] BY <1>1, <3>1, <3>2
    <3>4. ASSUME St[g] = "started", g = cur' PROVE FALSE
      <4>1. ends /\ g = Cont[cur] /\ g # 0 BY <1>0, <1>2, <3>1, <3>2, <3>4
      <4>2. Doing'[g] = "call" BY <1>4, <4>1
      <4> QED BY <3>1, <3>3, <3>4, <4>2
    <3>5. St[g] = "freed" => \E x \in killed : x.task = Root[g] BY DEF PendInv
    <3> QED BY <1>1, <1>2, <3>1, <3>3, <3>4, <3>5
  <2>2. ASSUME NEW g \in Made, St'[g] = "started", g # cur'
        PROVE  \/ g \in Pending \cup overwritten \/ Child'[g] # 0
               \/ \E i \in 1 .. Len(calls) : calls[i].caller = g
    <3>1. g # cur BY Zenon, <1>1, <1>2, <2>2
    <3>2. St[g] = "started" /\ Child'[g] = Child[g] BY <1>1, <2>2, <3>1
    <3> QED BY <3>1, <3>2 DEF PendInv
  <2>3. Made' = Made /\ UNCHANGED <<calls, overwritten, Pending>> BY Zenon, <1>1, <1>2
  <2>4. \A g \in Pending' :
          /\ St'[g] \in {"started", "freed"} /\ (St'[g] = "started" => Doing'[g] = "await" /\ g # cur')
          /\ St'[g] = "freed" => \E x \in killed' : x.task = Root'[g]
    BY Zenon, <2>1, <2>3
  <2>5. \A g \in Made' : St'[g] = "started" /\ g # cur' =>
          \/ g \in Pending' \cup overwritten' \/ Child'[g] # 0
          \/ \E i \in 1 .. Len(calls') : calls'[i].caller = g
    BY Zenon, <2>2, <2>3
  <2> QED BY Zenon, <2>4, <2>5 DEF PendInv
<1>9. FlagInv'
  <2>1. CASE UNCHANGED <<tl_sq_full, refused>> BY Zenon, <1>2, <2>1 DEF FlagInv, IsRefused, MisblamedBy
  <2>2. CASE tl_sq_full' = TRUE /\ refused' = refused \cup {<<Root[cur], calls[Len(calls)].by = "spawn">>}
    <3>1. \A r : IsRefused(r) => IsRefused(r)' BY Zenon, <2>2 DEF IsRefused
    <3>2. \E i \in 1 .. Len(calls) : IsRefused(calls[i].task)' BY Zenon, <1>2, <1>5, <2>2 DEF IsRefused
    <3>3. ASSUME NEW t \in tasks, <<t, TRUE>> \in refused' PROVE MisblamedBy(t)
      <4>1. <<t, TRUE>> \in refused
        <5>1. SUFFICES ASSUME <<t, TRUE>> = <<Root[cur], calls[Len(calls)].by = "spawn">> PROVE FALSE
          BY Zenon, <2>2, <3>3
        <5>2. t = calls[Len(calls)].task /\ calls[Len(calls)].by = "spawn" BY Zenon, <1>5, <5>1
        <5>3. t \notin tasks BY <1>5, <5>2 DEF RunInv
        <5> QED BY <5>3
      <4> QED BY Zenon, <4>1 DEF FlagInv
    <3>4. \A x \in killed : IsRefused(x.task)' \/ \E r \in x.by : IsRefused(r)' BY <3>1 DEF FlagInv
    <3> QED BY Zenon, <1>2, <2>2, <3>2, <3>3, <3>4 DEF FlagInv, IsRefused, MisblamedBy
  <2> QED BY Zenon, <2>1, <2>2 DEF Steps
<1> QED BY <1>3, <1>7, <1>8, <1>9

-----------------------------------------------------------------------------
(* spawn() ends: the frame that called it, if one did, goes on or ends.    *)
Top == calls[Len(calls)]

Pops(D, ends) ==
  /\ calls # <<>> /\ cur = 0 /\ Top.by = "spawn" /\ ends \in BOOLEAN
  /\ calls' = SubSeq(calls, 1, Len(calls) - 1)
  /\ Advances(D, Top.caller, ends)
  /\ cur' = IF Top.caller # 0 /\ ends THEN Cont[Top.caller] ELSE Top.caller
  /\ at' = "code" <=> Top.caller # 0
  /\ UNCHANGED <<refused, Staged, inflight, Completed, overwritten>> /\ tl_sq_full' = FALSE
  /\ \/ /\ tl_sq_full /\ D = Owned(frames, {Top.task}) /\ tasks' = tasks
        /\ killed' = killed \cup {[task |-> Top.task, by |-> {calls[i].task : i \in 1 .. Len(calls) - 1}]}
     \/ /\ ~tl_sq_full /\ D = {} /\ tasks' = tasks \cup {Top.task}
        /\ killed' = killed

LEMMA PopsFacts ==
  ASSUME TypeInv, TreeInv, RunInv, NEW D, NEW ends, Pops(D, ends)
  PROVE  /\ Len(calls) \in Nat \ {0} /\ Top.task \in Made /\ Root[Top.task] = Top.task
         /\ Top.task \notin tasks /\ St[Top.task] # "freed"
         /\ D \subseteq Made /\ Top.caller \in (Made \cup {0}) \ D
         /\ \A g \in D : Root[g] = Top.task /\ Child[g] \in D \cup {0} /\ Cont[g] \in D \cup {0}
         /\ Top.caller # 0 => /\ St[Top.caller] = "started" /\ Doing[Top.caller] = "spawn" /\ Child[Top.caller] = 0
                              /\ Len(calls) - 1 \in 1 .. Len(calls)
                              /\ Root[Top.caller] = calls[Len(calls) - 1].task
         /\ Top.caller = 0 <=> Len(calls) = 1
<1> DEFINE t == Top.task
           n == Len(calls)
<1>1. n \in Nat \ {0} /\ n \in 1 .. n /\ Top = calls[n] BY CallTypes DEF Pops, Top
<1> HIDE DEF n
<1>2. t \in Made /\ Top.caller \in Made \cup {0} BY ZenonT(30), <1>1, CallTypes DEF n
<1>3. Root[t] = t /\ t \notin tasks /\ St[t] # "freed" BY ZenonT(30), <1>1 DEF RunInv, n, Pops
<1>4. Top.caller = 0 <=> n = 1 BY ZenonT(30), <1>1 DEF RunInv, n
<1>5. ASSUME Top.caller # 0
      PROVE  /\ St[Top.caller] = "started" /\ Doing[Top.caller] = "spawn" /\ Child[Top.caller] = 0
             /\ n - 1 \in 1 .. n /\ Root[Top.caller] = calls[n - 1].task /\ Root[Top.caller] # t
  BY <1>1, <1>5, CallersRoots DEF n
<1>6. 0 \notin Made /\ Child \in [Made -> Made \cup {0}] BY Types
<1> HIDE DEF t
<1>7. ASSUME D = Owned(frames, {t})
      PROVE  D \subseteq Made /\ \A g \in D : Root[g] = t /\ Child[g] \in D \cup {0} /\ Cont[g] \in D \cup {0}
  <2>1. /\ D \subseteq Made /\ \A g \in D : Child[g] \in D \cup {0}
        /\ \A C \in SUBSET Made : {t} \subseteq C /\ (\A f \in C : Child[f] \in C \cup {0}) => D \subseteq C
    BY <1>2, <1>7, OwnedSet DEF t
  <2> DEFINE C == {g \in Made : Root[g] = t}
  <2>2. C \in SUBSET Made /\ {t} \subseteq C BY <1>2, <1>3 DEF t
  <2>3. \A f \in C : Child[f] \in C \cup {0}
    <3> SUFFICES ASSUME NEW f \in C, Child[f] # 0 PROVE Child[f] \in C OBVIOUS
    <3>1. f \in Made /\ Root[f] = t /\ Child[f] \in Made BY <1>6
    <3>2. Cont[Child[f]] = f BY <3>1 DEF TreeInv
    <3>3. Root[Child[f]] = Root[f] BY <1>6, <3>1, <3>2 DEF TreeInv
    <3> QED BY <3>1, <3>3
  <2>4. D \subseteq C BY Zenon, <2>1, <2>2, <2>3
  <2>5. ASSUME NEW g \in D, Cont[g] # 0 PROVE Cont[g] \in D
    <3>1. g \in Made /\ g # t BY <1>2, <1>3, <2>1, <2>5, RootCont DEF t
    <3>2. PICK h \in D : Child[h] = g
      <4>1. {t} \in SUBSET Made /\ g \in Owned(frames, {t}) /\ g \notin {t} BY <1>2, <1>7, <3>1 DEF t
      <4> QED BY <1>7, <4>1, OwnedBy
    <3>3. Cont[g] = h BY <1>6, <2>1, <3>1, <3>2 DEF TreeInv
    <3> QED BY <3>3
  <2> QED BY <2>1, <2>4, <2>5
<1>8. D = {} \/ D = Owned(frames, {t}) BY DEF Pops, t
<1>9. D \subseteq Made /\ \A g \in D : Root[g] = t /\ Child[g] \in D \cup {0} /\ Cont[g] \in D \cup {0}
  BY <1>7, <1>8
<1>10. Top.caller \notin D BY Zenon, <1>5, <1>6, <1>9
<1> QED BY ZenonT(30), <1>1, <1>2, <1>3, <1>4, <1>5, <1>9, <1>10 DEF t, n

LEMMA PopsInv ==
  ASSUME TypeInv, TreeInv, RunInv, PendInv, FlagInv, NEW D, NEW ends, Pops(D, ends)
  PROVE  TreeInv' /\ RunInv' /\ PendInv' /\ FlagInv'
<1> DEFINE t == Top.task
           c == Top.caller
           n == Len(calls)
<1>0. /\ 0 \notin Made /\ tasks \subseteq Made /\ Pending \subseteq Made /\ Cont \in [Made -> Made \cup {0}]
      /\ Root \in [Made -> Made]
  BY Types
<1>1. /\ n \in Nat \ {0} /\ t \in Made /\ Root[t] = t /\ t \notin tasks /\ St[t] # "freed"
      /\ D \subseteq Made /\ c \in (Made \cup {0}) \ D
      /\ \A g \in D : Root[g] = t /\ Child[g] \in D \cup {0} /\ Cont[g] \in D \cup {0}
      /\ c # 0 => /\ St[c] = "started" /\ Doing[c] = "spawn" /\ Child[c] = 0
                  /\ n - 1 \in 1 .. n /\ Root[c] = calls[n - 1].task
      /\ c = 0 <=> n = 1
  BY ZenonT(30), PopsFacts
<1>2. /\ calls[n].task = t /\ calls[n].caller = c /\ calls[n].by = "spawn" /\ cur = 0 /\ ends \in BOOLEAN
      /\ calls' = SubSeq(calls, 1, n - 1) /\ Advances(D, c, ends)
      /\ cur' = IF c # 0 /\ ends THEN Cont[c] ELSE c
      /\ at' = "code" <=> c # 0
      /\ UNCHANGED <<refused, overwritten, Pending>> /\ tl_sq_full' = FALSE
      /\ D # {} => tl_sq_full
      /\ \/ /\ tl_sq_full /\ tasks' = tasks
            /\ killed' = killed \cup {[task |-> t, by |-> {calls[i].task : i \in 1 .. n - 1}]}
         \/ /\ ~tl_sq_full /\ tasks' = tasks \cup {t} /\ killed' = killed
  BY DEF Pops, Pending, Top
<1>3. /\ Len(calls') = n - 1 /\ \A i \in 1 .. n - 1 : calls'[i] = calls[i] /\ i \in 1 .. n
      /\ calls' = <<>> <=> n = 1
  <2> DEFINE C == [by : {"spawn", "drain"}, task : Made, caller : 0 .. Len(frames)]
  <2>1. calls \in Seq(C) BY DEF TypeInv
  <2> DEFINE u == SubSeq(calls, 1, n - 1)
  <2> HIDE DEF C
  <2>0. n \in Nat \ {0} BY Zenon, <1>1
  <2>2. n - 1 \in Nat /\ n - 1 \in 0 .. n - 1 /\ \A i \in 1 .. n - 1 : i \in 1 .. n BY <2>0
  <2>4. u \in Seq(C) /\ Len(u) = n - 1 /\ \A i \in 1 .. n - 1 : u[i] = calls[i]
    <3>1. n - 1 \in Nat /\ n - 1 <= Len(calls) BY <2>0
    <3> QED BY Zenon, <2>1, <3>1, Front
  <2>5. u = calls' BY ZenonT(30), <1>2
  <2> HIDE DEF u
  <2>6. u = <<>> <=> n = 1 BY <2>0, <2>4
  <2> QED BY Zenon, <2>2, <2>4, <2>5, <2>6
<1> HIDE DEF t, c, n
<1>4. /\ Made' = Made /\ Cont' = Cont /\ Root' = Root
      /\ \A g \in Made :
           /\ St'[g] = IF g \in D THEN "freed" ELSE IF g = c /\ ends THEN "final" ELSE St[g]
           /\ Child'[g] = IF g = c THEN 0 ELSE Child[g]
           /\ g # c => Doing'[g] = Doing[g]
  BY Zenon, <1>2 DEF Advances, Made
<1>5. TreeInv'
  <2>1. \A u \in tasks' : u \in Made \ D /\ Root[u] = u /\ St[u] # "freed"
    <3>1. ASSUME NEW u \in tasks PROVE u \in Made \ D /\ Root[u] = u /\ St[u] # "freed"
      <4>1. u \in Made /\ Root[u] = u /\ St[u] # "freed" /\ u # t BY <1>0, <1>1 DEF TreeInv
      <4> QED BY Zenon, <1>1, <4>1
    <3>2. ASSUME ~tl_sq_full PROVE D = {} BY ZenonT(30), <1>2, <3>2
    <3> QED BY ZenonT(30), <1>1, <1>2, <3>1, <3>2
  <2>2. D \in SUBSET Made /\ \A g \in D : Child[g] \in D \cup {0} /\ Cont[g] \in D \cup {0, c} BY ZenonT(30), <1>1
  <2>3. c \in Made => St[c] = "started" /\ Child[c] \in D \cup {0} BY <1>0, <1>1
  <2>4. c \in (Made \cup {0}) \ D /\ Advances(D, c, ends) /\ ends \in BOOLEAN BY Zenon, <1>1, <1>2
  <2> QED BY <2>1, <2>2, <2>3, <2>4, AdvancesTree
<1>6. ASSUME c # 0, ends, Cont[c] # 0
      PROVE  /\ Cont[c] \in Made \ D /\ Cont[c] # c /\ St'[Cont[c]] = "started" /\ Child'[Cont[c]] = c
             /\ Root[Cont[c]] = Root[c] /\ Doing'[Cont[c]] = "call"
  <2>1. /\ Cont[c] \in Made /\ Cont[c] # c /\ St[Cont[c]] = "started" /\ Child[Cont[c]] = c
        /\ Doing[Cont[c]] = "call" /\ Root[Cont[c]] = Root[c]
    BY ZenonT(30), <1>1, <1>6, Continuation
  <2>2. c \in Made /\ n - 1 \in 1 .. n /\ n \in 1 .. n /\ n - 1 # n
    <3>1. c \in Made /\ n \in Nat \ {0} /\ n - 1 \in 1 .. n BY Zenon, <1>1, <1>6
    <3>2. n \in 1 .. n /\ n - 1 # n BY <3>1
    <3> QED BY Zenon, <3>1, <3>2
  <2>3. Root[c] # t
    <3>1. Root[c] = calls[n - 1].task /\ calls[n].task = t BY Zenon, <1>1, <1>2, <1>6
    <3>2. calls[n - 1].task # calls[n].task BY Zenon, <2>2 DEF RunInv, n
    <3> QED BY Zenon, <3>1, <3>2
  <2>4. Cont[c] \notin D BY Zenon, <1>1, <2>1, <2>3
  <2> QED BY Zenon, <1>4, <2>1, <2>4
<1>7. ASSUME NEW i \in 1 .. n - 1, calls[i].caller # 0
      PROVE  /\ calls[i].caller \in Made /\ calls[i].by = "spawn" /\ Root[calls[i].caller] = calls[i - 1].task
             /\ St'[calls[i].caller] = "started" /\ Doing'[calls[i].caller] = "spawn"
  <2>1. /\ calls[i].caller \in Made /\ Root[calls[i].caller] = calls[i - 1].task
        /\ St[calls[i].caller] = "started" /\ Doing[calls[i].caller] = "spawn" /\ calls[i].by = "spawn"
        /\ \A j \in i .. n : Root[calls[i].caller] # calls[j].task
    BY Zenon, <1>3, <1>7, CallersRoots DEF n
  <2>2. n \in i .. n /\ n - 1 \in i .. n
    <3>1. n \in Nat \ {0} BY Zenon, <1>1
    <3> QED BY <3>1
  <2>3. Root[calls[i].caller] # t BY ZenonT(30), <1>2, <2>1, <2>2
  <2>4. calls[i].caller # c
    <3>1. c # 0 => Root[c] = calls[n - 1].task BY Zenon, <1>1
    <3> QED BY Zenon, <1>7, <2>1, <2>2, <3>1
  <2>5. calls[i].caller \notin D BY <1>1, <2>3
  <2> QED BY Zenon, <1>4, <2>1, <2>4, <2>5
<1>8. RunInv'
  <2>1. (at = "code" <=> calls # <<>>)' BY Zenon, <1>1, <1>2, <1>3
  <2>2. ASSUME cur' # 0
        PROVE  /\ calls' # <<>> /\ St'[cur'] = "started" /\ Root'[cur'] = calls'[Len(calls')].task
               /\ Child'[cur'] # 0 => St'[Child'[cur']] = "final"
    <3>1. c # 0 /\ c \in Made /\ n # 1 /\ n - 1 \in 1 .. n - 1 /\ Root[c] = calls'[Len(calls')].task
      <4>1. c # 0 BY Zenon, <1>2, <2>2
      <4>2. c \in Made /\ n \in Nat \ {0} /\ n # 1 /\ Root[c] = calls[n - 1].task BY Zenon, <1>1, <4>1
      <4>3. n - 1 \in 1 .. n - 1 BY <4>2
      <4> QED BY Zenon, <1>3, <4>1, <4>2, <4>3
    <3>2. CASE ~ends
      <4>1. cur' = c BY Zenon, <1>2, <3>2
      <4> QED BY Zenon, <1>1, <1>3, <1>4, <3>1, <3>2, <4>1
    <3>3. CASE ends
      <4>1. cur' = Cont[c] BY ZenonT(30), <1>2, <3>1, <3>3
      <4>2. c \notin D /\ St'[c] = "final" BY Zenon, <1>1, <1>4, <3>1, <3>3
      <4> QED BY ZenonT(30), <1>3, <1>4, <1>6, <2>2, <3>1, <3>3, <4>1, <4>2
    <3> QED BY ZenonT(30), <1>2, <3>2, <3>3
  <2>3. ASSUME NEW i \in 1 .. n - 1
        PROVE  /\ Root'[calls[i].task] = calls[i].task
               /\ calls[i].by = "spawn" => calls[i].task \notin tasks' /\ St'[calls[i].task] # "freed"
               /\ IF i = 1 THEN calls[i].caller = 0
                  ELSE /\ calls[i].by = "spawn" /\ calls[i].caller # 0
                       /\ St'[calls[i].caller] = "started" /\ Doing'[calls[i].caller] = "spawn"
                       /\ Root'[calls[i].caller] = calls[i - 1].task
               /\ \A j \in 1 .. n - 1 : calls[i].task = calls[j].task => i = j
    <3>0. i \in 1 .. n /\ n \in 1 .. n /\ i # n
      <4>1. n \in Nat \ {0} BY Zenon, <1>1
      <4> QED BY <4>1
    <3>1. calls[i].task \in Made BY Zenon, <3>0, CallTypes DEF n
    <3>2. /\ Root[calls[i].task] = calls[i].task
          /\ (calls[i].by = "spawn" => calls[i].task \notin tasks /\ St[calls[i].task] # "freed")
          /\ calls[i].task # t /\ (i = 1 => calls[i].caller = 0) /\ (i # 1 => calls[i].caller # 0)
          /\ \A j \in 1 .. n : calls[i].task = calls[j].task => i = j
      BY ZenonT(30), <1>2, <3>0 DEF RunInv, n
    <3>3. calls[i].task \notin D BY <1>1, <3>2
    <3>4. calls[i].by = "spawn" => calls[i].task \notin tasks' /\ St'[calls[i].task] # "freed"
      <4>1. St'[calls[i].task] # "freed" \/ St[calls[i].task] = "freed" BY Zenon, <1>4, <3>1, <3>3
      <4>2. tasks' \subseteq tasks \cup {t} BY Zenon, <1>2
      <4> QED BY Zenon, <3>2, <4>1, <4>2
    <3>5. \A j \in 1 .. n - 1 : calls[i].task = calls[j].task => i = j BY Zenon, <1>3, <3>2
    <3> QED BY ZenonT(30), <1>4, <1>7, <3>2, <3>4, <3>5
  <2>4. \A i \in 1 .. n - 1 : i # 1 => i - 1 \in 1 .. n - 1
    <3>1. n \in Nat \ {0} BY ZenonT(30), <1>1
    <3> QED BY <3>1
  <2>5. ASSUME NEW i \in 1 .. Len(calls')
        PROVE  /\ Root'[calls'[i].task] = calls'[i].task
               /\ calls'[i].by = "spawn" => calls'[i].task \notin tasks' /\ St'[calls'[i].task] # "freed"
               /\ IF i = 1 THEN calls'[i].caller = 0
                  ELSE /\ calls'[i].by = "spawn" /\ calls'[i].caller # 0
                       /\ St'[calls'[i].caller] = "started" /\ Doing'[calls'[i].caller] = "spawn"
                       /\ Root'[calls'[i].caller] = calls'[i - 1].task
               /\ \A j \in 1 .. Len(calls') : calls'[i].task = calls'[j].task => i = j
    <3>1. Len(calls') = n - 1 /\ i \in 1 .. n - 1 /\ calls'[i] = calls[i] BY Zenon, <1>3
    <3>2. i # 1 => calls'[i - 1] = calls[i - 1] BY Zenon, <1>3, <2>4, <3>1
    <3>3. \A j \in 1 .. Len(calls') : calls'[j] = calls[j] BY Zenon, <1>3
    <3>4. /\ Root'[calls[i].task] = calls[i].task
          /\ calls[i].by = "spawn" => calls[i].task \notin tasks' /\ St'[calls[i].task] # "freed"
          /\ IF i = 1 THEN calls[i].caller = 0
             ELSE /\ calls[i].by = "spawn" /\ calls[i].caller # 0
                  /\ St'[calls[i].caller] = "started" /\ Doing'[calls[i].caller] = "spawn"
                  /\ Root'[calls[i].caller] = calls[i - 1].task
          /\ \A j \in 1 .. n - 1 : calls[i].task = calls[j].task => i = j
      BY Zenon, <2>3, <3>1
    <3>5. \A j \in 1 .. Len(calls') : calls'[i].task = calls'[j].task => i = j BY Zenon, <3>1, <3>3, <3>4
    <3> QED BY <3>1, <3>2, <3>4, <3>5
  <2> QED BY Zenon, <2>1, <2>2, <2>5 DEF RunInv
<1>9. PendInv'
  <2>1. ASSUME NEW g \in Pending
        PROVE  /\ St'[g] \in {"started", "freed"} /\ (St'[g] = "started" => Doing'[g] = "await" /\ g # cur')
               /\ St'[g] = "freed" => \E x \in killed' : x.task = Root'[g]
    <3>1. /\ g \in Made /\ St[g] \in {"started", "freed"} /\ (St[g] = "started" => Doing[g] = "await")
          /\ St[g] = "freed" => \E x \in killed : x.task = Root[g]
      BY ZenonT(30), <1>0 DEF PendInv
    <3>2. CASE g \in D
      <4>1. tl_sq_full BY Zenon, <1>2, <3>2
      <4>2. [task |-> t, by |-> {calls[i].task : i \in 1 .. n - 1}] \in killed' BY ZenonT(30), <1>2, <4>1
      <4>3. St'[g] = "freed" /\ Root'[g] = t BY ZenonT(30), <1>1, <1>4, <3>1, <3>2
      <4> QED BY Zenon, <4>2, <4>3
    <3>3. CASE g \notin D
      <4>1. g # c BY Zenon, <1>0, <1>1, <3>1
      <4>2. St'[g] = St[g] /\ Doing'[g] = Doing[g] BY Zenon, <1>4, <3>1, <3>3, <4>1
      <4>3. ASSUME St[g] = "started", g = cur' PROVE FALSE
        <5>1. c # 0 /\ ends /\ g = Cont[c] /\ g # 0 BY ZenonT(30), <1>0, <1>2, <3>1, <4>1, <4>3
        <5>2. Doing'[g] = "call" BY <1>6, <5>1
        <5> QED BY ZenonT(30), <3>1, <4>2, <4>3, <5>2
      <4> QED BY ZenonT(30), <1>2, <1>4, <3>1, <4>2, <4>3
    <3> QED BY ZenonT(30), <3>2, <3>3
  <2>2. ASSUME NEW g \in Made, St'[g] = "started", g # cur'
        PROVE  \/ g \in Pending \cup overwritten \/ Child'[g] # 0
               \/ \E i \in 1 .. Len(calls') : calls'[i].caller = g
    <3>1. g # c BY Zenon, <1>0, <1>1, <1>2, <1>4, <2>2
    <3>2. St[g] = "started" /\ Child'[g] = Child[g] /\ g # cur BY ZenonT(30), <1>0, <1>2, <1>4, <2>2, <3>1
    <3>3. \A i \in 1 .. n : calls[i].caller = g => i \in 1 .. n - 1 BY <1>1, <1>2, <3>1
    <3>4. (\E i \in 1 .. n : calls[i].caller = g) => \E i \in 1 .. Len(calls') : calls'[i].caller = g
      BY <1>3, <3>3
    <3> QED BY Zenon, <3>2, <3>4 DEF PendInv, n
  <2> QED BY ZenonT(30), <1>2, <1>4, <2>1, <2>2 DEF PendInv
<1>10. FlagInv'
  <2>1. CASE tl_sq_full
    <3> DEFINE x == [task |-> t, by |-> {calls[i].task : i \in 1 .. n - 1}]
    <3>1. killed' = killed \cup {x} /\ tasks' = tasks /\ refused' = refused BY ZenonT(30), <1>2, <2>1
    <3>2. x.task = t /\ x.by = {calls[i].task : i \in 1 .. n - 1} OBVIOUS
    <3> HIDE DEF x
    <3>3. IsRefused(x.task) \/ \E r \in x.by : IsRefused(r)
      <4>1. PICK i \in 1 .. n : IsRefused(calls[i].task) BY Zenon, <2>1 DEF FlagInv, n
      <4>2. CASE i = n BY <1>2, <3>2, <4>1, <4>2
      <4>3. CASE i # n
        <5>1. i \in 1 .. n - 1 BY <1>1, <4>3
        <5> QED BY Zenon, <3>2, <4>1, <5>1
      <4> QED BY Zenon, <4>2, <4>3
    <3>4. \A r : IsRefused(r)' <=> IsRefused(r) BY <3>1 DEF IsRefused
    <3>5. \A r : MisblamedBy(r) => MisblamedBy(r)' BY <3>1 DEF MisblamedBy
    <3>6. \A i \in 1 .. n - 1 : x \in killed' /\ calls[i].task \in x.by BY Zenon, <3>1, <3>2
    <3>7. \A y \in killed' : IsRefused(y.task)' \/ \E r \in y.by : IsRefused(r)' BY <3>1, <3>3, <3>4 DEF FlagInv
    <3>8. \A u \in tasks' : <<u, TRUE>> \in refused' => MisblamedBy(u)' BY Zenon, <3>1, <3>5 DEF FlagInv
    <3>9. \A i \in 1 .. n - 1 : MisblamedBy(calls[i].task)' BY <1>3, <3>6 DEF MisblamedBy
    <3> QED BY Zenon, <1>2, <1>3, <3>7, <3>8, <3>9 DEF FlagInv
  <2>2. CASE ~tl_sq_full
    <3>1. killed' = killed /\ tasks' = tasks \cup {t} /\ refused' = refused BY <1>2, <2>2
    <3>2. \A r : (IsRefused(r)' <=> IsRefused(r)) /\ (MisblamedBy(r)' <=> MisblamedBy(r))
      BY <3>1 DEF IsRefused, MisblamedBy
    <3>3. \A i \in 1 .. n : calls[i].by = "spawn" /\ <<calls[i].task, TRUE>> \in refused => MisblamedBy(calls[i].task)
      BY Zenon, <2>2 DEF FlagInv, n
    <3>4. n \in 1 .. n BY <1>1
    <3>5. \A u \in tasks' : <<u, TRUE>> \in refused => MisblamedBy(u) BY Zenon, <1>2, <3>1, <3>3, <3>4 DEF FlagInv
    <3>6. \A y \in killed : IsRefused(y.task) \/ \E r \in y.by : IsRefused(r) BY DEF FlagInv
    <3>7. \A i \in 1 .. n - 1 : calls'[i].by = "spawn" /\ <<calls'[i].task, TRUE>> \in refused => MisblamedBy(calls'[i].task)
      BY Zenon, <1>3, <3>3
    <3> QED BY ZenonT(30), <1>2, <1>3, <3>1, <3>2, <3>5, <3>6, <3>7 DEF FlagInv
  <2> QED BY <2>1, <2>2
<1> QED BY <1>5, <1>8, <1>9, <1>10

-----------------------------------------------------------------------------
(* A frame is made, with continuation p, and runs. *)
Grown(p, r) ==
  /\ Made' = Made \cup {NewFrame}
  /\ \A g \in Made :
       /\ St'[g] = St[g] /\ Cont'[g] = Cont[g] /\ Root'[g] = Root[g] /\ Doing'[g] = Doing[g]
       /\ Child'[g] = IF g = p THEN NewFrame ELSE Child[g]
  /\ St'[NewFrame] = "started" /\ Cont'[NewFrame] = p /\ Root'[NewFrame] = r /\ Child'[NewFrame] = 0
  /\ cur' = NewFrame
  /\ UNCHANGED <<tasks, Staged, inflight, Completed, overwritten, killed, tl_sq_full, refused>>

Awaits ==
  /\ cur # 0 /\ Doing[cur] = "call" /\ Child[cur] = 0
  /\ Grown(cur, Root[cur]) /\ UNCHANGED <<calls, at>>

Spawns(by) ==
  /\ IF by = 0 THEN calls = <<>> ELSE cur = by /\ Doing[by] = "spawn"
  /\ Grown(0, NewFrame) /\ at' = "code"
  /\ calls' = Append(calls, [by |-> "spawn", task |-> NewFrame, caller |-> by])

LEMMA GrownTree ==
  ASSUME TypeInv, TreeInv, NEW p \in Made \cup {0}, NEW r, Grown(p, r),
         IF p = 0 THEN r = NewFrame ELSE r = Root[p] /\ St[p] = "started" /\ Doing[p] = "call" /\ Child[p] = 0
  PROVE  TreeInv'
<1> DEFINE n == NewFrame
<1>0. Len(frames) \in Nat /\ Made = 1 .. Len(frames) /\ n = Len(frames) + 1
  BY Zenon, Types DEF Made, NewFrame
<1>1. /\ 0 \notin Made /\ n \notin Made /\ n # 0 /\ \A g \in Made : g \in Nat /\ g < n
      /\ Cont \in [Made -> Made \cup {0}] /\ Child \in [Made -> Made \cup {0}] /\ Root \in [Made -> Made]
      /\ tasks \subseteq Made
  BY <1>0, Types
<1>2. /\ Made' = Made \cup {n}
      /\ \A g \in Made :
           /\ St'[g] = St[g] /\ Cont'[g] = Cont[g] /\ Root'[g] = Root[g] /\ Doing'[g] = Doing[g]
           /\ Child'[g] = IF g = p THEN n ELSE Child[g]
      /\ St'[n] = "started" /\ Cont'[n] = p /\ Root'[n] = r /\ Child'[n] = 0
      /\ tasks' = tasks
  BY DEF Grown
<1>8. n \in Nat BY <1>0
<1>9. IF p = 0 THEN r = n ELSE r = Root[p] /\ St[p] = "started" /\ Doing[p] = "call" /\ Child[p] = 0
  OBVIOUS
<1> HIDE DEF n
<1>3. ASSUME NEW g \in Made
      PROVE  /\ Root'[g] <= g /\ Root'[Root'[g]] = Root'[g]
             /\ IF Cont'[g] = 0 THEN Root'[g] = g ELSE Cont'[g] < g /\ Root'[Cont'[g]] = Root'[g]
             /\ Child'[g] # 0 => Child'[g] > g /\ Cont'[Child'[g]] = g
             /\ St'[g] # "freed" /\ Child'[g] # 0 =>
                  St'[g] = "started" /\ Doing'[g] = "call" /\ St'[Child'[g]] # "freed"
             /\ St'[g] # "freed" /\ Cont'[g] # 0 =>
                  St'[Cont'[g]] = "started" /\ Child'[Cont'[g]] = g
  <2>1. Root'[g] <= g /\ Root'[Root'[g]] = Root'[g] BY <1>1, <1>2 DEF TreeInv
  <2>2. IF Cont'[g] = 0 THEN Root'[g] = g ELSE Cont'[g] < g /\ Root'[Cont'[g]] = Root'[g]
    BY <1>1, <1>2 DEF TreeInv
  <2>3. CASE g = p
    <3>1. Child'[g] = n /\ Cont'[n] = g /\ n > g BY Zenon, <1>1, <1>2, <2>3
    <3>2. St'[g] # "freed" /\ Cont'[g] # 0 => St'[Cont'[g]] = "started" /\ Child'[Cont'[g]] = g
      <4> SUFFICES ASSUME Cont[g] # 0 PROVE St'[Cont[g]] = "started" /\ Child'[Cont[g]] = g BY Zenon, <1>2
      <4>1. Cont[g] \in Made /\ Cont[g] # g /\ St[Cont[g]] = "started" /\ Child[Cont[g]] = g
        BY Zenon, <1>1, <1>9, <2>3, Continuation
      <4> QED BY Zenon, <1>2, <2>3, <4>1
    <3> QED BY ZenonT(30), <1>1, <1>2, <1>9, <2>1, <2>2, <2>3, <3>1, <3>2
  <2>4. CASE g # p
    <3>1. Child'[g] = Child[g] BY Zenon, <1>2, <2>4
    <3>2. Child'[g] # 0 => Child'[g] > g /\ Cont'[Child'[g]] = g BY <1>1, <1>2, <3>1 DEF TreeInv
    <3>3. St'[g] # "freed" /\ Child'[g] # 0 =>
            St'[g] = "started" /\ Doing'[g] = "call" /\ St'[Child'[g]] # "freed"
      BY <1>1, <1>2, <3>1 DEF TreeInv
    <3>4. ASSUME St'[g] # "freed", Cont'[g] # 0 PROVE St'[Cont'[g]] = "started" /\ Child'[Cont'[g]] = g
      <4>1. Cont[g] \in Made /\ St[Cont[g]] = "started" /\ Child[Cont[g]] = g
        <5>1. St[g] # "freed" /\ Cont[g] # 0 BY Zenon, <1>2, <3>4
        <5> QED BY Zenon, <5>1, Continuation
      <4>2. Cont[g] # p BY Zenon, <1>1, <1>9, <4>1
      <4> QED BY ZenonT(30), <1>2, <4>1, <4>2
    <3> QED BY Zenon, <2>1, <2>2, <3>2, <3>3, <3>4
  <2> QED BY Zenon, <2>3, <2>4
<1>4. /\ Root'[n] <= n /\ Root'[Root'[n]] = Root'[n]
      /\ IF Cont'[n] = 0 THEN Root'[n] = n ELSE Cont'[n] < n /\ Root'[Cont'[n]] = Root'[n]
      /\ Child'[n] # 0 => Child'[n] > n /\ Cont'[Child'[n]] = n
      /\ St'[n] # "freed" /\ Child'[n] # 0 =>
           St'[n] = "started" /\ Doing'[n] = "call" /\ St'[Child'[n]] # "freed"
      /\ St'[n] # "freed" /\ Cont'[n] # 0 =>
           St'[Cont'[n]] = "started" /\ Child'[Cont'[n]] = n
  <2>1. CASE p = 0 BY <1>1, <1>2, <1>8, <1>9, <2>1
  <2>2. CASE p # 0
    <3>1. p \in Made /\ r = Root[p] /\ Root[p] \in Made /\ Root[p] <= p /\ Root[Root[p]] = Root[p]
      BY <1>1, <1>9, <2>2 DEF TreeInv
    <3>2. Root[p] < n /\ p < n BY ZenonT(30), <1>1, <3>1
    <3> QED BY <1>1, <1>2, <1>8, <1>9, <2>2, <3>1, <3>2
  <2> QED BY Zenon, <2>1, <2>2
<1>5. \A t \in tasks' : Root'[t] = t /\ St'[t] # "freed" BY <1>1, <1>2 DEF TreeInv
<1>6. \A g \in Made \cup {n} :
        /\ Root'[g] <= g /\ Root'[Root'[g]] = Root'[g]
        /\ IF Cont'[g] = 0 THEN Root'[g] = g ELSE Cont'[g] < g /\ Root'[Cont'[g]] = Root'[g]
        /\ Child'[g] # 0 => Child'[g] > g /\ Cont'[Child'[g]] = g
        /\ St'[g] # "freed" /\ Child'[g] # 0 =>
             St'[g] = "started" /\ Doing'[g] = "call" /\ St'[Child'[g]] # "freed"
        /\ St'[g] # "freed" /\ Cont'[g] # 0 =>
             St'[Cont'[g]] = "started" /\ Child'[Cont'[g]] = g
  <2> TAKE g \in Made \cup {n}
  <2>1. CASE g = n BY Zenon, <1>4, <2>1
  <2>2. CASE g \in Made BY Zenon, <1>3, <2>2
  <2> QED BY Zenon, <2>1, <2>2
<1> QED BY Zenon, <1>2, <1>5, <1>6 DEF TreeInv

LEMMA GrownPend ==
  ASSUME TypeInv, PendInv, NEW p, NEW r, Grown(p, r), cur # 0 => \/ p = cur
                                                                 \/ \E i \in 1 .. Len(calls') : calls'[i].caller = cur,
         \A i \in 1 .. Len(calls) : i \in 1 .. Len(calls') /\ calls'[i] = calls[i]
  PROVE  PendInv'
<1> DEFINE n == NewFrame
<1>0. n \notin Made /\ n # 0 /\ 0 \notin Made /\ Pending \subseteq Made BY Zenon, Types, Fresh
<1>2. /\ Made' = Made \cup {n} /\ cur' = n
      /\ \A g \in Made :
           /\ St'[g] = St[g] /\ Cont'[g] = Cont[g] /\ Root'[g] = Root[g] /\ Doing'[g] = Doing[g]
           /\ Child'[g] = IF g = p THEN n ELSE Child[g]
      /\ UNCHANGED <<Pending, overwritten, killed>>
  BY Zenon DEF Grown, Pending
<1> HIDE DEF n
<1>3. ASSUME NEW g \in Pending
      PROVE  /\ St'[g] \in {"started", "freed"} /\ (St'[g] = "started" => Doing'[g] = "await" /\ g # cur')
             /\ St'[g] = "freed" => \E x \in killed' : x.task = Root'[g]
  BY <1>0, <1>2 DEF PendInv
<1>4. ASSUME NEW g \in Made, St'[g] = "started", g # cur'
      PROVE  \/ g \in Pending \cup overwritten \/ Child'[g] # 0
             \/ \E i \in 1 .. Len(calls') : calls'[i].caller = g
  <2>1. CASE g = cur BY Zenon, <1>0, <1>2, <2>1
  <2>2. CASE g # cur
    <3>1. Child[g] # 0 => Child'[g] # 0 BY Zenon, <1>0, <1>2
    <3>2. (\E i \in 1 .. Len(calls) : calls[i].caller = g) => \E i \in 1 .. Len(calls') : calls'[i].caller = g
      OBVIOUS
    <3> QED BY Zenon, <1>2, <1>4, <2>2, <3>1, <3>2 DEF PendInv
  <2> QED BY Zenon, <2>1, <2>2
<1> QED BY Zenon, <1>2, <1>3, <1>4 DEF PendInv

LEMMA AwaitsInv ==
  ASSUME TypeInv, TreeInv, RunInv, PendInv, FlagInv, Awaits
  PROVE  TreeInv' /\ RunInv' /\ PendInv' /\ FlagInv'
<1> DEFINE n == NewFrame
<1>0. n \notin Made /\ 0 \notin Made /\ cur \in Made /\ n # 0 /\ tasks \subseteq Made
  <2>1. cur \in Made \cup {0} /\ cur # 0 BY Zenon, Types DEF Awaits
  <2> QED BY Zenon, <2>1, Types, Fresh
<1>1. St[cur] = "started" /\ calls # <<>> /\ Root[cur] = calls[Len(calls)].task BY <1>0 DEF RunInv
<1>2. /\ Made' = Made \cup {n} /\ cur' = n
      /\ \A g \in Made :
           /\ St'[g] = St[g] /\ Cont'[g] = Cont[g] /\ Root'[g] = Root[g] /\ Doing'[g] = Doing[g]
      /\ St'[n] = "started" /\ Root'[n] = Root[cur] /\ Child'[n] = 0
      /\ UNCHANGED <<calls, at, tasks, killed, tl_sq_full, refused>>
      /\ Grown(cur, Root[cur]) /\ Doing[cur] = "call" /\ Child[cur] = 0
  BY Zenon DEF Grown, Awaits
<1>3. TreeInv' BY Zenon, <1>0, <1>1, <1>2, GrownTree
<1>4. PendInv' BY Zenon, <1>2, GrownPend
<1>5. FlagInv' BY Zenon, <1>2 DEF FlagInv, IsRefused, MisblamedBy
<1> HIDE DEF n
<1>6. RunInv'
  <2>1. (at = "code" <=> calls # <<>>)' BY <1>2 DEF RunInv
  <2>2. \A i \in 1 .. Len(calls) :
          calls[i].task \in Made /\ calls[i].caller \in Made \cup {0}
    BY CallTypes
  <2>3. cur' # 0 /\ calls' # <<>> /\ St'[cur'] = "started" /\ Root'[cur'] = calls'[Len(calls')].task /\ Child'[cur'] = 0
    BY ZenonT(30), <1>0, <1>1, <1>2
  <2>4. ASSUME NEW i \in 1 .. Len(calls)
        PROVE  /\ Root'[calls[i].task] = calls[i].task
               /\ calls[i].by = "spawn" => calls[i].task \notin tasks /\ St'[calls[i].task] # "freed"
               /\ IF i = 1 THEN calls[i].caller = 0
                  ELSE /\ calls[i].by = "spawn" /\ calls[i].caller # 0
                       /\ St'[calls[i].caller] = "started" /\ Doing'[calls[i].caller] = "spawn"
                       /\ Root'[calls[i].caller] = calls[i - 1].task
               /\ \A j \in 1 .. Len(calls) : calls[i].task = calls[j].task => i = j
    <3>1. Root'[calls[i].task] = Root[calls[i].task] /\ St'[calls[i].task] = St[calls[i].task] BY Zenon, <1>2, <2>2
    <3>2. calls[i].caller # 0 =>
            LET d == calls[i].caller IN St'[d] = St[d] /\ Doing'[d] = Doing[d] /\ Root'[d] = Root[d]
      BY Zenon, <1>2, <2>2
    <3>3. /\ Root[calls[i].task] = calls[i].task
          /\ calls[i].by = "spawn" => calls[i].task \notin tasks /\ St[calls[i].task] # "freed"
          /\ IF i = 1 THEN calls[i].caller = 0
             ELSE /\ calls[i].by = "spawn" /\ calls[i].caller # 0
                  /\ St[calls[i].caller] = "started" /\ Doing[calls[i].caller] = "spawn"
                  /\ Root[calls[i].caller] = calls[i - 1].task
          /\ \A j \in 1 .. Len(calls) : calls[i].task = calls[j].task => i = j
      BY Zenon DEF RunInv
    <3>4. CASE i = 1 BY Zenon, <3>1, <3>3, <3>4
    <3>5. CASE i # 1 BY Zenon, <3>1, <3>2, <3>3, <3>5
    <3> QED BY Zenon, <3>4, <3>5
  <2> QED BY ZenonT(30), <1>2, <2>1, <2>3, <2>4 DEF RunInv
<1> QED BY <1>3, <1>4, <1>5, <1>6

LEMMA SpawnsInv ==
  ASSUME TypeInv, TreeInv, RunInv, PendInv, FlagInv, NEW by \in Made \cup {0}, Spawns(by)
  PROVE  TreeInv' /\ RunInv' /\ PendInv' /\ FlagInv'
<1> DEFINE n == NewFrame
           k == Len(calls)
           c == [by |-> "spawn", task |-> n, caller |-> by]
<1>0. n \notin Made /\ 0 \notin Made /\ n # 0 /\ tasks \subseteq Made BY ZenonT(30), Types, Fresh
<1>1. /\ Made' = Made \cup {n} /\ cur' = n
      /\ \A g \in Made :
           /\ St'[g] = St[g] /\ Cont'[g] = Cont[g] /\ Root'[g] = Root[g] /\ Doing'[g] = Doing[g]
      /\ St'[n] = "started" /\ Root'[n] = n /\ Child'[n] = 0
      /\ UNCHANGED <<tasks, killed, tl_sq_full, refused>>
      /\ Grown(0, n) /\ at' = "code" /\ calls' = Append(calls, c)
      /\ IF by = 0 THEN calls = <<>> ELSE cur = by /\ Doing[by] = "spawn"
  BY ZenonT(30) DEF Grown, Spawns
<1>2. /\ k \in Nat /\ (calls = <<>> <=> k = 0)
      /\ \A i \in 1 .. k : calls[i].task \in Made /\ calls[i].caller \in Made \cup {0}
  BY Zenon, CallTypes
<1>3. /\ calls' # <<>> /\ Len(calls') = k + 1 /\ calls'[k + 1] = c
      /\ \A i \in 1 .. k : i \in 1 .. Len(calls') /\ calls'[i] = calls[i]
  <2> DEFINE B == [by : {"spawn", "drain"}, task : Made, caller : 0 .. Len(frames)]
             C == B \cup {c}
  <2>0. calls \in Seq(B) BY ZenonT(30) DEF TypeInv
  <2> HIDE DEF B, c
  <2>1. calls \in Seq(C) /\ c \in C BY <2>0
  <2>2. calls' = Append(calls, c) BY Zenon, <1>1
  <2> HIDE DEF C
  <2> QED BY <2>1, <2>2
<1>4. c.by = "spawn" /\ c.task = n /\ c.caller = by OBVIOUS
<1> HIDE DEF c
<1>5. cur # 0 => by = cur BY ZenonT(30), <1>1 DEF RunInv
<1>6. TreeInv' BY ZenonT(30), <1>1, GrownTree
<1>7. PendInv'
  <2>1. cur # 0 => \E i \in 1 .. Len(calls') : calls'[i].caller = cur
    <3>0. k \in Nat /\ Len(calls') = k + 1 BY Zenon, <1>2, <1>3
    <3>1. k + 1 \in 1 .. Len(calls') BY <3>0
    <3> QED BY Zenon, <1>3, <1>4, <1>5, <3>1
  <2> QED BY Zenon, <1>1, <1>3, <2>1, GrownPend
<1> HIDE DEF n, k
<1>8. RunInv'
  <2>1. ASSUME NEW i \in 1 .. k + 1
        PROVE  /\ Root'[calls'[i].task] = calls'[i].task
               /\ calls'[i].by = "spawn" => calls'[i].task \notin tasks /\ St'[calls'[i].task] # "freed"
               /\ IF i = 1 THEN calls'[i].caller = 0
                  ELSE /\ calls'[i].by = "spawn" /\ calls'[i].caller # 0
                       /\ St'[calls'[i].caller] = "started" /\ Doing'[calls'[i].caller] = "spawn"
                       /\ Root'[calls'[i].caller] = calls'[i - 1].task
    <3>1. CASE i = k + 1
      <4>1. CASE by = 0
        <5>0. k = 0 BY Zenon, <1>1, <1>2, <4>1
        <5>1. i = 1 BY <3>1, <5>0
        <5>2. calls'[i].by = "spawn" /\ calls'[i].task = n /\ calls'[i].caller = 0
          BY Zenon, <1>3, <1>4, <3>1, <4>1
        <5>3. n \notin tasks /\ St'[n] # "freed" /\ Root'[n] = n BY ZenonT(30), <1>0, <1>1
        <5> QED BY Zenon, <5>1, <5>2, <5>3
      <4>2. CASE by # 0
        <5>1. cur = by /\ by \in Made /\ Doing[by] = "spawn" BY <1>1, <4>2
        <5>2. calls # <<>> /\ St[by] = "started" /\ Root[by] = calls[k].task BY ZenonT(30), <4>2, <5>1 DEF RunInv, k
        <5>3. i # 1 /\ i - 1 = k /\ k \in 1 .. k BY <1>2, <3>1, <5>2
        <5>4. calls'[i].by = "spawn" /\ calls'[i].task = n /\ calls'[i].caller = by /\ calls'[i - 1].task = calls[k].task
          BY ZenonT(30), <1>3, <1>4, <3>1, <5>3
        <5>5. n \notin tasks /\ St'[n] # "freed" /\ Root'[n] = n BY Zenon, <1>0, <1>1
        <5>6. St'[by] = "started" /\ Doing'[by] = "spawn" /\ Root'[by] = calls[k].task BY Zenon, <1>1, <5>1, <5>2
        <5> QED BY Zenon, <4>2, <5>3, <5>4, <5>5, <5>6
      <4> QED BY Zenon, <4>1, <4>2
    <3>2. CASE i # k + 1
      <4>0. k \in Nat BY <1>2
      <4>1. i \in 1 .. k /\ (i # 1 => i - 1 \in 1 .. k) BY <3>2, <4>0
      <4>2. /\ Root[calls[i].task] = calls[i].task
            /\ calls[i].by = "spawn" => calls[i].task \notin tasks /\ St[calls[i].task] # "freed"
            /\ IF i = 1 THEN calls[i].caller = 0
               ELSE /\ calls[i].by = "spawn" /\ calls[i].caller # 0
                    /\ St[calls[i].caller] = "started" /\ Doing[calls[i].caller] = "spawn"
                    /\ Root[calls[i].caller] = calls[i - 1].task
        BY ZenonT(30), <4>1 DEF RunInv, k
      <4>3. calls'[i] = calls[i] /\ (i # 1 => calls'[i - 1] = calls[i - 1]) BY <1>3, <4>1 DEF k
      <4>4. calls[i].task \in Made /\ (calls[i].caller # 0 => calls[i].caller \in Made) BY Zenon, <1>2, <4>1
      <4>5. Root'[calls[i].task] = Root[calls[i].task] /\ St'[calls[i].task] = St[calls[i].task] BY Zenon, <1>1, <4>4
      <4>6. CASE i = 1 BY ZenonT(30), <4>2, <4>3, <4>5, <4>6
      <4>7. CASE i # 1
        <5>1. LET d == calls[i].caller IN St'[d] = St[d] /\ Doing'[d] = Doing[d] /\ Root'[d] = Root[d]
          BY Zenon, <1>1, <4>2, <4>4, <4>7
        <5> QED BY ZenonT(30), <4>2, <4>3, <4>5, <4>7, <5>1
      <4> QED BY ZenonT(30), <4>6, <4>7
    <3> QED BY Zenon, <3>1, <3>2
  <2>2. ASSUME NEW i \in 1 .. k + 1, NEW j \in 1 .. k + 1, calls'[i].task = calls'[j].task PROVE i = j
    <3>1. \A m \in 1 .. k + 1 : IF m = k + 1 THEN calls'[m].task = n ELSE m \in 1 .. k /\ calls'[m] = calls[m] /\ calls[m].task \in Made
      BY <1>2, <1>3, <1>4 DEF k
    <3>2. CASE i = k + 1 \/ j = k + 1 BY ZenonT(30), <1>0, <2>2, <3>1, <3>2
    <3>3. CASE i # k + 1 /\ j # k + 1 BY <2>2, <3>1, <3>3 DEF RunInv, k
    <3> QED BY Zenon, <3>2, <3>3
  <2>3. /\ St'[cur'] = "started" /\ Root'[cur'] = calls'[Len(calls')].task /\ Child'[cur'] = 0
    BY ZenonT(30), <1>1, <1>3, <1>4
  <2>4. calls' # <<>> /\ at' = "code" /\ tasks' = tasks /\ Len(calls') = k + 1 BY Zenon, <1>1, <1>3
  <2>5. \A i \in 1 .. Len(calls') :
          /\ Root'[calls'[i].task] = calls'[i].task
          /\ calls'[i].by = "spawn" => calls'[i].task \notin tasks' /\ St'[calls'[i].task] # "freed"
          /\ IF i = 1 THEN calls'[i].caller = 0
             ELSE /\ calls'[i].by = "spawn" /\ calls'[i].caller # 0
                  /\ St'[calls'[i].caller] = "started" /\ Doing'[calls'[i].caller] = "spawn"
                  /\ Root'[calls'[i].caller] = calls'[i - 1].task
          /\ \A j \in 1 .. Len(calls') : calls'[i].task = calls'[j].task => i = j
    BY Zenon, <2>1, <2>2, <2>4
  <2> QED BY Zenon, <2>3, <2>4, <2>5 DEF RunInv
<1>9. FlagInv'
  <2>1. <<n, TRUE>> \notin refused BY Zenon, <1>0 DEF TypeInv
  <2>2. \A r : (IsRefused(r)' <=> IsRefused(r)) /\ (MisblamedBy(r)' <=> MisblamedBy(r))
    BY Zenon, <1>1 DEF IsRefused, MisblamedBy
  <2>3. tl_sq_full => \E i \in 1 .. Len(calls') : IsRefused(calls'[i].task)
    BY Zenon, <1>3 DEF FlagInv, k
  <2>4. \A i \in 1 .. k + 1 : IF i = k + 1 THEN calls'[i].task = n ELSE i \in 1 .. k /\ calls'[i] = calls[i]
    BY <1>2, <1>3, <1>4 DEF k
  <2>5. \A i \in 1 .. Len(calls') :
          calls'[i].by = "spawn" /\ <<calls'[i].task, TRUE>> \in refused => tl_sq_full \/ MisblamedBy(calls'[i].task)
    BY Zenon, <1>3, <2>1, <2>4 DEF FlagInv, k
  <2>6. /\ \A t \in tasks : <<t, TRUE>> \in refused => MisblamedBy(t)
        /\ \A x \in killed : IsRefused(x.task) \/ \E r \in x.by : IsRefused(r)
    BY Zenon DEF FlagInv
  <2> QED BY Zenon, <1>1, <2>2, <2>3, <2>5, <2>6 DEF FlagInv
<1> QED BY <1>6, <1>7, <1>8, <1>9

-----------------------------------------------------------------------------
(* No frame is touched. *)
SameFrames == UNCHANGED <<Made, St, Cont, Child, Root, Doing>>

(* The running frame stages its operation. *)
Suspends ==
  /\ cur # 0 /\ Doing[cur] = "await" /\ SameFrames /\ cur' = 0
  /\ Pending' = Pending \cup {cur}
  /\ UNCHANGED <<calls, at, tasks, overwritten, killed, tl_sq_full, refused>>

(* Operations move through the ring, and are lost only where arming wrote  *)
(* over them, or with the completion of a frame that does not exist.       *)
Waits ==
  /\ SameFrames /\ (at' = "code" <=> at = "code")
  /\ Pending' \subseteq Pending /\ overwritten \subseteq overwritten'
  /\ \A f \in Pending : f \in Pending' \cup overwritten' \/ St[f] # "started"
  /\ UNCHANGED <<cur, calls, tasks, killed, tl_sq_full, refused>>

(* drain() resumes f, the resume() returns, and reap() destroys D. *)
Resumes(f) ==
  /\ calls = <<>> /\ f \in Pending /\ St[f] = "started"
  /\ calls' = <<[by |-> "drain", task |-> Root[f], caller |-> 0]>> /\ cur' = f /\ at' = "code"
  /\ Advances({}, f, FALSE) /\ Pending' = Pending \ {f}
  /\ UNCHANGED <<tasks, overwritten, killed, tl_sq_full, refused>>

Drained ==
  /\ calls # <<>> /\ cur = 0 /\ Top.by = "drain" /\ SameFrames
  /\ calls' = <<>> /\ at' = "cqes" /\ tl_sq_full' = FALSE
  /\ UNCHANGED <<cur, tasks, Pending, overwritten, killed, refused>>

Reaps(D) ==
  /\ calls = <<>> /\ D \subseteq tasks /\ (\A t \in D : St[t] = "final")
  /\ Advances(D, 0, FALSE) /\ tasks' = tasks \ D /\ at' # "code"
  /\ UNCHANGED <<cur, calls, Pending, overwritten, killed, tl_sq_full, refused>>

LEMMA SameTree ==
  ASSUME TreeInv, UNCHANGED <<Made, St, Cont, Child, Root, Doing, tasks>>
  PROVE  TreeInv'
BY DEF TreeInv

LEMMA SuspendsInv ==
  ASSUME TypeInv, TreeInv, RunInv, PendInv, FlagInv, Suspends
  PROVE  TreeInv' /\ RunInv' /\ PendInv' /\ FlagInv'
<1>0. /\ cur \in Made /\ 0 \notin Made /\ Pending \subseteq Made BY Zenon, Types DEF Suspends
<1>1. St[cur] = "started" BY Zenon, <1>0 DEF RunInv
<1>2. /\ UNCHANGED <<Made, St, Cont, Child, Root, Doing, calls, at, tasks, overwritten, killed, tl_sq_full, refused>>
      /\ Pending' = Pending \cup {cur} /\ cur' = 0 /\ Doing[cur] = "await"
  BY Zenon DEF Suspends, SameFrames
<1>3. TreeInv' BY Zenon, <1>2, SameTree
<1>4. RunInv' BY Zenon, <1>2 DEF RunInv
<1>5. PendInv' BY ZenonT(30), <1>0, <1>1, <1>2 DEF PendInv
<1>6. FlagInv' BY Zenon, <1>2 DEF FlagInv, IsRefused, MisblamedBy
<1> QED BY Zenon, <1>3, <1>4, <1>5, <1>6

LEMMA WaitsInv ==
  ASSUME TypeInv, TreeInv, RunInv, PendInv, FlagInv, Waits
  PROVE  TreeInv' /\ RunInv' /\ PendInv' /\ FlagInv'
<1>2. /\ UNCHANGED <<Made, St, Cont, Child, Root, Doing, cur, calls, tasks, killed, tl_sq_full, refused>>
      /\ at' = "code" <=> at = "code"
      /\ Pending' \subseteq Pending /\ overwritten \subseteq overwritten'
      /\ \A f \in Pending : f \in Pending' \cup overwritten' \/ St[f] # "started"
  BY Zenon DEF Waits, SameFrames
<1>3. TreeInv' BY Zenon, <1>2, SameTree
<1>4. RunInv' BY ZenonT(30), <1>2 DEF RunInv
<1>5. PendInv' BY ZenonT(30), <1>2 DEF PendInv
<1>6. FlagInv' BY Zenon, <1>2 DEF FlagInv, IsRefused, MisblamedBy
<1> QED BY <1>3, <1>4, <1>5, <1>6

LEMMA DrainedInv ==
  ASSUME TypeInv, TreeInv, RunInv, PendInv, FlagInv, Drained
  PROVE  TreeInv' /\ RunInv' /\ PendInv' /\ FlagInv'
<1>0. 0 \notin Made /\ Len(calls) \in Nat /\ Len(calls) # 0 BY Zenon, Types, CallTypes DEF Drained
<1>1. Len(calls) = 1 /\ calls[1].caller = 0
  <2>1. Len(calls) \in 1 .. Len(calls) /\ calls[Len(calls)].by = "drain" BY <1>0 DEF Drained, Top
  <2> QED BY ZenonT(30), <1>0, <2>1 DEF RunInv
<1>2. /\ UNCHANGED <<Made, St, Cont, Child, Root, Doing, cur, tasks, Pending, overwritten, killed, refused>>
      /\ cur = 0 /\ calls' = <<>> /\ Len(calls') = 0 /\ at' = "cqes" /\ tl_sq_full' = FALSE
  BY Zenon DEF Drained, SameFrames
<1>3. TreeInv' BY Zenon, <1>2, SameTree
<1>4. RunInv'
  <2>1. at' # "code" /\ calls' = <<>> /\ cur' = 0 BY Zenon, <1>2
  <2>2. 1 .. Len(calls') = {} BY <1>2
  <2> QED BY Zenon, <2>1, <2>2 DEF RunInv
<1>5. PendInv'
  <2>1. \A g \in Made : ~ \E i \in 1 .. Len(calls) : calls[i].caller = g BY <1>0, <1>1
  <2> QED BY ZenonT(30), <1>2, <2>1 DEF PendInv
<1>6. FlagInv'
  <2>1. 1 .. Len(calls') = {} BY <1>2
  <2> QED BY Zenon, <1>2, <2>1 DEF FlagInv, IsRefused, MisblamedBy
<1> QED BY <1>3, <1>4, <1>5, <1>6

LEMMA ResumesInv ==
  ASSUME TypeInv, TreeInv, RunInv, PendInv, FlagInv, NEW f, Resumes(f)
  PROVE  TreeInv' /\ RunInv' /\ PendInv' /\ FlagInv'
<1> DEFINE c == [by |-> "drain", task |-> Root[f], caller |-> 0]
<1>0. /\ 0 \notin Made /\ Pending \subseteq Made /\ Made \subseteq Nat /\ tasks \subseteq Made
      /\ Root \in [Made -> Made]
  BY Zenon, Types
<1>1. f \in Made /\ f # 0 /\ St[f] = "started" /\ Doing[f] = "await" BY Zenon, <1>0 DEF PendInv, Resumes
<1>2. Child[f] = 0 BY <1>1 DEF TreeInv
<1>3. /\ calls = <<>> /\ Len(calls) = 0 /\ cur = 0 /\ ~tl_sq_full
  <2>1. calls = <<>> /\ Len(calls) = 0 BY Zenon, CallTypes DEF Resumes
  <2>2. 1 .. Len(calls) = {} BY <2>1
  <2> QED BY Zenon, <2>1, <2>2 DEF RunInv, FlagInv
<1>4. /\ calls' = <<c>> /\ calls' # <<>> /\ Len(calls') = 1 /\ calls'[1] = c /\ cur' = f /\ at' = "code"
      /\ Advances({}, f, FALSE) /\ Pending' = Pending \ {f}
      /\ UNCHANGED <<tasks, overwritten, killed, tl_sq_full, refused>>
  BY ZenonT(30) DEF Resumes
<1>5. c.by = "drain" /\ c.task = Root[f] /\ c.caller = 0 OBVIOUS
<1> HIDE DEF c
<1>6. /\ Made' = Made /\ Cont' = Cont /\ Root' = Root
      /\ \A g \in Made : St'[g] = St[g] /\ Child'[g] = Child[g] /\ (g # f => Doing'[g] = Doing[g])
  BY <1>2, <1>4 DEF Advances, Made
<1>7. TreeInv'
  <2>1. \A t \in tasks' : t \in Made \ {} /\ Root[t] = t /\ St[t] # "freed" BY <1>0, <1>4 DEF TreeInv
  <2>2. {} \in SUBSET Made /\ f \in (Made \cup {0}) \ {} BY <1>1
  <2>3. Child[f] \in {} \cup {0} BY Zenon, <1>2
  <2> QED BY Zenon, <1>1, <1>4, <2>1, <2>2, <2>3, AdvancesTree
<1>8. RunInv'
  <2>1. Root[Root[f]] = Root[f] BY <1>1 DEF TreeInv
  <2>2. \A i \in 1 .. 1 : i = 1 OBVIOUS
  <2>3. Root'[cur'] = calls'[Len(calls')].task BY Zenon, <1>4, <1>5, <1>6
  <2>4. St'[cur'] = "started" /\ Child'[cur'] = 0 BY Zenon, <1>1, <1>2, <1>4, <1>6
  <2>5. \A i \in 1 .. Len(calls') :
          /\ Root'[calls'[i].task] = calls'[i].task /\ calls'[i].by # "spawn" /\ i = 1 /\ calls'[i].caller = 0
          /\ \A j \in 1 .. Len(calls') : i = j
    BY Zenon, <1>4, <1>5, <1>6, <2>1, <2>2
  <2>6. at' = "code" /\ calls' # <<>> BY Zenon, <1>4
  <2>7. \A i \in 1 .. Len(calls') :
          /\ Root'[calls'[i].task] = calls'[i].task
          /\ calls'[i].by = "spawn" => calls'[i].task \notin tasks' /\ St'[calls'[i].task] # "freed"
          /\ IF i = 1 THEN calls'[i].caller = 0
             ELSE /\ calls'[i].by = "spawn" /\ calls'[i].caller # 0
                  /\ St'[calls'[i].caller] = "started" /\ Doing'[calls'[i].caller] = "spawn"
                  /\ Root'[calls'[i].caller] = calls'[i - 1].task
          /\ \A j \in 1 .. Len(calls') : calls'[i].task = calls'[j].task => i = j
    BY Zenon, <2>5
  <2> QED BY Zenon, <2>3, <2>4, <2>6, <2>7 DEF RunInv
<1>9. PendInv'
  <2>1. \A g \in Pending \ {f} :
          /\ St'[g] \in {"started", "freed"} /\ (St'[g] = "started" => Doing'[g] = "await" /\ g # cur')
          /\ St'[g] = "freed" => \E x \in killed' : x.task = Root'[g]
    BY Zenon, <1>0, <1>4, <1>6 DEF PendInv
  <2>2. ASSUME NEW g \in Made, St'[g] = "started", g # cur'
        PROVE  g \in Pending' \cup overwritten' \/ Child'[g] # 0
    <3>1. g # cur /\ g # f /\ St[g] = "started" BY Zenon, <1>0, <1>3, <1>4, <1>6, <2>2
    <3>2. g \in Pending \cup overwritten \/ Child[g] # 0
      <4>1. 1 .. Len(calls) = {} BY <1>3
      <4>2. \/ g \in Pending \cup overwritten \/ Child[g] # 0
            \/ \E i \in 1 .. Len(calls) : calls[i].caller = g
        BY Zenon, <3>1 DEF PendInv
      <4> QED BY Zenon, <4>1, <4>2
    <3> QED BY Zenon, <1>4, <1>6, <3>1, <3>2
  <2> QED BY ZenonT(30), <1>4, <1>6, <2>1, <2>2 DEF PendInv
<1>10. FlagInv'
  <2>1. \A i \in 1 .. Len(calls') : calls'[i].by # "spawn"
    <3>1. \A i \in 1 .. 1 : i = 1 OBVIOUS
    <3> QED BY Zenon, <1>4, <1>5, <3>1
  <2> QED BY ZenonT(30), <1>3, <1>4, <2>1 DEF FlagInv, IsRefused, MisblamedBy
<1> QED BY Zenon, <1>7, <1>8, <1>9, <1>10

LEMMA ReapsInv ==
  ASSUME TypeInv, TreeInv, RunInv, PendInv, FlagInv, NEW D, Reaps(D)
  PROVE  TreeInv' /\ RunInv' /\ PendInv' /\ FlagInv'
<1>0. /\ 0 \notin Made /\ Pending \subseteq Made /\ tasks \subseteq Made /\ Root \in [Made -> Made]
  BY Zenon, Types
<1>1. /\ calls = <<>> /\ Len(calls) = 0 /\ cur = 0
  <2>1. calls = <<>> /\ Len(calls) = 0 BY CallTypes DEF Reaps
  <2> QED BY Zenon, <2>1 DEF RunInv
<1>2. /\ D \subseteq tasks /\ (\A t \in D : St[t] = "final")
      /\ Advances(D, 0, FALSE) /\ tasks' = tasks \ D /\ at' # "code"
      /\ UNCHANGED <<cur, calls, Pending, overwritten, killed, tl_sq_full, refused>>
  BY Zenon DEF Reaps
<1>3. /\ Made' = Made /\ Cont' = Cont /\ Root' = Root
      /\ \A g \in Made : /\ St'[g] = IF g \in D THEN "freed" ELSE St[g]
                         /\ Child'[g] = Child[g] /\ Doing'[g] = Doing[g]
  BY Zenon, <1>0, <1>2 DEF Advances, Made
<1>4. \A g \in D : g \in Made /\ Child[g] = 0 /\ Cont[g] = 0
  <2> TAKE g \in D
  <2>1. g \in Made /\ Root[g] = g /\ St[g] = "final" BY Zenon, <1>0, <1>2 DEF TreeInv
  <2>2. Child[g] = 0 BY <2>1 DEF TreeInv
  <2> QED BY Zenon, <2>1, <2>2, RootCont
<1>5. TreeInv'
  <2>1. \A t \in tasks' : t \in Made \ D /\ Root[t] = t /\ St[t] # "freed" BY <1>0, <1>2 DEF TreeInv
  <2>2. D \in SUBSET Made /\ 0 \in (Made \cup {0}) \ D /\ 0 \notin Made BY <1>0, <1>4
  <2>3. \A g \in D : Child[g] \in D \cup {0} /\ Cont[g] \in D \cup {0, 0} BY ZenonT(30), <1>4
  <2> QED BY ZenonT(30), <1>2, <2>1, <2>2, <2>3, AdvancesTree
<1>6. RunInv'
  <2>1. at' # "code" /\ calls' = <<>> /\ cur' = 0 /\ Len(calls') = 0 BY Zenon, <1>1, <1>2
  <2>2. 1 .. Len(calls') = {} BY <2>1
  <2> QED BY Zenon, <2>1, <2>2 DEF RunInv
<1>7. PendInv'
  <2>1. \A g \in Pending : g \in Made /\ g \notin D BY Zenon, <1>0, <1>2 DEF PendInv
  <2>2. \A g \in Made : St'[g] = "started" => St[g] = "started" BY <1>3
  <2>3. \A g \in Pending : St'[g] = St[g] /\ Doing'[g] = Doing[g] /\ Root'[g] = Root[g] BY Zenon, <1>3, <2>1
  <2>4. UNCHANGED <<Pending, cur, killed, overwritten, calls, Made, Child>>
    <3>1. Child \in [Made -> Made \cup {0}] /\ DOMAIN Child' = Made' BY ZenonT(30), Types DEF Child
    <3>2. Child' = Child BY ZenonT(30), <1>3, <3>1 DEF Child
    <3> QED BY Zenon, <1>2, <1>3, <3>2
  <2>5. ASSUME NEW f \in Pending
        PROVE  /\ St'[f] \in {"started", "freed"}
               /\ St'[f] = "started" => Doing'[f] = "await" /\ f # cur'
               /\ St'[f] = "freed" => \E x \in killed' : x.task = Root'[f]
    <3>1. /\ St[f] \in {"started", "freed"}
          /\ St[f] = "started" => Doing[f] = "await" /\ f # cur
          /\ St[f] = "freed" => \E x \in killed : x.task = Root[f]
      BY Zenon DEF PendInv
    <3>2. St'[f] = St[f] /\ Doing'[f] = Doing[f] /\ Root'[f] = Root[f] /\ cur' = cur /\ killed' = killed
      BY Zenon, <2>3, <2>4
    <3> QED BY Zenon, <3>1, <3>2
  <2>6. (\A f \in Made : St[f] = "started" /\ f # cur =>
          \/ f \in Pending \cup overwritten \/ Child[f] # 0
          \/ \E i \in 1 .. Len(calls) : calls[i].caller = f)'
    BY ZenonT(30), <2>2, <2>4 DEF PendInv
  <2> QED BY Zenon, <2>4, <2>5, <2>6 DEF PendInv
<1>8. FlagInv' BY Zenon, <1>2 DEF FlagInv, IsRefused, MisblamedBy
<1> QED BY <1>5, <1>6, <1>7, <1>8

-----------------------------------------------------------------------------
(* The types of everything but the frames. *)
OtherTypes ==
  /\ mpc \in Nat \ {0} /\ cur \in 0 .. Len(frames) /\ tasks \subseteq Made
  /\ at \in {"main", "code", "enter", "wait", "cqes", "aborted", "crashed", "failed"}
  /\ calls \in Seq([by : {"spawn", "drain"}, task : Made, caller : 0 .. Len(frames)])
  /\ sq \in Seq(Sqes(Made)) /\ inflight \subseteq Made
  /\ cq \in Seq(Elements(cq)) /\ \A i \in 1 .. Len(cq) : cq[i] = Null \/ cq[i].awt \in Made
  /\ tl_sq_full \in BOOLEAN /\ refused \subseteq Made \X BOOLEAN

LEMMA TypesOfOthers ==
  ASSUME TypeInv
  PROVE  OtherTypes
BY Zenon DEF TypeInv, OtherTypes

LEMMA TypesAfter ==
  ASSUME TypeInv, prog' = prog, NEW D, NEW f, NEW ends, Advances(D, f, ends), OtherTypes'
  PROVE  TypeInv'
<1>1. IsFrames(frames') /\ Len(frames') = Len(frames) /\ Made' = Made BY DEF Advances, Made
<1>2. Len(frames) \in Nat BY Types
<1>3. Cont' = Cont /\ Root' = Root
  BY Zenon DEF Advances
<1>4. St' \in [Made -> {"started", "final", "freed"}]
  <2>1. St \in [Made -> {"started", "final", "freed"}] BY Zenon DEF TypeInv
  <2> QED BY Zenon, <2>1 DEF Advances
<1>5. Child' \in [Made -> 0 .. Len(frames)]
  <2>1. Child \in [Made -> 0 .. Len(frames)] BY ZenonT(30) DEF TypeInv
  <2> QED BY <1>2, <2>1 DEF Advances
<1>6. /\ prog'.size \in Nat \ {0} /\ Len(prog'.main) \in Nat
      /\ Root' \in [Made' -> Made'] /\ Cont' \in [Made' -> 0 .. Len(frames')]
      /\ St' \in [Made' -> {"started", "final", "freed"}] /\ Child' \in [Made' -> 0 .. Len(frames')]
  BY ZenonT(30), <1>1, <1>3, <1>4, <1>5 DEF TypeInv
<1> QED BY ZenonT(30), <1>1, <1>6 DEF TypeInv, OtherTypes

LEMMA TypesSame ==
  ASSUME TypeInv, UNCHANGED <<prog, frames>>, OtherTypes'
  PROVE  TypeInv' /\ SameFrames
<1>1. SameFrames BY Zenon DEF SameFrames, Made, St, Cont, Child, Root, Doing, Stmt, Code
<1>2. UNCHANGED <<Made, St, Cont, Child, Root>> BY Zenon, <1>1 DEF SameFrames
<1>3. /\ prog'.size \in Nat \ {0} /\ Len(prog'.main) \in Nat /\ IsFrames(frames')
      /\ Root' \in [Made' -> Made'] /\ Cont' \in [Made' -> 0 .. Len(frames')]
      /\ St' \in [Made' -> {"started", "final", "freed"}] /\ Child' \in [Made' -> 0 .. Len(frames')]
  BY <1>2 DEF TypeInv
<1>4. TypeInv' BY Zenon, <1>3 DEF TypeInv, OtherTypes
<1> QED BY <1>1, <1>4

LEMMA RingSame ==
  ASSUME OpsInv, UNCHANGED <<sq, inflight, cq, Made>>
  PROVE  OpsInv' /\ UNCHANGED <<Staged, inflight, Completed, Pending>>
<1>1. UNCHANGED <<Staged, inflight, Completed>> BY Zenon DEF Staged, Completed, OpsOf
<1>2. OnceIn(sq, Made)' /\ OnceCompleted' BY DEF OpsInv, OnceIn, OnceCompleted
<1> QED BY <1>1, <1>2 DEF OpsInv, Pending

-----------------------------------------------------------------------------
(* A frame's statement is over, or it throws, or the body ends. *)
Goes(D, f) == \E ends \in BOOLEAN : Advances(D, f, ends) /\ cur' = IF ends THEN Cont[f] ELSE f

LEMMA YieldsGoes ==
  ASSUME TypeInv, prog' = prog, NEW fr, NEW D, NEW f \in Made, Cleared(fr, D, f), NEW x,
         frames' = [fr EXCEPT ![f].pc = x], cur' = f
  PROVE  Goes(D, f)
<1>1. Advances(D, f, FALSE) BY Zenon, StepAdvances
<1> QED BY Zenon, <1>1 DEF Goes

LEMMA FinishGoes ==
  ASSUME TypeInv, prog' = prog, NEW fr, NEW D, NEW f \in Made \ D, Cleared(fr, D, f), NEW x, NEW y,
         Finish(f, x, y, fr)
  PROVE  Goes(D, f)
<1>1. frames' = [fr EXCEPT ![f].exc = x, ![f].val = y, ![f].st = "final"] BY DEF Finish
<1>2. Advances(D, f, TRUE) BY Zenon, <1>1, EndAdvances
<1>3. cur' = Cont[f] BY DEF Finish, FinalAwaiter, Cleared, Cont
<1> QED BY Zenon, <1>2, <1>3 DEF Goes

LEMMA ThrowsGoes ==
  ASSUME TypeInv, prog' = prog, NEW fr, NEW D, NEW f \in Made \ D, Cleared(fr, D, f), NEW x,
         Throws(f, x, fr)
  PROVE  Goes(D, f)
<1>1. CASE Stmt(f).catch # ""
  <2>1. frames' = [fr EXCEPT ![f].pc = @ + 1] /\ cur' = f BY Zenon, <1>1 DEF Throws
  <2> QED BY Zenon, <2>1, YieldsGoes
<1>2. CASE Stmt(f).catch = ""
  <2>1. Finish(f, x, <<>>, fr) BY Zenon, <1>2 DEF Throws
  <2> QED BY <2>1, FinishGoes
<1> QED BY Zenon, <1>1, <1>2

(* What a step of the running frame leaves alone. *)
RunKeeps ==
  /\ cur # 0 /\ UNCHANGED <<prog, calls, at, mpc, tasks, sq, inflight, cq, overwritten, killed>>
  /\ \/ UNCHANGED <<tl_sq_full, refused>>
     \/ tl_sq_full' = TRUE /\ refused' = refused \cup {<<Root[cur], calls[Len(calls)].by = "spawn">>}

LEMMA RunStep ==
  ASSUME CoroutineInv, RunKeeps, NEW D, D = IF Child[cur] = 0 THEN {} ELSE {Child[cur]}, Goes(D, cur)
  PROVE  CoroutineInv'
<1> USE DEF CoroutineInv
<1>1. PICK ends \in BOOLEAN : Advances(D, cur, ends) /\ cur' = IF ends THEN Cont[cur] ELSE cur BY Zenon DEF Goes
<1>2. Len(frames') = Len(frames) /\ Made' = Made BY Zenon, <1>1 DEF Advances, Made
<1>3. OpsInv' /\ UNCHANGED <<Staged, inflight, Completed>> BY ZenonT(30), <1>2, RingSame DEF RunKeeps
<1>4. Steps(D, ends) BY ZenonT(30), <1>1, <1>3 DEF Steps, RunKeeps
<1>5. TreeInv' /\ RunInv' /\ PendInv' /\ FlagInv' BY ZenonT(30), <1>4, StepsInv
<1>6. cur \in Made /\ Root[cur] \in Made /\ Cont[cur] \in 0 .. Len(frames) BY Types DEF RunKeeps
<1>7. refused' \subseteq Made \X BOOLEAN /\ tl_sq_full' \in BOOLEAN
  <2> DEFINE b == calls[Len(calls)].by = "spawn"
  <2>1. b \in BOOLEAN /\ TRUE \in BOOLEAN OBVIOUS
  <2>2. /\ refused' = refused \/ refused' = refused \cup {<<Root[cur], b>>}
        /\ tl_sq_full' = tl_sq_full \/ tl_sq_full' = TRUE
    BY ZenonT(30) DEF RunKeeps
  <2>3. refused \subseteq Made \X BOOLEAN /\ tl_sq_full \in BOOLEAN BY ZenonT(30) DEF TypeInv
  <2> HIDE DEF b
  <2>4. <<Root[cur], b>> \in Made \X BOOLEAN BY <1>6, <2>1
  <2>5. tl_sq_full' \in BOOLEAN BY Zenon, <2>1, <2>2, <2>3
  <2> QED BY Zenon, <2>2, <2>3, <2>4, <2>5
<1>8. OtherTypes'
  <2>1. cur' \in 0 .. Len(frames) BY <1>1, <1>6, Types
  <2>2. OtherTypes BY TypesOfOthers
  <2> QED BY ZenonT(30), <1>2, <1>7, <2>1, <2>2 DEF OtherTypes, RunKeeps
<1>9. TypeInv' BY Zenon, <1>1, <1>8, TypesAfter DEF RunKeeps
<1> QED BY Zenon, <1>3, <1>5, <1>9

(* A frame that is at any other statement has no inner Task. *)
LEMMA NoInner ==
  ASSUME CoroutineInv, cur # 0, Stmt(cur).do # "call"
  PROVE  cur \in Made /\ Child[cur] = 0 /\ Cleared(frames, {}, cur)
<1>1. cur \in Made /\ St[cur] = "started" /\ Doing[cur] # "call" BY ZenonT(30), Types DEF CoroutineInv, RunInv, Doing
<1>2. Child[cur] = 0 BY <1>1 DEF CoroutineInv, TreeInv
<1> QED BY Zenon, <1>1, <1>2, ClearedNone DEF CoroutineInv

-----------------------------------------------------------------------------
(* Steps that move no operation and no frame. *)
Idles ==
  /\ UNCHANGED <<prog, frames, cur, calls, tasks, sq, inflight, overwritten, killed, tl_sq_full, refused>>
  /\ mpc' \in {mpc, mpc + 1} /\ (at' = "code" <=> at = "code")
  /\ at' \in {at, "main", "enter", "cqes", "aborted", "failed"}

LEMMA IdlesInv ==
  ASSUME CoroutineInv, Idles, cq' = cq
  PROVE  CoroutineInv'
<1> USE DEF CoroutineInv
<1>1. OtherTypes'
  <2>1. OtherTypes BY TypesOfOthers
  <2>2. UNCHANGED <<Made, frames, cur, calls, tasks, sq, inflight, cq, tl_sq_full, refused>> BY ZenonT(30) DEF Idles, Made
  <2>3. mpc' \in Nat \ {0}
    <3>1. mpc \in Nat \ {0} /\ mpc' \in {mpc, mpc + 1} BY Zenon, <2>1 DEF OtherTypes, Idles
    <3> QED BY Zenon, <3>1, NextStmt
  <2>4. at' \in {"main", "code", "enter", "wait", "cqes", "aborted", "crashed", "failed"}
    BY ZenonT(30), <2>1 DEF OtherTypes, Idles
  <2> QED BY ZenonT(30), <2>1, <2>2, <2>3, <2>4 DEF OtherTypes
<1>2. TypeInv' /\ SameFrames BY <1>1, TypesSame DEF Idles
<1>3. OpsInv' /\ Pending' = Pending BY <1>2, RingSame DEF Idles, SameFrames
<1>4. Waits BY <1>2, <1>3 DEF Waits, Idles
<1> QED BY ZenonT(30), <1>2, <1>3, <1>4, WaitsInv

(* What the end of a spawn() does to its caller. *)
Returns(D) ==
  IF Top.caller = 0 THEN Advances(D, 0, FALSE) /\ cur' = 0 /\ at' \in {"main", "aborted"} /\ mpc' \in {mpc, mpc + 1}
                    ELSE Goes(D, Top.caller) /\ at' = "code" /\ mpc' = mpc

PopKeeps(D) ==
  /\ at = "code" /\ cur = 0 /\ Top.by = "spawn"
  /\ UNCHANGED <<prog, sq, inflight, cq, refused, overwritten>> /\ tl_sq_full' = FALSE
  /\ calls' = SubSeq(calls, 1, Len(calls) - 1)
  /\ \/ /\ tl_sq_full /\ D = Owned(frames, {Top.task}) /\ tasks' = tasks
        /\ killed' = killed \cup {[task |-> Top.task, by |-> {calls[i].task : i \in 1 .. Len(calls) - 1}]}
     \/ /\ ~tl_sq_full /\ D = {} /\ tasks' = tasks \cup {Top.task}
        /\ killed' = killed

LEMMA TopTypes ==
  ASSUME CoroutineInv, at = "code"
  PROVE  /\ calls # <<>> /\ Len(calls) \in Nat \ {0}
         /\ Top.task \in Made /\ Top.caller \in Made \cup {0} /\ Top.by \in {"spawn", "drain"}
<1>1. calls # <<>> BY ZenonT(30) DEF CoroutineInv, RunInv
<1>2. Len(calls) \in Nat \ {0} /\ Len(calls) \in 1 .. Len(calls) BY <1>1, CallTypes DEF CoroutineInv
<1> QED BY ZenonT(30), <1>1, <1>2, CallTypes DEF CoroutineInv, Top

LEMMA PopStep ==
  ASSUME CoroutineInv, NEW D, PopKeeps(D), Returns(D)
  PROVE  CoroutineInv'
<1> USE DEF CoroutineInv
<1>1. PICK ends \in BOOLEAN :
         /\ Advances(D, Top.caller, ends)
         /\ cur' = IF Top.caller # 0 /\ ends THEN Cont[Top.caller] ELSE Top.caller
         /\ at' \in {"main", "aborted", "code"} /\ mpc' \in {mpc, mpc + 1} /\ (at' = "code" <=> Top.caller # 0)
  <2>1. CASE Top.caller = 0
    <3>1. /\ Advances(D, Top.caller, FALSE) /\ cur' = Top.caller
          /\ at' \in {"main", "aborted", "code"} /\ mpc' \in {mpc, mpc + 1} /\ (at' = "code" <=> Top.caller # 0)
      BY Zenon, <2>1 DEF Returns
    <3> QED BY Zenon, <2>1, <3>1
  <2>2. CASE Top.caller # 0
    <3>1. Goes(D, Top.caller) /\ at' = "code" /\ mpc' = mpc BY Zenon, <2>2 DEF Returns
    <3> QED BY <2>2, <3>1 DEF Goes
  <2> QED BY <2>1, <2>2
<1>2. Len(frames') = Len(frames) /\ Made' = Made BY Zenon, <1>1 DEF Advances, Made
<1>3. OpsInv' /\ UNCHANGED <<Staged, inflight, Completed>> BY ZenonT(30), <1>2, RingSame DEF PopKeeps
<1>4. /\ calls # <<>> /\ Len(calls) \in Nat \ {0}
      /\ Top.task \in Made /\ Top.caller \in Made \cup {0}
  BY ZenonT(30), TopTypes DEF PopKeeps
<1>5. Pops(D, ends)
  <2>1. \/ /\ tl_sq_full /\ D = Owned(frames, {Top.task}) /\ tasks' = tasks
           /\ killed' = killed \cup {[task |-> Top.task, by |-> {calls[i].task : i \in 1 .. Len(calls) - 1}]}
        \/ /\ ~tl_sq_full /\ D = {} /\ tasks' = tasks \cup {Top.task}
           /\ killed' = killed
    BY ZenonT(30) DEF PopKeeps
  <2>2. /\ cur = 0 /\ Top.by = "spawn" /\ UNCHANGED <<refused, overwritten>> /\ tl_sq_full' = FALSE
        /\ calls' = SubSeq(calls, 1, Len(calls) - 1)
    BY Zenon DEF PopKeeps
  <2> QED BY Zenon, <1>1, <1>3, <1>4, <2>1, <2>2 DEF Pops
<1>6. TreeInv' /\ RunInv' /\ PendInv' /\ FlagInv' BY Zenon, <1>5, PopsInv
<1>7. OtherTypes'
  <2>1. OtherTypes BY Zenon, TypesOfOthers
  <2>2. cur' \in 0 .. Len(frames) BY ZenonT(30), <1>1, <1>4, Types
  <2>3. mpc' \in Nat \ {0} BY <1>1, <2>1 DEF OtherTypes
  <2>4. tasks' \subseteq Made BY Zenon, <1>4, <2>1 DEF OtherTypes, PopKeeps
  <2>5. calls' \in Seq([by : {"spawn", "drain"}, task : Made, caller : 0 .. Len(frames)])
    <3> DEFINE C == [by : {"spawn", "drain"}, task : Made, caller : 0 .. Len(frames)]
    <3>1. calls \in Seq(C) BY <2>1 DEF OtherTypes
    <3>2. calls' = SubSeq(calls, 1, Len(calls) - 1) BY Zenon DEF PopKeeps
    <3> HIDE DEF C
    <3>3. calls' \in Seq(C) BY <1>4, <3>1, <3>2
    <3> QED BY ZenonT(30), <3>3 DEF C
  <2>6. at' \in {"main", "code", "enter", "wait", "cqes", "aborted", "crashed", "failed"} BY <1>1
  <2>7. UNCHANGED <<sq, inflight, cq, refused>> /\ tl_sq_full' \in BOOLEAN BY Zenon DEF PopKeeps
  <2> QED BY ZenonT(30), <1>2, <2>1, <2>2, <2>3, <2>4, <2>5, <2>6, <2>7 DEF OtherTypes
<1>8. TypeInv' BY Zenon, <1>1, <1>7, TypesAfter DEF PopKeeps
<1> QED BY ZenonT(30), <1>3, <1>6, <1>8

LEMMA StayAdvances ==
  ASSUME TypeInv, UNCHANGED <<prog, frames>>
  PROVE  Advances({}, 0, FALSE)
<1>1. 0 \notin Made BY Types
<1>2. Cleared(frames', {}, 0) BY Zenon, <1>1, ClearedNone
<1>3. MovedTo(frames', 0, frames'[0].st) BY Zenon, <1>1, <1>2 DEF Cleared, MovedTo
<1> QED BY Zenon, <1>2, <1>3, MovedOn

LEMMA SpawnCaller ==
  ASSUME CoroutineInv, at = "code", Top.by = "spawn", Top.caller # 0
  PROVE  Top.caller \in Made /\ Child[Top.caller] = 0 /\ Top.caller \notin Owned(frames, {Top.task})
<1>1. /\ Len(calls) \in Nat \ {0} /\ Top.task \in Made BY TopTypes
<1>2. Len(calls) \in 1 .. Len(calls) /\ Len(calls) \in Len(calls) .. Len(calls) BY <1>1
<1>3. /\ Top.caller \in Made /\ Child[Top.caller] = 0 /\ Root[Top.caller] # Top.task
  <2>1. calls[Len(calls)].caller # 0 BY Zenon DEF Top
  <2> QED BY <1>2, <2>1, CallersRoots DEF CoroutineInv, Top
<1>4. Owned(frames, {Top.task}) \subseteq {f \in Made : Root[f] = Top.task}
  <2> DEFINE C == {f \in Made : Root[f] = Top.task}
  <2>1. Root[Top.task] = Top.task BY Zenon, <1>2 DEF CoroutineInv, RunInv, Top
  <2>2. \A f \in C : Child[f] \in C \cup {0}
    <3> TAKE f \in C
    <3> SUFFICES ASSUME Child[f] # 0 PROVE Child[f] \in C OBVIOUS
    <3>1. Child[f] \in Made BY ZenonT(30), Types DEF CoroutineInv
    <3>0. f \in Made /\ f # 0 BY Zenon, Types DEF CoroutineInv
    <3>2. Cont[Child[f]] = f /\ f # 0 BY Zenon, <3>0 DEF CoroutineInv, TreeInv
    <3>3. Root[Child[f]] = Root[f] BY <3>1, <3>2 DEF CoroutineInv, TreeInv
    <3> QED BY Zenon, <3>1, <3>3
  <2>3. C \in SUBSET Made /\ {Top.task} \subseteq C /\ {Top.task} \in SUBSET Made BY Zenon, <1>1, <2>1
  <2>4. \A B \in SUBSET Made :
          {Top.task} \subseteq B /\ (\A f \in B : Child[f] \in B \cup {0}) => Owned(frames, {Top.task}) \subseteq B
    BY Zenon, <2>3, OwnedSet DEF CoroutineInv
  <2> HIDE DEF C
  <2>5. Owned(frames, {Top.task}) \subseteq C BY <2>2, <2>3, <2>4
  <2> QED BY Zenon, <2>5 DEF C
<1> QED BY Zenon, <1>3, <1>4

-----------------------------------------------------------------------------
(* A coroutine frame is made. *)
GrownFrames(p, rt) ==
  /\ IsFrames(frames') /\ Len(frames') = NewFrame /\ Made' = Made \cup {NewFrame}
  /\ \A g \in Made :
       /\ St'[g] = St[g] /\ Cont'[g] = Cont[g] /\ Root'[g] = Root[g] /\ Doing'[g] = Doing[g]
       /\ Child'[g] = IF g = p THEN NewFrame ELSE Child[g]
  /\ St'[NewFrame] = "started" /\ Cont'[NewFrame] = p /\ Root'[NewFrame] = rt /\ Child'[NewFrame] = 0

(* frames but for the Task that p awaits. *)
Holding(fr, p) ==
  /\ IsFrames(fr) /\ Len(fr) = Len(frames)
  /\ \A g \in Made :
       /\ fr[g].fn = frames[g].fn /\ fr[g].pc = frames[g].pc /\ fr[g].st = frames[g].st
       /\ fr[g].cont = frames[g].cont /\ fr[g].root = frames[g].root
       /\ fr[g].child = IF g = p THEN NewFrame ELSE frames[g].child

LEMMA FrameAppended ==
  ASSUME TypeInv, prog' = prog, NEW p, NEW rt, NEW fr, Holding(fr, p), NEW fn,
         frames' = Append(fr, [Frame(fn, p, rt) EXCEPT !.st = "started"])
  PROVE  GrownFrames(p, rt)
<1> DEFINE n == NewFrame
           r == [Frame(fn, p, rt) EXCEPT !.st = "started"]
<1>0. Len(frames) \in Nat /\ Made = 1 .. Len(frames) /\ n = Len(frames) + 1 BY ZenonT(30), Types DEF Made, NewFrame
<1>1. /\ IsFrame(r) /\ r.st = "started" /\ r.cont = p /\ r.root = rt /\ r.child = 0
  <2> DEFINE q == Frame(fn, p, rt)
  <2>0. /\ IsFrame(q) /\ q.fn = fn /\ q.pc = 1 /\ q.cont = p /\ q.child = 0 /\ q.root = rt
    BY Zenon DEF IsFrame, Frame
  <2>2. r = [q EXCEPT !.st = "started"] OBVIOUS
  <2> HIDE DEF q, r
  <2>1. r = Fields(q.fn, q.pc, q.cont, q.child, q.root, q.exc, q.val, "started") BY ZenonT(30), <2>0, <2>2, StField
  <2> QED BY <2>0, <2>1 DEF IsFrame, Fields
<1>2. frames' = Append(fr, r) OBVIOUS
<1>3. fr \in Seq(Elements(fr)) /\ Len(fr) = Len(frames) /\ \A i \in 1 .. Len(frames) : IsFrame(fr[i])
  BY Zenon DEF Holding, IsFrames
<1> HIDE DEF r
<1>4. /\ frames' \in Seq(Elements(frames')) /\ Len(frames') = Len(frames) + 1
      /\ frames'[Len(frames) + 1] = r /\ \A i \in 1 .. Len(frames) : frames'[i] = fr[i]
  <2>1. fr \in Seq(Elements(fr)) BY Zenon, <1>3
  <2>2. Lengthened(frames', fr, r) BY Zenon, <1>2, <2>1, SeqAppend
  <2> QED BY Zenon, <1>3, <2>2 DEF Lengthened
<1>5. Len(frames') = n /\ frames'[n] = r /\ \A g \in Made : frames'[g] = fr[g] BY Zenon, <1>0, <1>4
<1>6. Made' = Made \cup {n} /\ n \in Made' BY <1>0, <1>5 DEF Made
<1>7. IsFrames(frames')
  <2>1. \A i \in Made \cup {n} : IsFrame(frames'[i]) BY ZenonT(30), <1>0, <1>1, <1>3, <1>5
  <2>2. 1 .. Len(frames') = Made \cup {n} BY Zenon, <1>6 DEF Made
  <2> QED BY Zenon, <1>4, <2>1, <2>2 DEF IsFrames
<1> HIDE DEF n
<1>8. \A g \in Made' : /\ St'[g] = frames'[g].st /\ Cont'[g] = frames'[g].cont /\ Child'[g] = frames'[g].child
                       /\ Root'[g] = frames'[g].root /\ Doing'[g] = Stmt(g)'.do
  BY Zenon DEF St, Cont, Child, Root, Doing
<1>9. ASSUME NEW g \in Made
      PROVE  /\ St'[g] = St[g] /\ Cont'[g] = Cont[g] /\ Root'[g] = Root[g] /\ Doing'[g] = Doing[g]
             /\ Child'[g] = IF g = p THEN n ELSE Child[g]
  <2>1. g \in Made' /\ frames'[g] = fr[g] BY ZenonT(30), <1>5, <1>6
  <2>2. /\ fr[g].fn = frames[g].fn /\ fr[g].pc = frames[g].pc /\ fr[g].st = frames[g].st
        /\ fr[g].cont = frames[g].cont /\ fr[g].root = frames[g].root
        /\ fr[g].child = IF g = p THEN n ELSE frames[g].child
    BY Zenon DEF Holding, n
  <2>3. Stmt(g)' = Stmt(g) BY ZenonT(30), <2>1, <2>2, StmtStays
  <2> QED BY Zenon, <1>8, <2>1, <2>2, <2>3 DEF St, Cont, Child, Root, Doing
<1>10. St'[n] = "started" /\ Cont'[n] = p /\ Root'[n] = rt /\ Child'[n] = 0
  <2>1. /\ St'[n] = frames'[n].st /\ Cont'[n] = frames'[n].cont /\ Child'[n] = frames'[n].child
        /\ Root'[n] = frames'[n].root
    BY Zenon, <1>6, <1>8
  <2> QED BY ZenonT(30), <1>1, <1>5, <2>1
<1> QED BY Zenon, <1>5, <1>6, <1>7, <1>9, <1>10 DEF GrownFrames, n

LEMMA GrownTypes ==
  ASSUME TypeInv, prog' = prog, NEW p \in Made \cup {0}, NEW rt \in Made \cup {NewFrame}, GrownFrames(p, rt),
         cur' = NewFrame, UNCHANGED <<mpc, tasks, sq, inflight, cq, tl_sq_full, refused>>,
         at' \in {"main", "code", "enter", "wait", "cqes", "aborted", "crashed", "failed"},
         calls' \in Seq([by : {"spawn", "drain"}, task : Made', caller : 0 .. Len(frames')])
  PROVE  TypeInv'
<1> DEFINE n == NewFrame
<1>0. /\ Len(frames) \in Nat /\ 0 .. Len(frames) = Made \cup {0} /\ n = Len(frames) + 1 /\ Made = 1 .. Len(frames)
  BY Zenon, Types DEF Made, NewFrame
<1>1. /\ IsFrames(frames') /\ Len(frames') = n /\ Made' = Made \cup {n} /\ Made \subseteq Made'
  BY DEF GrownFrames
<1>2. 0 .. Len(frames') = Made' \cup {0} /\ n \in Made' BY <1>0, <1>1
<1> HIDE DEF n
<1>3. /\ St' = [f \in Made' |-> St'[f]] /\ Cont' = [f \in Made' |-> Cont'[f]]
      /\ Child' = [f \in Made' |-> Child'[f]] /\ Root' = [f \in Made' |-> Root'[f]]
  BY Zenon DEF St, Cont, Child, Root
<1>4. /\ St \in [Made -> {"started", "final", "freed"}] /\ Root \in [Made -> Made]
      /\ Cont \in [Made -> Made \cup {0}] /\ Child \in [Made -> Made \cup {0}]
  BY ZenonT(30), Types
<1>5. \A f \in Made' :
        /\ St'[f] \in {"started", "final", "freed"} /\ Root'[f] \in Made'
        /\ Cont'[f] \in Made' \cup {0} /\ Child'[f] \in Made' \cup {0}
  BY ZenonT(30), <1>1, <1>4 DEF GrownFrames, n
<1>6. /\ St' \in [Made' -> {"started", "final", "freed"}] /\ Root' \in [Made' -> Made']
      /\ Cont' \in [Made' -> 0 .. Len(frames')] /\ Child' \in [Made' -> 0 .. Len(frames')]
  BY Zenon, <1>2, <1>3, <1>5
<1>7. OtherTypes'
  <2>1. OtherTypes BY Zenon, TypesOfOthers
  <2>2. sq' \in Seq(Sqes(Made')) BY Zenon, <1>1, <2>1, SqesGrow DEF OtherTypes
  <2>3. refused' \subseteq Made' \X BOOLEAN BY Zenon, <1>1, <2>1 DEF OtherTypes
  <2>4. \A i \in 1 .. Len(cq') : cq'[i] = Null \/ cq'[i].awt \in Made' BY Zenon, <1>1, <2>1 DEF OtherTypes
  <2>5. cur' \in 0 .. Len(frames') BY Zenon, <1>2 DEF n
  <2>6. tasks' \subseteq Made' /\ inflight' \subseteq Made' BY Zenon, <1>1, <2>1 DEF OtherTypes
  <2>7. mpc' \in Nat \ {0} /\ tl_sq_full' \in BOOLEAN /\ cq' \in Seq(Elements(cq')) BY Zenon, <2>1 DEF OtherTypes
  <2>8. Null' = Null BY ZenonT(30) DEF Null
  <2> QED BY Zenon, <2>2, <2>3, <2>4, <2>5, <2>6, <2>7, <2>8 DEF OtherTypes
<1>8. prog'.size \in Nat \ {0} /\ Len(prog'.main) \in Nat BY DEF TypeInv
<1> QED BY Zenon, <1>1, <1>6, <1>7, <1>8 DEF TypeInv, OtherTypes

LEMMA GrownOps ==
  ASSUME TypeInv, OpsInv, Made' = Made \cup {NewFrame}, UNCHANGED <<sq, inflight, cq>>
  PROVE  OpsInv' /\ UNCHANGED <<Staged, inflight, Completed>>
<1> DEFINE n == NewFrame
<1>0. n \notin Made /\ n # 0 BY Zenon, Fresh
<1>1. OpSqe(n) \notin Elements(sq) BY ZenonT(30), <1>0, OpsMade DEF TypeInv
<1>2. \A i \in 1 .. Len(cq) : cq[i].awt # n BY <1>0 DEF TypeInv, Null
<1> HIDE DEF n
<1>3. Made' = Made \cup {n} BY DEF n
<1>4. Staged' = Staged BY <1>1, <1>3 DEF Staged, OpsOf
<1>5. Completed' = Completed BY <1>2, <1>3 DEF Completed
<1>6. OnceIn(sq, Made)'
  <2>1. \A m \in 1 .. Len(sq) : sq[m] # OpSqe(n) BY Zenon, <1>1 DEF Elements
  <2>2. \A f \in Made : \A l, m \in 1 .. Len(sq) : sq[l] = OpSqe(f) /\ sq[m] = OpSqe(f) => l = m BY DEF OpsInv, OnceIn
  <2>3. \A f \in Made \cup {n} : \A l, m \in 1 .. Len(sq) : sq[l] = OpSqe(f) /\ sq[m] = OpSqe(f) => l = m
    BY Zenon, <2>1, <2>2
  <2> QED BY Zenon, <1>3, <2>3 DEF OnceIn
<1>7. OnceCompleted' BY DEF OpsInv, OnceCompleted
<1> QED BY Zenon, <1>4, <1>5, <1>6, <1>7 DEF OpsInv

-----------------------------------------------------------------------------
(* Completions come and are consumed. *)
Extends(u, s, e) ==
  /\ u \in Seq(Elements(u)) /\ Len(u) \in Nat /\ Len(s) \in Nat /\ Len(s) + 1 <= Len(u)
  /\ u[Len(s) + 1] = e /\ \A i \in 1 .. Len(s) : u[i] = s[i]
  /\ \A i \in 1 .. Len(u) : i \in 1 .. Len(s) \/ i = Len(s) + 1 \/ u[i] = Null

LEMMA CqAppended ==
  ASSUME NEW s, s \in Seq(Elements(s)), NEW e, NEW t \in {<<>>, <<Null>>}
  PROVE  Extends(Append(s, e) \o t, s, e)
<1> DEFINE S == Elements(s) \cup {e, Null}
           v == Append(s, e)
           u == v \o t
<1>1. s \in Seq(S) /\ e \in S /\ Null \in S BY SeqFun DEF Elements
<1> HIDE DEF S
<1>2. /\ v \in Seq(S) /\ Len(v) = Len(s) + 1 /\ Len(s) \in Nat
      /\ v[Len(s) + 1] = e /\ \A i \in 1 .. Len(s) : v[i] = s[i]
  BY <1>1
<1> HIDE DEF v
<1>3. t \in Seq(S) /\ Len(t) \in {0, 1} /\ \A i \in 1 .. Len(t) : t[i] = Null
  <2>1. CASE t = <<>> BY <2>1
  <2>2. CASE t = <<Null>>
    <3>1. Len(t) = 1 /\ t[1] = Null /\ t \in Seq(S) BY <1>1, <2>2
    <3>2. \A i \in 1 .. 1 : i = 1 OBVIOUS
    <3> QED BY <3>1, <3>2
  <2> QED BY <2>1, <2>2
<1>4. /\ u \in Seq(S) /\ Len(u) = Len(v) + Len(t)
      /\ \A i \in 1 .. Len(v) : u[i] = v[i]
      /\ \A j \in 1 .. Len(t) : u[Len(v) + j] = t[j]
  BY <1>2, <1>3
<1> HIDE DEF u
<1>5. u = [i \in 1 .. Len(u) |-> u[i]] /\ Len(u) \in Nat BY <1>4
<1>6. u \in Seq(Elements(u)) BY Zenon, <1>5, FunSeq
<1>7. u[Len(s) + 1] = e /\ \A i \in 1 .. Len(s) : u[i] = s[i]
  <2>1. Len(s) + 1 \in 1 .. Len(v) /\ \A i \in 1 .. Len(s) : i \in 1 .. Len(v) BY <1>2
  <2> QED BY Zenon, <1>2, <1>4, <2>1
<1>8. ASSUME NEW i \in 1 .. Len(u), ~(i \in 1 .. Len(s)), i # Len(s) + 1 PROVE u[i] = Null
  <2>0. Len(t) \in {0, 1} /\ Len(s) \in Nat /\ Len(u) = Len(s) + 1 + Len(t) /\ Len(v) = Len(s) + 1
    BY Zenon, <1>2, <1>3, <1>4
  <2>1. Len(t) = 1 /\ i = Len(v) + 1 /\ 1 \in 1 .. Len(t)
    <3>1. i \in Nat /\ i > Len(s) + 1 /\ i <= Len(u) BY <1>8, <2>0
    <3>2. Len(t) = 1 BY <2>0, <3>1
    <3> QED BY <2>0, <3>1, <3>2
  <2>2. u[Len(v) + 1] = t[1] /\ t[1] = Null BY Zenon, <1>3, <1>4, <2>1
  <2> QED BY Zenon, <2>1, <2>2
<1>9. Len(s) + 1 <= Len(u) BY <1>2, <1>3, <1>4
<1>10. Extends(u, s, e) BY Zenon, <1>2, <1>5, <1>6, <1>7, <1>8, <1>9 DEF Extends
<1> QED BY <1>10 DEF u, v

(* drain() takes the first completion. *)
CqHead(f) ==
  /\ at = "cqes" /\ cq # <<>> /\ f = Head(cq).awt /\ cq' = Tail(cq)
  /\ UNCHANGED <<prog, mpc, tasks, sq, inflight, overwritten, killed, tl_sq_full, refused>>

LEMMA HeadTaken ==
  ASSUME CoroutineInv, NEW f, CqHead(f), Made' = Made
  PROVE  /\ cq' \in Seq(Elements(cq')) /\ \A i \in 1 .. Len(cq') : cq'[i] = Null \/ cq'[i].awt \in Made
         /\ Head(cq) = Null \/ f \in Completed
         /\ Pending' = Pending \ {f} /\ OpsInv'
<1> USE DEF CoroutineInv
<1>0. cq \in Seq(Elements(cq)) /\ \A i \in 1 .. Len(cq) : cq[i] = Null \/ cq[i].awt \in Made BY DEF TypeInv
<1>1. /\ Len(cq) \in Nat \ {0} /\ Head(cq) = cq[1] /\ Len(cq') = Len(cq) - 1
      /\ \A i \in 1 .. Len(cq') : cq'[i] = cq[i + 1]
      /\ cq' = [i \in 1 .. Len(cq') |-> cq'[i]]
  <2> DEFINE S == Elements(cq)
  <2>1. cq \in Seq(S) /\ cq # <<>> /\ cq' = Tail(cq) BY <1>0 DEF CqHead
  <2> HIDE DEF S
  <2>2. /\ Len(cq) \in Nat \ {0} /\ Head(cq) = cq[1] /\ Len(cq') = Len(cq) - 1
        /\ \A i \in 1 .. Len(cq') : cq'[i] = cq[i + 1]
    BY <2>1
  <2>3. cq' = [i \in 1 .. Len(cq') |-> cq'[i]]
    <3>1. cq' \in Seq(S) BY <2>1
    <3> QED BY <3>1
  <2> QED BY <2>2, <2>3
<1>2. \A i \in 1 .. Len(cq') : i + 1 \in 1 .. Len(cq) /\ i + 1 # 1 BY <1>1
<1>3. cq' \in Seq(Elements(cq'))
  <2>1. Len(cq') \in Nat BY <1>1
  <2> QED BY <1>1, <2>1, FunSeq
<1>4. \A i \in 1 .. Len(cq') : cq'[i] = Null \/ cq'[i].awt \in Made BY Zenon, <1>0, <1>1, <1>2
<1>5. 1 \in 1 .. Len(cq) /\ f = cq[1].awt BY <1>1 DEF CqHead
<1>6. Head(cq) = Null \/ f \in Completed BY <1>0, <1>1, <1>5 DEF Completed
<1>7. 0 \notin Made BY ZenonT(30), Types
<1>8. ASSUME NEW g \in Made
      PROVE  (\E i \in 1 .. Len(cq') : cq'[i].awt = g) <=> (\E i \in 1 .. Len(cq) : cq[i].awt = g) /\ g # f
  <2>1. ASSUME NEW i \in 1 .. Len(cq'), cq'[i].awt = g PROVE (\E j \in 1 .. Len(cq) : cq[j].awt = g) /\ g # f
    <3>1. cq[i + 1].awt = g /\ i + 1 \in 1 .. Len(cq) /\ i + 1 # 1 BY Zenon, <1>1, <1>2, <2>1
    <3>2. g = f => i + 1 = 1 BY Zenon, <1>5, <1>7, <3>1 DEF OpsInv, OnceCompleted
    <3> QED BY <3>1, <3>2
  <2>2. ASSUME NEW j \in 1 .. Len(cq), cq[j].awt = g, g # f PROVE \E i \in 1 .. Len(cq') : cq'[i].awt = g
    <3>1. j # 1 BY <1>5, <2>2
    <3>2. j - 1 \in 1 .. Len(cq') /\ (j - 1) + 1 = j BY <1>1, <3>1
    <3>3. cq'[j - 1] = cq[j] BY <1>1, <3>2
    <3> QED BY <2>2, <3>2, <3>3
  <2> QED BY <2>1, <2>2
<1>9. Completed' = Completed \ {f}
  <2>1. Completed' = {g \in Made : \E i \in 1 .. Len(cq') : cq'[i].awt = g} BY DEF Completed
  <2>2. Completed = {g \in Made : \E i \in 1 .. Len(cq) : cq[i].awt = g} BY DEF Completed
  <2> QED BY Zenon, <1>8, <2>1, <2>2
<1>10. Staged' = Staged /\ inflight' = inflight BY DEF Staged, OpsOf, CqHead
<1>11. f \notin Staged /\ f \notin inflight
  <2>1. CASE f \in Completed BY Zenon, <2>1 DEF OpsInv
  <2>2. CASE Head(cq) = Null BY <1>1, <1>5, <1>7, <2>2, Types DEF Null
  <2> QED BY Zenon, <1>6, <2>1, <2>2
<1>12. Pending' = Pending \ {f} BY <1>9, <1>10, <1>11 DEF Pending
<1>13. OnceCompleted'
  <2> SUFFICES ASSUME NEW l \in 1 .. Len(cq'), NEW m \in 1 .. Len(cq'), cq'[l].awt = cq'[m].awt, cq'[l].awt # 0
               PROVE  l = m
    BY DEF OnceCompleted
  <2>1. l + 1 \in 1 .. Len(cq) /\ m + 1 \in 1 .. Len(cq) /\ cq[l + 1].awt = cq[m + 1].awt /\ cq[l + 1].awt # 0
    BY Zenon, <1>1, <1>2
  <2>2. l + 1 = m + 1 BY Zenon, <2>1 DEF OpsInv, OnceCompleted
  <2> QED BY <1>1, <2>2
<1>14. OpsInv'
  <2>1. OnceIn(sq, Made)' BY DEF OnceIn, OpsInv, CqHead
  <2> QED BY ZenonT(30), <1>9, <1>10, <1>13, <2>1 DEF OpsInv
<1> QED BY ZenonT(30), <1>3, <1>4, <1>6, <1>12, <1>14

LEMMA HeadTypes ==
  ASSUME CoroutineInv, NEW f, CqHead(f), Len(frames') = Len(frames), cur' \in 0 .. Len(frames),
         at' \in {"cqes", "code", "crashed"},
         calls' \in Seq([by : {"spawn", "drain"}, task : Made, caller : 0 .. Len(frames)])
  PROVE  OtherTypes'
<1>1. Made' = Made /\ OtherTypes /\ Null' = Null BY TypesOfOthers DEF CoroutineInv, Made, Null
<1>2. cq' \in Seq(Elements(cq')) /\ \A i \in 1 .. Len(cq') : cq'[i] = Null \/ cq'[i].awt \in Made
  BY <1>1, HeadTaken
<1>3. UNCHANGED <<mpc, tasks, sq, inflight, tl_sq_full, refused>> BY Zenon DEF CqHead
<1> QED BY Zenon, <1>1, <1>2, <1>3 DEF OtherTypes

LEMMA FrameDomain ==
  ASSUME CoroutineInv
  PROVE  /\ DOMAIN frames = Made /\ DOMAIN calls = 1 .. Len(calls) /\ DOMAIN cq = 1 .. Len(cq)
         /\ \A f \in Made : /\ St[f] = frames[f].st /\ Cont[f] = frames[f].cont /\ Child[f] = frames[f].child
                            /\ Root[f] = frames[f].root /\ Doing[f] = Stmt(f).do
<1>1. DOMAIN frames = Made /\ DOMAIN cq = 1 .. Len(cq) BY SeqFun DEF CoroutineInv, TypeInv, IsFrames, Made
<1>2. DOMAIN calls = 1 .. Len(calls)
  <2> DEFINE C == [by : {"spawn", "drain"}, task : Made, caller : 0 .. Len(frames)]
  <2>1. calls \in Seq(C) BY DEF CoroutineInv, TypeInv
  <2> HIDE DEF C
  <2> QED BY <2>1
<1> QED BY ZenonT(30), <1>1, <1>2 DEF St, Cont, Child, Root, Doing
=============================================================================
