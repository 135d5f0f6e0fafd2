----------------------------- MODULE RingProofs -----------------------------
(***************************************************************************)
(* The submission ring implements the queue of staged SQEs, for every ring *)
(* depth and every width of the indices.  The constructors and destructors *)
(* around it release what they hold exactly once, get the sizes they ask   *)
(* for and map them in full, and the ring stays a queue from one IO to the *)
(* next, for every depth and kernel limit.                                 *)
(***************************************************************************)
EXTENDS IoLifetime, Lemmas, WellFoundedInduction

-----------------------------------------------------------------------------
(* The inductive invariant: has_capacity's sum never wraps. *)
RingInv == RingTypeOK /\ Pending <= LapBound

LEMMA Sizes ==
  /\ Entries \in Nat \ {0} /\ Modulus \in Nat \ {0} /\ Modulus % Entries = 0
  /\ LapBound \in Nat /\ LapBound > Entries /\ LapBound = Modulus - 3
  BY EntriesAssumption, RingAssumption DEF LapBound

LEMMA PendingIs == ASSUME RingTypeOK
  PROVE Pending \in Nat /\ Pending < Modulus /\ tail = (head + Pending) % Modulus
  <1> DEFINE p == tail - head
  <1>1. p \in Int /\ head \in Nat /\ tail \in Nat /\ tail < Modulus /\ p + head = tail
    BY Sizes DEF RingTypeOK, Index
  <1>2. Modulus \in Nat \ {0} BY Sizes
  <1>3. Pending = p % Modulus BY DEF Pending
  <1> HIDE DEF p
  <1>4. Pending \in Nat /\ Pending < Modulus BY <1>1, <1>2, <1>3, DivMod
  <1>5. ((p % Modulus) + head) % Modulus = (p + head) % Modulus
    <2>1. head \in Int BY <1>1
    <2> QED BY Zenon, <1>1, <1>2, <2>1, ModAdd
  <1>6. tail % Modulus = tail BY <1>1, <1>2, ModSmall
  <1>7. (Pending + head) % Modulus = tail BY <1>1, <1>3, <1>5, <1>6
  <1>8. Pending + head = head + Pending BY <1>1, <1>4
  <1> QED BY <1>4, <1>7, <1>8

(* tail advances by n: so does the number of staged SQEs. *)
LEMMA Advance == ASSUME RingTypeOK, NEW n \in Nat, Pending + n < Modulus
  PROVE /\ (tail + n) % Modulus \in Index
        /\ (((tail + n) % Modulus) - head) % Modulus = Pending + n
        /\ (tail + n) % Modulus = (head + Pending + n) % Modulus
  <1> DEFINE d == tail - head
             x == tail + n
             y == 0 - head
             z == head + Pending
  <1>1. Pending \in Nat /\ tail = z % Modulus BY PendingIs
  <1>2. tail \in Nat /\ head \in Nat /\ Modulus \in Nat \ {0} BY Sizes DEF RingTypeOK, Index
  <1>3. d \in Int /\ x \in Int /\ y \in Int /\ z \in Int /\ n \in Int /\ x + y = d + n BY <1>1, <1>2
  <1>4. Pending = d % Modulus BY DEF Pending
  <1> HIDE DEF d, x, y, z
  <1>5. x % Modulus \in Int /\ 0 <= x % Modulus /\ x % Modulus < Modulus BY <1>2, <1>3, DivMod
  <1>6. ((x % Modulus) + y) % Modulus = (x + y) % Modulus BY Zenon, <1>2, <1>3, ModAdd
  <1>7. ((d % Modulus) + n) % Modulus = (d + n) % Modulus BY Zenon, <1>2, <1>3, ModAdd
  <1>8. (Pending + n) % Modulus = Pending + n
    <2>1. Pending + n \in Nat BY <1>1
    <2> QED BY <2>1, <1>2, ModSmall
  <1>9. ((x % Modulus) + y) % Modulus = Pending + n BY Zenon, <1>3, <1>4, <1>6, <1>7, <1>8
  <1>10. (x % Modulus) + y = (x % Modulus) - head BY <1>2, <1>5 DEF y
  <1>11. ((z % Modulus) + n) % Modulus = (z + n) % Modulus BY Zenon, <1>2, <1>3, ModAdd
  <1>12. x % Modulus = (z + n) % Modulus BY <1>1, <1>11 DEF x
  <1> QED BY <1>2, <1>5, <1>9, <1>10, <1>12 DEF x, z, Index

(* head advances by k: k fewer are staged, and the rest keep their slots. *)
LEMMA Consume == ASSUME RingTypeOK, NEW k \in 0 .. Pending
  PROVE /\ (head + k) % Modulus \in Index
        /\ (tail - ((head + k) % Modulus)) % Modulus = Pending - k
        /\ \A j \in Int : (((head + k) % Modulus) + j) % Modulus = (head + k + j) % Modulus
  <1> DEFINE x == head + k
             h == x % Modulus
             p == Pending - k
  <1>1. Pending \in Nat /\ Pending < Modulus /\ tail = (head + Pending) % Modulus BY PendingIs
  <1>2. tail \in Nat /\ tail < Modulus /\ head \in Nat /\ Modulus \in Nat \ {0} /\ k \in Nat
    BY Sizes, <1>1 DEF RingTypeOK, Index
  <1>3. x \in Nat /\ p \in Nat /\ p < Modulus /\ x + p = head + Pending BY <1>1, <1>2
  <1>4. h \in Nat /\ h < Modulus BY <1>2, <1>3, DivMod
  <1>5. \A j \in Int : (h + j) % Modulus = (x + j) % Modulus
    <2> HIDE DEF x
    <2> TAKE j \in Int
    <2>1. x \in Int BY <1>3
    <2> QED BY Zenon, <1>2, <2>1, ModAdd
  <1> HIDE DEF x, p, h
  <1>6. (h + p) % Modulus = tail BY <1>1, <1>3, <1>5
  <1>7. (((h + p) % Modulus) + (0 - h)) % Modulus = ((h + p) + (0 - h)) % Modulus
    <2> DEFINE u == h + p
               v == 0 - h
    <2>1. u \in Int /\ v \in Int BY <1>3, <1>4
    <2> HIDE DEF u, v
    <2>2. ((u % Modulus) + v) % Modulus = (u + v) % Modulus BY Zenon, <2>1, <1>2, ModAdd
    <2> QED BY <2>2 DEF u, v
  <1>8. (h + p) + (0 - h) = p /\ tail + (0 - h) = tail - h BY <1>2, <1>3, <1>4
  <1>9. p % Modulus = p BY <1>2, <1>3, ModSmall
  <1>10. (tail - h) % Modulus = p BY <1>6, <1>7, <1>8, <1>9
  <1> QED BY <1>4, <1>5, <1>10, <1>2 DEF x, h, p, Index

-----------------------------------------------------------------------------
(* The SQEs in the p slots from index h on. *)
Slots == [Slot -> Sqe(Awt)]

Segment(s, h, p) == [i \in 1 .. p |-> s[((h + i - 1) % Modulus) % Entries]]

LEMMA SlotOf == ASSUME NEW x \in Int
  PROVE (x % Modulus) % Entries = x % Entries /\ x % Entries \in Slot
  <1>1. (x % Modulus) % Entries = x % Entries BY Zenon, Sizes, ModMod
  <1>2. x % Entries \in Slot BY Sizes, DivMod DEF Slot
  <1> QED BY <1>1, <1>2

LEMMA SegmentAt ==
  ASSUME NEW s \in Slots, NEW h \in Nat, NEW p \in Nat, NEW i \in 1 .. p,
         NEW x \in Int, x = h + i - 1
  PROVE  Segment(s, h, p)[i] = s[x % Entries] /\ Segment(s, h, p)[i] \in Sqe(Awt)
  <1>1. Segment(s, h, p)[i] = s[(x % Modulus) % Entries] BY DEF Segment
  <1>2. s[(x % Modulus) % Entries] = s[x % Entries] /\ s[x % Entries] \in Sqe(Awt) BY SlotOf DEF Slots
  <1> QED BY <1>1, <1>2

LEMMA SegmentSeq ==
  ASSUME NEW s \in Slots, NEW h \in Nat, NEW p \in Nat
  PROVE  Segment(s, h, p) \in Seq(Sqe(Awt)) /\ Len(Segment(s, h, p)) = p
  <1>1. ASSUME NEW i \in 1 .. p PROVE Segment(s, h, p)[i] \in Sqe(Awt)
    <2>1. h + i - 1 \in Int OBVIOUS
    <2> QED BY <2>1, SegmentAt
  <1> QED BY <1>1 DEF Segment

(* Writing the slot of the index after the last is a Commit on the queue,   *)
(* which overwrites the staged SQEs a whole number of rings before it.      *)
LEMMA SegmentCommit ==
  ASSUME NEW s \in Slots, NEW e \in Sqe(Awt), NEW h \in Nat, NEW p \in Nat,
         NEW m \in Nat, m = p + 1, NEW t, t = (h + p) % Modulus
  PROVE  Put(s, t, e) \in Slots /\ Segment(Put(s, t, e), h, m) = Commit(Segment(s, h, p), e)
  <1> DEFINE b == h + p
             w == b % Entries
             n == Put(s, t, e)
  <1>1. b \in Int OBVIOUS
  <1>2. t % Entries = w /\ w \in Slot BY <1>1, SlotOf
  <1> HIDE DEF w
  <1>3. n = [s EXCEPT ![w] = e] BY Zenon, <1>2 DEF Put
  <1> HIDE DEF n
  <1>4. n \in Slots BY <1>2, <1>3 DEF Slots
  <1>5. Len(Segment(s, h, p)) = p BY SegmentSeq
  <1>6. ASSUME NEW i \in 1 .. m
        PROVE  Segment(n, h, m)[i] = Commit(Segment(s, h, p), e)[i]
    <2> DEFINE a == h + i - 1
               v == a % Entries
    <2>1. a \in Int /\ b - a = p + 1 - i OBVIOUS
    <2>2. v \in Slot BY <2>1, SlotOf
    <2>3. Commit(Segment(s, h, p), e)[i] =
            IF (p + 1 - i) % Entries = 0 THEN e ELSE Segment(s, h, p)[i]
      BY <1>5 DEF Commit
    <2>4. Segment(n, h, m)[i] = n[v]
      <3>1. a = h + i - 1 OBVIOUS
      <3> HIDE DEF a
      <3> QED BY <1>4, <2>1, <3>1, SegmentAt
    <2>5. i # m => Segment(s, h, p)[i] = s[v]
      <3>1. a = h + i - 1 OBVIOUS
      <3> HIDE DEF a
      <3>2. i # m => i \in 1 .. p OBVIOUS
      <3> QED BY <2>1, <3>1, <3>2, SegmentAt
    <2>6. v = w <=> (p + 1 - i) % Entries = 0
      <3> HIDE DEF a, b
      <3>1. a % Entries = b % Entries <=> (b - a) % Entries = 0 BY Zenon, <1>1, <2>1, Sizes, ModDiff
      <3> QED BY <2>1, <3>1 DEF w
    <2> HIDE DEF v
    <2>7. CASE v = w BY <2>3, <2>4, <2>6, <2>7, <1>2, <1>3 DEF Slots
    <2>8. CASE v # w
      <3>1. i # m
        <4>1. 0 % Entries = 0 BY Sizes, ModSmall
        <4> QED BY <4>1, <2>6, <2>8
      <3> QED BY <3>1, <2>2, <2>3, <2>4, <2>5, <2>6, <2>8, <1>3 DEF Slots
    <2> QED BY <2>7, <2>8
  <1>7. Segment(n, h, m) = Commit(Segment(s, h, p), e)
    BY <1>5, <1>6 DEF Segment, Commit
  <1> QED BY <1>4, <1>7 DEF n

-----------------------------------------------------------------------------
LEMMA StagedIs == Staged = Segment(sqes, head, Pending)
  BY DEF Staged, Segment, SqeAt

LEMMA SqeTypes == ASSUME NEW a \in Awt
  PROVE {EventfdRead, Op(a), LinkTimeout(a)} \subseteq Sqe(Awt)
  BY DEF Sqe

LEMMA InitHolds == ASSUME RInit PROVE RingInv /\ Staged = <<>>
  <1>1. Pending = 0
    <2>1. 0 % Modulus = 0 BY Sizes, ModSmall
    <2> QED BY <2>1 DEF RInit, Pending
  <1>2. RingTypeOK BY Sizes DEF RInit, RingTypeOK, Index, Slot, Sqe
  <1>3. Staged = <<>> BY <1>1 DEF Staged
  <1> QED BY <1>1, <1>2, <1>3, Sizes DEF RingInv

(* One commit_one(): the queue of staged SQEs grows by a Commit. *)
LEMMA PutStep ==
  ASSUME RingTypeOK, NEW e \in Sqe(Awt), NEW m \in Nat, m = Pending + 1
  PROVE  Put(sqes, tail, e) \in Slots /\ Segment(Put(sqes, tail, e), head, m) = Commit(Staged, e)
  <1>1. head \in Nat /\ sqes \in Slots BY DEF RingTypeOK, Index, Slots
  <1>2. Pending \in Nat /\ tail = (head + Pending) % Modulus BY PendingIs
  <1> QED BY <1>1, <1>2, SegmentCommit, StagedIs

LEMMA LenStaged == ASSUME RingTypeOK PROVE Staged \in Seq(Sqe(Awt)) /\ Len(Staged) = Pending
  <1>1. head \in Nat /\ sqes \in Slots BY DEF RingTypeOK, Index, Slots
  <1>2. Pending \in Nat BY PendingIs
  <1> QED BY <1>1, <1>2, StagedIs, SegmentSeq

(* The state after a step that moved tail on by n and wrote the slots s. *)
LEMMA AfterPut ==
  ASSUME RingInv, NEW n \in Nat, Pending + n <= LapBound,
         tail' = (tail + n) % Modulus, head' = head, sqes' \in Slots
  PROVE  RingInv' /\ Pending' = Pending + n /\ Staged' = Segment(sqes', head, Pending + n)
  <1>1. RingTypeOK /\ Pending \in Nat BY PendingIs DEF RingInv
  <1>2. Pending + n < Modulus BY <1>1, Sizes
  <1>3. tail' \in Index /\ ((tail') - head) % Modulus = Pending + n BY <1>1, <1>2, Advance
  <1>4. Pending' = Pending + n BY <1>3 DEF Pending
  <1>5. RingTypeOK' BY <1>1, <1>3 DEF RingTypeOK, Slots
  <1>6. Staged' = Segment(sqes', head', Pending') BY DEF Staged, Segment, SqeAt
  <1> QED BY <1>4, <1>5, <1>6 DEF RingInv, LapBound

LEMMA StageStep ==
  ASSUME RingInv, NEW a \in Awt, NEW needed \in {1, 2}, RStage(a, needed)
  PROVE  RingInv' /\ HasCapacity(Staged, needed) /\ Staged' = Stage(Staged, a, needed)
  <1>1. RingTypeOK /\ Pending \in Nat /\ Pending <= LapBound /\ head \in Nat
    BY PendingIs DEF RingInv, RingTypeOK, Index
  <1>2. Pending + needed <= Entries
    <2>1. Pending + needed \in Nat /\ Pending + needed < Modulus BY <1>1, Sizes
    <2>2. (Pending + needed) % Modulus = Pending + needed BY <2>1, Sizes, ModSmall
    <2> QED BY <2>2 DEF RStage, RHasCapacity
  <1>3. HasCapacity(Staged, needed) BY <1>1, <1>2, LenStaged DEF HasCapacity
  <1>4. Pending + needed <= LapBound BY <1>1, <1>2, Sizes
  <1> DEFINE s == Put(sqes, tail, Op(a))
             m == Pending + 1
  <1>5. Op(a) \in Sqe(Awt) /\ LinkTimeout(a) \in Sqe(Awt) BY SqeTypes
  <1>6. s \in Slots /\ Segment(s, head, m) = Commit(Staged, Op(a)) /\ m \in Nat
    BY <1>1, <1>5, PutStep
  <1>7. CASE needed = 1
    <2>1. sqes' = s /\ tail' = (tail + 1) % Modulus /\ head' = head BY <1>7 DEF RStage
    <2>2. RingInv' /\ Staged' = Segment(s, head, m) BY <2>1, <1>4, <1>6, <1>7, AfterPut
    <2> QED BY <2>2, <1>3, <1>6, <1>7 DEF Stage
  <1>8. CASE needed = 2
    <2> DEFINE t == (tail + 1) % Modulus
    <2>1. sqes' = Put(s, t, LinkTimeout(a)) /\ tail' = (tail + 2) % Modulus /\ head' = head
      BY <1>8 DEF RStage
    <2>2. Pending + 1 < Modulus BY <1>1, Sizes
    <2>3. t = (head + Pending + 1) % Modulus BY <1>1, <2>2, Advance
    <2>4. t = (head + m) % Modulus
      <3>1. head + Pending + 1 = head + m BY <1>1
      <3> QED BY <2>3, <3>1
    <2> HIDE DEF s, t, m
    <2>5. Pending + 2 = m + 1 /\ Pending + 2 \in Nat BY <1>1 DEF m
    <2>6. /\ Put(s, t, LinkTimeout(a)) \in Slots
          /\ Segment(Put(s, t, LinkTimeout(a)), head, Pending + 2) = Commit(Segment(s, head, m), LinkTimeout(a))
      BY <1>1, <1>5, <1>6, <2>4, <2>5, SegmentCommit
    <2>7. RingInv' /\ Staged' = Segment(sqes', head, Pending + 2) BY <2>1, <2>6, <1>4, <1>8, AfterPut
    <2> QED BY <2>1, <2>6, <2>7, <1>3, <1>6, <1>8 DEF Stage
  <1> QED BY <1>7, <1>8

LEMMA ArmStep == ASSUME RingInv, RArm PROVE RingInv' /\ Staged' = Arm(Staged)
  <1>1. RingTypeOK /\ Pending \in Nat /\ Pending + 1 <= LapBound /\ Pending + 1 \in Nat
    BY PendingIs, Sizes DEF RingInv, RArm
  <1>2. EventfdRead \in Sqe(Awt) BY DEF Sqe
  <1>3. sqes' = Put(sqes, tail, EventfdRead) /\ tail' = (tail + 1) % Modulus /\ head' = head BY DEF RArm
  <1>4. /\ Put(sqes, tail, EventfdRead) \in Slots
        /\ Segment(Put(sqes, tail, EventfdRead), head, Pending + 1) = Commit(Staged, EventfdRead)
    BY <1>1, <1>2, PutStep
  <1>5. RingInv' /\ Staged' = Segment(sqes', head, Pending + 1) BY <1>1, <1>3, <1>4, AfterPut
  <1> QED BY <1>3, <1>4, <1>5 DEF Arm

LEMMA EnterStep ==
  ASSUME RingInv, REnter
  PROVE  /\ RingInv' /\ Staged' = Remaining(Staged)
         /\ taken' = SubSeq(Staged, 1, Submittable(Staged))
  <1> DEFINE k == Taking
             p == Pending
             h == (head + k) % Modulus
  <1>1. RingTypeOK /\ p \in Nat /\ p <= LapBound /\ head \in Nat
    BY PendingIs DEF RingInv, RingTypeOK, Index
  <1>2. k \in 0 .. p BY <1>1, Sizes DEF Taking
  <1>3. head' = h /\ tail' = tail /\ sqes' = sqes BY DEF REnter
  <1>4. /\ h \in Index /\ (tail - h) % Modulus = p - k
        /\ \A j \in Int : (h + j) % Modulus = (head + k + j) % Modulus
    BY <1>1, <1>2, Consume
  <1>5. Pending' = p - k BY <1>3, <1>4 DEF Pending
  <1>6. RingInv' BY <1>1, <1>2, <1>3, <1>4, <1>5, Sizes DEF RingInv, RingTypeOK, LapBound
  <1>7. Staged \in Seq(Sqe(Awt)) /\ Len(Staged) = p /\ Submittable(Staged) = k
    BY <1>1, LenStaged DEF Submittable, Taking
  <1>8. taken' = SubSeq(Staged, 1, Submittable(Staged))
    <2>1. taken' = [i \in 1 .. k |-> SqeAt((head + i - 1) % Modulus)] BY DEF REnter
    <2>2. \A i \in 1 .. k : Staged[i] = SqeAt((head + i - 1) % Modulus) BY <1>1, <1>2 DEF Staged
    <2>3. taken' = [i \in 1 .. k |-> Staged[i]] BY <2>1, <2>2
    <2> HIDE DEF k, p
    <2> QED BY <2>3, <1>2, <1>1, <1>7
  <1>9. Staged' = Remaining(Staged)
    <2> HIDE DEF k, p
    <2>1. Staged' = [i \in 1 .. p - k |-> sqes[((h + i - 1) % Modulus) % Entries]]
      BY <1>3, <1>5 DEF Staged, SqeAt
    <2>2. ASSUME NEW i \in 1 .. p - k
          PROVE  sqes[((h + i - 1) % Modulus) % Entries] = Staged[k + i]
      <3>1. i - 1 \in Int /\ h + (i - 1) = h + i - 1 /\ head + k + (i - 1) = head + (k + i) - 1
        BY <1>1, <1>2, <1>4 DEF Index
      <3>2. (h + (i - 1)) % Modulus = (head + k + (i - 1)) % Modulus BY <3>1, <1>4
      <3>3. (h + i - 1) % Modulus = (head + (k + i) - 1) % Modulus BY <3>1, <3>2
      <3>4. k + i \in 1 .. Pending BY <1>1, <1>2 DEF p
      <3>5. Staged[k + i] = sqes[((head + (k + i) - 1) % Modulus) % Entries]
        BY <3>4 DEF Staged, SqeAt
      <3> QED BY <3>3, <3>5
    <2>3. Staged' = [i \in 1 .. p - k |-> Staged[k + i]] BY <2>1, <2>2
    <2>4. Remaining(Staged) = SubSeq(Staged, k + 1, p) BY <1>7 DEF Remaining
    <2>5. SubSeq(Staged, k + 1, p) = [i \in 1 .. p - k |-> Staged[k + i]] BY <1>1, <1>2, <1>7
    <2> QED BY <2>3, <2>4, <2>5
  <1> QED BY <1>6, <1>8, <1>9

-----------------------------------------------------------------------------
LEMMA RingStep ==
  ASSUME RingInv, [RNext]_ring
  PROVE  RingInv' /\ [Queue!QNext]_<<Staged, taken>>
  <1>1. CASE UNCHANGED ring
    BY <1>1 DEF ring, RingInv, RingTypeOK, Pending, LapBound, Staged, SqeAt
  <1>2. CASE \E a \in Awt, needed \in {1, 2} : RStage(a, needed)
    <2> PICK a \in Awt, needed \in {1, 2} : RStage(a, needed) BY <1>2
    <2>1. RingInv' /\ HasCapacity(Staged, needed) /\ Staged' = Stage(Staged, a, needed) BY StageStep
    <2>2. taken' = taken BY DEF RStage
    <2>3. Queue!QStage(a, needed)
      BY <2>1, <2>2 DEF Queue!QStage, Queue!HasCapacity, HasCapacity, Queue!Stage, Stage,
         Queue!Commit, Commit, Queue!Op, Op, Queue!LinkTimeout, LinkTimeout
    <2> QED BY <2>1, <2>3 DEF Queue!QNext
  <1>3. CASE RArm
    <2>1. Queue!QArm
      BY <1>3, ArmStep DEF RArm, Queue!QArm, Queue!Arm, Arm, Queue!Commit, Commit,
         Queue!EventfdRead, EventfdRead
    <2> QED BY <1>3, <2>1, ArmStep DEF Queue!QNext
  <1>4. CASE REnter
    <2>1. Queue!QEnter
      BY <1>4, EnterStep DEF Queue!QEnter, Queue!Submittable, Submittable, Queue!Remaining, Remaining
    <2> QED BY <1>4, <2>1, EnterStep DEF Queue!QNext
  <1> QED BY <1>1, <1>2, <1>3, <1>4 DEF RNext

(* The indices stay in range and has_capacity's sum never wraps, whatever   *)
(* is staged, armed and submitted, for every ring depth and index width.    *)
THEOREM RingTyped == RSpec => []RingTypeOK
  <1>1. RInit => RingInv BY InitHolds
  <1>2. RingInv /\ [RNext]_ring => RingInv' BY RingStep
  <1>3. RingInv => RingTypeOK BY DEF RingInv
  <1> QED BY <1>1, <1>2, <1>3, PTL DEF RSpec

(* The ring of awaitable.cpp and scheduler.cpp implements the queue that    *)
(* the scheduler is specified over, wrap-around of the indices included.    *)
THEOREM RingRefines == RSpec => RingIsQueue
  <1>1. RInit => RingInv /\ Queue!QInit BY InitHolds DEF RInit, Queue!QInit
  <1>2. RingInv /\ [RNext]_ring => RingInv' /\ [Queue!QNext]_<<Staged, taken>> BY RingStep
  <1> QED BY <1>1, <1>2, PTL DEF RSpec, RingIsQueue, Queue!QSpec

-----------------------------------------------------------------------------
(* A set of natural numbers has a least element. *)
LEMMA NatMin ==
  ASSUME NEW T \in SUBSET Nat, T # {}
  PROVE  \E x \in T : \A y \in T : x <= y
<1> DEFINE R == OpToRel(<, Nat)
<1>1. R = {ss \in Nat \X Nat : ss[1] < ss[2]} BY DEF OpToRel
<1>2. IsWellFoundedOn(R, Nat) BY NatLessThanWellFounded
<1> HIDE DEF R
<1>3. PICK x \in T : \A y \in T : ~ (<<y, x>> \in R) BY Zenon, <1>2, WFMin
<1>4. \A y \in Nat, z \in Nat : y < z => <<y, z>> \in R BY <1>1
<1>5. \A y \in T : ~(y < x) BY Zenon, <1>3, <1>4
<1> QED BY <1>5

LEMMA HalfPower ==
  ASSUME NEW p \in Nat \ {0}, IsPowerOfTwo(2 * p) PROVE IsPowerOfTwo(p)
<1> SUFFICES ASSUME NEW d \in 1 .. p, NEW e \in 1 .. p, d * e = p PROVE d = 1 \/ d % 2 = 0
  BY DEF IsPowerOfTwo
<1>1. d * (2 * e) = 2 * (d * e) OBVIOUS
<1>2. d \in 1 .. 2 * p /\ 2 * e \in 1 .. 2 * p OBVIOUS
<1> QED BY Zenon, <1>1, <1>2 DEF IsPowerOfTwo

LEMMA DoublePower ==
  ASSUME NEW p \in Nat \ {0}, IsPowerOfTwo(p) PROVE IsPowerOfTwo(2 * p)
<1> SUFFICES ASSUME NEW d \in 1 .. 2 * p, NEW e \in 1 .. 2 * p, d * e = 2 * p, d % 2 # 0 PROVE d = 1
  BY DEF IsPowerOfTwo
<1>1. PICK h \in Nat : d = 2 * h + 1
  <2>1. d = 2 * (d \div 2) + (d % 2) /\ d \div 2 \in Nat /\ d % 2 = 1
    <3>1. d \in Int /\ 2 \in Nat \ {0} OBVIOUS
    <3>2. d \div 2 \in Int /\ d % 2 \in Int /\ 0 <= d % 2 /\ d % 2 < 2 /\ d = 2 * (d \div 2) + (d % 2)
      BY <3>1, DivMod
    <3> QED BY <3>2
  <2> QED BY <2>1
<1>2. d * e = 2 * (h * e) + e BY <1>1
<1>3. PICK f \in Nat : e = 2 * f
  <2>1. h * e \in Nat BY <1>1
  <2>2. e = 2 * (p - h * e) /\ p - h * e \in Nat BY <1>2, <2>1
  <2> QED BY <2>2
<1>4. d * e = 2 * (d * f) BY <1>3
<1>5. d * f = p /\ f \in 1 .. p
  <2>1. d * f \in Nat BY <1>3
  <2>2. d * f = p BY <1>4, <2>1
  <2> QED BY <1>3, <2>2
<1>6. d \in 1 .. p
  <2>1. d * f = d + d * (f - 1) /\ d * (f - 1) \in Nat BY <1>5
  <2> QED BY <1>5, <2>1
<1> QED BY <1>5, <1>6 DEF IsPowerOfTwo

LEMMA EvenPower ==
  ASSUME NEW p \in Nat, p > 1, IsPowerOfTwo(p)
  PROVE  \E h \in Nat \ {0} : p = 2 * h /\ IsPowerOfTwo(h)
<1>1. p * 1 = p /\ p \in 1 .. p /\ 1 \in 1 .. p OBVIOUS
<1>2. p % 2 = 0 BY <1>1 DEF IsPowerOfTwo
<1>3. p = 2 * (p \div 2) /\ p \div 2 \in Nat \ {0} BY <1>2
<1> QED BY <1>3, HalfPower

LEMMA OnePower == IsPowerOfTwo(1)
BY DEF IsPowerOfTwo

(* Two powers of two are a factor of two apart. *)
LEMMA PowersApart ==
  ASSUME NEW p \in Nat \ {0}, NEW q \in Nat, IsPowerOfTwo(p), IsPowerOfTwo(q), p < q
  PROVE  2 * p <= q
<1> DEFINE T == {n \in Nat \ {0} : \E m \in Nat : IsPowerOfTwo(n) /\ IsPowerOfTwo(m) /\ n < m /\ m < 2 * n}
<1> SUFFICES ASSUME T # {} PROVE FALSE OBVIOUS
<1>1. PICK n \in T : \A k \in T : n <= k BY Zenon, NatMin
<1>2. PICK m \in Nat : n \in Nat \ {0} /\ IsPowerOfTwo(n) /\ IsPowerOfTwo(m) /\ n < m /\ m < 2 * n BY <1>1
<1>3. n > 1 /\ m > 1 BY <1>2
<1>4. PICK h \in Nat \ {0} : n = 2 * h /\ IsPowerOfTwo(h) BY <1>2, <1>3, EvenPower
<1>5. PICK g \in Nat \ {0} : m = 2 * g /\ IsPowerOfTwo(g) BY <1>2, <1>3, EvenPower
<1>6. h < g /\ g < 2 * h /\ h < n BY <1>2, <1>4, <1>5
<1>7. h \in T BY <1>4, <1>5, <1>6
<1> QED BY <1>1, <1>2, <1>6, <1>7

(* There is a power of two between n and 2 * n. *)
LEMMA PowerExists ==
  ASSUME NEW n \in Nat \ {0}
  PROVE  \E p \in n .. 2 * n - 1 : IsPowerOfTwo(p)
<1> DEFINE T == {k \in Nat \ {0} : ~\E p \in k .. 2 * k - 1 : IsPowerOfTwo(p)}
<1> SUFFICES ASSUME T # {} PROVE FALSE OBVIOUS
<1>1. PICK k \in T : \A i \in T : k <= i BY Zenon, NatMin
<1>2. k \in Nat /\ k > 1
  <2>1. 1 \in 1 .. 2 * 1 - 1 OBVIOUS
  <2> QED BY <1>1, <2>1, OnePower
<1>3. PICK m \in Nat \ {0} : m < k /\ (k = 2 * m \/ k = 2 * m - 1)
  <2>1. CASE k % 2 = 0 /\ k = 2 * (k \div 2) BY <1>2, <2>1
  <2>2. CASE k % 2 = 1 /\ k = 2 * (k \div 2) + 1
    <3>1. k \div 2 \in Nat BY <1>2
    <3> WITNESS k \div 2 + 1 \in Nat \ {0}
    <3> QED BY <1>2, <2>2, <3>1
  <2> QED BY <1>2, <2>1, <2>2
<1>4. m \notin T BY <1>1, <1>2, <1>3
<1>5. PICK p \in m .. 2 * m - 1 : IsPowerOfTwo(p) BY <1>4
<1>6. p \in Nat \ {0} /\ IsPowerOfTwo(2 * p) BY <1>5, DoublePower
<1>7. 2 * p >= k BY <1>3, <1>5
<1>8. 2 * p <= 2 * k - 1
  <2>1. CASE k = 2 * m BY <2>1, <1>3, <1>5
  <2>2. CASE k = 2 * m - 1 /\ p = 1 BY <2>2, <1>2
  <2>3. CASE k = 2 * m - 1 /\ p > 1
    <3>1. PICK h \in Nat \ {0} : p = 2 * h BY <1>5, <1>6, <2>3, EvenPower
    <3> QED BY <3>1, <2>3, <1>3, <1>5
  <2> QED BY <1>3, <1>6, <2>1, <2>2, <2>3
<1>9. 2 * p \in k .. 2 * k - 1 BY <1>2, <1>6, <1>7, <1>8
<1> QED BY <1>1, <1>6, <1>9

LEMMA Rounded ==
  ASSUME NEW n \in Nat \ {0}
  PROVE  /\ PowerOfTwo(n) \in n .. 2 * n - 1 /\ IsPowerOfTwo(PowerOfTwo(n))
         /\ PowerOfTwo(2 * n) = 2 * PowerOfTwo(n)
<1>1. \A m \in Nat \ {0} : PowerOfTwo(m) \in m .. 2 * m - 1 /\ IsPowerOfTwo(PowerOfTwo(m))
  BY Zenon, PowerExists DEF PowerOfTwo
<1> DEFINE p == PowerOfTwo(n)
           q == PowerOfTwo(2 * n)
<1>2. p \in n .. 2 * n - 1 /\ IsPowerOfTwo(p) BY <1>1
<1>3. q \in 2 * n .. 2 * (2 * n) - 1 /\ IsPowerOfTwo(q)
  <2>1. 2 * n \in Nat \ {0} OBVIOUS
  <2> QED BY <1>1, <2>1
<1> HIDE DEF p, q
<1>4. p \in Nat \ {0} /\ 2 * p \in Nat \ {0} /\ q \in Nat \ {0} BY <1>2, <1>3
<1>5. IsPowerOfTwo(2 * p) BY <1>2, <1>4, DoublePower
<1>6. ~(2 * p < q) BY <1>2, <1>3, <1>4, <1>5, PowersApart
<1>7. ~(q < 2 * p) BY <1>2, <1>3, <1>4, <1>5, PowersApart
<1>8. q = 2 * p BY <1>4, <1>6, <1>7
<1> QED BY <1>2, <1>8 DEF p, q

-----------------------------------------------------------------------------
(* What is held at every step of the constructors: each member so far names *)
(* a resource of its own, but for a shared CQ, and nothing else is live.    *)
Held(step) ==
  {"fd"} \cup (IF step = "sq" THEN {} ELSE {"sq"})
         \cup (IF step \in {"sq", "sqes"} THEN {} ELSE {"sqes"})
         \cup (IF step \in {"eventfd", "ready"} /\ ~params.single THEN {"cq"} ELSE {})
         \cup (IF step = "ready" THEN {"eventfd"} ELSE {})

Measured(step) ==
  /\ "sq" \in Held(step) => size["sq"] = SqMapSize
  /\ "sqes" \in Held(step) => size["sqes"] = SqesMapSize
  /\ IF "cq" \in Held(step) THEN size["cq"] = CqMapSize ELSE size["cq"] = 0

Sized ==
  /\ params.sq_entries \in Nat /\ params.cq_entries \in Nat /\ params.single \in BOOLEAN
  /\ params.cqes = Header
  /\ params.array = IF params.single THEN Header + params.cq_entries * CqeSize ELSE Header

Steps == {"sq", "sqes", "cq", "eventfd", "ready"}

(* The part of the invariant that holds once io_uring_setup has succeeded. *)
Open ==
  /\ phase \in Steps /\ Sized /\ Measured(phase)
  /\ live = Held(phase)
  /\ \A m \in Held(phase) : io[m] = m
  /\ phase \in {"eventfd", "ready"} /\ params.single => io["cq"] = "sq"

IoInv ==
  /\ bad = FALSE /\ entries \in Nat
  /\ io \in [Members -> Members \cup {"null"}] /\ size \in [{"sq", "sqes", "cq"} -> Int]
  /\ \/ phase \in {"none", "setup"} /\ live = {} /\ size = NoSizes /\ (phase = "setup" => entries # 0)
     \/ Open

LEMMA ClampedSize ==
  ASSUME NEW n \in Nat \ {0}, NEW most \in Nat \ {0}
  PROVE  /\ Clamped(n, most) \in Nat /\ IsPowerOfTwo(Clamped(n, most))
         /\ Clamped(n, most) >= IF n > most THEN most ELSE n
<1> DEFINE m == IF n > most THEN most ELSE n
<1>1. m \in Nat \ {0} OBVIOUS
<1> HIDE DEF m
<1>2. PowerOfTwo(m) \in m .. 2 * m - 1 /\ IsPowerOfTwo(PowerOfTwo(m)) BY <1>1, Rounded
<1>3. PowerOfTwo(m) \in Nat /\ PowerOfTwo(m) >= m BY <1>1, <1>2
<1> QED BY <1>2, <1>3 DEF Clamped, m

LEMMA ParamsSized ==
  ASSUME NEW n \in Nat \ {0}, CqRequest(n) # 0, NEW single \in BOOLEAN
  PROVE  LET p == Params(n, single) IN
         /\ p.sq_entries \in Nat /\ p.cq_entries \in Nat /\ p.single = single /\ p.cqes = Header
         /\ p.array = IF single THEN Header + p.cq_entries * CqeSize ELSE Header
<1>1. CqRequest(n) \in Nat \ {0} BY Sizes, DivMod DEF CqRequest
<1>2. MaxSq \in Nat \ {0} BY RequestsAssumption
<1>3. Clamped(n, MaxSq) \in Nat BY <1>2, ClampedSize
<1>4. Clamped(CqRequest(n), 2 * MaxSq) \in Nat
  <2>1. 2 * MaxSq \in Nat \ {0} BY <1>2
  <2> QED BY <1>1, <2>1, ClampedSize
<1> QED BY <1>3, <1>4 DEF Params

LEMMA MapSizes == ASSUME Sized
  PROVE SqMapSize \in Int /\ SqesMapSize \in Int /\ CqMapSize \in Int /\ CqMapSize > 0
BY DEF Sized, SqMapSize, SqesMapSize, CqMapSize, Header, CqeSize, SqeSize

LEMMA IoInit == ASSUME Init PROVE IoInv
BY DEF Init, IoInv, NoIo, NoSizes, Members

(* Releasing exactly what is held, when every member names its own. *)
LEMMA GoneHolds ==
  ASSUME IoInv, NEW members, Gone(members), members = live, \A m \in members : io[m] = m,
         entries' = entries
  PROVE  IoInv'
<1>1. live' = {} BY DEF Gone, Release
<1>2. bad' = FALSE
  <2>1. ~\E m \in members : io[m] \notin live \/ \E o \in members \ {m} : io[o] = io[m] OBVIOUS
  <2>2. bad = FALSE BY DEF IoInv
  <2> QED BY <2>1, <2>2, Zenon DEF Gone, Release
<1> QED BY <1>1, <1>2 DEF Gone, IoInv, NoIo, NoSizes, Members

LEMMA AcquireHolds ==
  ASSUME IoInv, Open, NEW m \in Members \ Held(phase), NEW next \in Steps, Acquire(m, next),
         Held(next) = Held(phase) \cup {m}, params' = params, entries' = entries,
         size' \in [{"sq", "sqes", "cq"} -> Int], Measured(next)',
         next \in {"eventfd", "ready"} /\ params.single => io["cq"] = "sq"  /\ m # "cq"
  PROVE  IoInv'
<1>1. Sized' BY DEF Open, Sized
<1>2. io' \in [Members -> Members \cup {"null"}] /\ bad' = FALSE /\ phase' = next BY DEF Acquire, IoInv
<1>3. Held(next)' = Held(next) BY DEF Held
<1>4. live' = Held(next) /\ \A o \in Held(next) : io'[o] = o
  BY DEF Acquire, Open, IoInv, Held, Members
<1>5. next \in {"eventfd", "ready"} /\ params.single => io'["cq"] = "sq" BY DEF Acquire, IoInv, Members
<1>6. Open' BY <1>1, <1>2, <1>3, <1>4, <1>5 DEF Open
<1> QED BY <1>2, <1>6 DEF IoInv

LEMMA IoStep == ASSUME IoInv, [Next]_vars PROVE IoInv'
<1>1. ASSUME NEW n \in Requests, Construct(n) PROVE IoInv'
  <2>1. n \in Nat BY RequestsAssumption DEF Index
  <2> QED BY <1>1, <2>1 DEF Construct, IoInv, Open, Steps
<1>2. CASE Setup
  <2>1. PICK single \in BOOLEAN : params' = Params(entries, single) BY <1>2 DEF Setup
  <2>2. entries \in Nat \ {0} /\ CqRequest(entries) # 0 /\ live = {} /\ size = NoSizes
    BY <1>2 DEF Setup, Accepted, IoInv, Open, Steps
  <2>3. Sized' BY <2>1, <2>2, ParamsSized DEF Sized
  <2>4. /\ phase' = "sq" /\ live' = {"fd"} /\ io' = [io EXCEPT !["fd"] = "fd"]
        /\ bad' = bad /\ entries' = entries /\ size' = size
    BY <1>2, <2>2 DEF Setup, Acquire
  <2>5. Held("sq")' = {"fd"} BY DEF Held
  <2>6. Measured("sq")' BY <2>2, <2>4, <2>5 DEF Measured, NoSizes
  <2>7. Open' BY <2>3, <2>4, <2>5, <2>6 DEF Open, IoInv, Members, Steps
  <2> QED BY <2>4, <2>7 DEF IoInv, Members
<1>3. CASE SetupFails
  <2>1. live = {} BY <1>3 DEF SetupFails, IoInv, Open, Steps
  <2> QED BY <1>3, <2>1, GoneHolds DEF SetupFails
<1>4. ASSUME phase \in Steps PROVE Open /\ live = Held(phase) /\ Sized
  BY <1>4 DEF IoInv, Open, Steps
<1>5. CASE MapSq
  <2>1. phase = "sq" /\ Open /\ Held("sq") = {"fd"} /\ Held("sqes") = {"fd", "sq"} /\ Sized
    BY <1>4, <1>5 DEF MapSq, Steps, Held
  <2>2. size' = [size EXCEPT !["sq"] = SqMapSize] /\ params' = params /\ entries' = entries BY <1>5 DEF MapSq
  <2>3. SqMapSize \in Int /\ SqMapSize' = SqMapSize BY <2>1, <2>2, MapSizes DEF SqMapSize
  <2>4. size' \in [{"sq", "sqes", "cq"} -> Int] BY Zenon, <2>2, <2>3 DEF IoInv
  <2>5. Measured("sqes")' BY <2>1, <2>2, <2>3 DEF Measured, Held, Open, IoInv
  <2> QED BY Zenon, <1>5, <2>1, <2>2, <2>4, <2>5, AcquireHolds DEF MapSq, Steps, Members
<1>6. CASE MapSqFails
  <2>1. live = {"fd"} /\ \A m \in live : io[m] = m BY <1>4, <1>6 DEF MapSqFails, Steps, Held, Open
  <2> QED BY <1>6, <2>1, GoneHolds DEF MapSqFails
<1>7. CASE MapSqes
  <2>1. phase = "sqes" /\ Open /\ Held("sqes") = {"fd", "sq"} /\ Held("cq") = {"fd", "sq", "sqes"} /\ Sized
    BY <1>4, <1>7 DEF MapSqes, Steps, Held
  <2>2. size' = [size EXCEPT !["sqes"] = SqesMapSize] /\ params' = params /\ entries' = entries
    BY <1>7 DEF MapSqes
  <2>3. SqesMapSize \in Int /\ SqesMapSize' = SqesMapSize /\ SqMapSize' = SqMapSize
    BY <2>1, <2>2, MapSizes DEF SqMapSize, SqesMapSize
  <2>4. size' \in [{"sq", "sqes", "cq"} -> Int] BY Zenon, <2>2, <2>3 DEF IoInv
  <2>5. Measured("cq")' BY <2>1, <2>2, <2>3 DEF Measured, Held, Open, IoInv
  <2> QED BY Zenon, <1>7, <2>1, <2>2, <2>4, <2>5, AcquireHolds DEF MapSqes, Steps, Members
<1>8. CASE MapSqesFails
  <2>1. live = {"sq", "fd"} /\ \A m \in live : io[m] = m BY <1>4, <1>8 DEF MapSqesFails, Steps, Held, Open
  <2> QED BY <1>8, <2>1, GoneHolds DEF MapSqesFails
<1>9. CASE ShareCq
  <2>1. phase = "cq" /\ Open /\ Held("cq") = {"fd", "sq", "sqes"} /\ params.single
    BY <1>4, <1>9 DEF ShareCq, Steps, Held
  <2>2. /\ io' = [io EXCEPT !["cq"] = "sq"] /\ phase' = "eventfd" /\ live' = live
        /\ UNCHANGED <<entries, params, size, bad>>
    BY Zenon, <1>9, <2>1 DEF ShareCq, Open
  <2>3. Held("eventfd")' = Held("cq") BY <2>1, <2>2 DEF Held
  <2>4. Measured("eventfd")' /\ Sized'
    BY Zenon, <2>1, <2>2, <2>3 DEF Measured, Open, Sized, SqMapSize, SqesMapSize, CqMapSize
  <2>5. Open' BY <2>1, <2>2, <2>3, <2>4 DEF Open, IoInv, Members, Steps
  <2> QED BY <2>2, <2>5 DEF IoInv, Members
<1>10. CASE MapCq
  <2>1. /\ phase = "cq" /\ Open /\ Held("cq") = {"fd", "sq", "sqes"} /\ Sized /\ ~params.single
        /\ Held("eventfd") = {"fd", "sq", "sqes", "cq"}
    BY <1>4, <1>10 DEF MapCq, Steps, Held
  <2>2. size' = [size EXCEPT !["cq"] = CqMapSize] /\ params' = params /\ entries' = entries
    BY <1>10 DEF MapCq
  <2>3. /\ CqMapSize \in Int /\ SqesMapSize' = SqesMapSize /\ SqMapSize' = SqMapSize
        /\ CqMapSize' = CqMapSize
    BY <2>1, <2>2, MapSizes DEF SqMapSize, SqesMapSize, CqMapSize
  <2>4. size' \in [{"sq", "sqes", "cq"} -> Int] BY <2>2, <2>3 DEF IoInv
  <2>5. Measured("eventfd")' BY <2>1, <2>2, <2>3 DEF Measured, Held, Open, IoInv
  <2> QED BY Zenon, <1>10, <2>1, <2>2, <2>4, <2>5, AcquireHolds DEF MapCq, Steps, Members
<1>11. CASE MapCqFails
  <2>1. live = {"sqes", "sq", "fd"} /\ \A m \in live : io[m] = m
    BY Zenon, <1>4, <1>11 DEF MapCqFails, Steps, Held, Open
  <2> QED BY <1>11, <2>1, GoneHolds DEF MapCqFails
<1>12. CASE MakeScheduler
  <2>1. /\ phase = "eventfd" /\ Open /\ Held("ready") = Held("eventfd") \cup {"eventfd"}
        /\ "eventfd" \notin Held("eventfd")
    BY <1>4, <1>12 DEF MakeScheduler, Steps, Held
  <2>2. size' = size /\ params' = params /\ entries' = entries BY Zenon, <1>12 DEF MakeScheduler
  <2>3. Measured("ready")'
    BY <2>1, <2>2 DEF Measured, Held, Open, SqMapSize, SqesMapSize, CqMapSize
  <2>4. size' \in [{"sq", "sqes", "cq"} -> Int] BY <2>2 DEF IoInv
  <2>5. params.single => io["cq"] = "sq" BY <2>1 DEF Open
  <2> QED BY Zenon, <1>12, <2>1, <2>2, <2>3, <2>4, <2>5, AcquireHolds DEF MakeScheduler, Steps, Members
<1>13. ASSUME phase \in {"eventfd", "ready"}
       PROVE  Dtor = live \ {"eventfd"} /\ \A m \in live : io[m] = m
  <2>1. Open /\ Sized BY <1>4, <1>13 DEF Steps
  <2>2. CqMapSize > 0 BY <2>1, MapSizes
  <2>3. "cq" \in Dtor <=> ~params.single
    BY <1>13, <2>1, <2>2 DEF Dtor, Open, Measured, Held, Sized
  <2>4. Dtor = {"sqes", "sq", "fd"} \cup (IF params.single THEN {} ELSE {"cq"}) BY <2>3 DEF Dtor
  <2> QED BY <1>13, <2>1, <2>4 DEF Open, Held
<1>14. CASE EventfdFails
  <2>1. "eventfd" \notin live BY <1>4, <1>14 DEF EventfdFails, Steps, Held
  <2> QED BY <1>13, <1>14, <2>1, GoneHolds DEF EventfdFails
<1>15. CASE Destroy
  <2>1. "eventfd" \in live BY <1>4, <1>15 DEF Destroy, Steps, Held
  <2>2. Dtor \cup {"eventfd"} = live BY Zenon, <1>13, <1>15, <2>1 DEF Destroy
  <2> QED BY <1>13, <1>15, <2>2, GoneHolds DEF Destroy
<1>16. CASE Use \/ UNCHANGED vars
  <2>1. UNCHANGED <<phase, entries, params, io, size, live, bad>> BY <1>16 DEF Use, vars
  <2> QED BY <2>1 DEF IoInv, Open, Measured, Held, Sized, SqMapSize, SqesMapSize, CqMapSize
<1> QED BY Zenon, <1>1, <1>2, <1>3, <1>5, <1>6, <1>7, <1>8, <1>9, <1>10, <1>11, <1>12, <1>14, <1>15, <1>16 DEF Next

-----------------------------------------------------------------------------
(* Every failure path of IO::IO and Scheduler::Scheduler, and the           *)
(* destructors, release each descriptor and mapping once and leave nothing. *)
THEOREM ResourcesReleased == Spec => []ReleasedOnce
<1>1. Init => IoInv BY IoInit
<1>2. IoInv /\ [Next]_vars => IoInv' BY IoStep
<1>3. IoInv => ReleasedOnce BY Zenon DEF IoInv, Open, Steps, ReleasedOnce
<1> QED BY <1>1, <1>2, <1>3, PTL DEF Spec

(* While the ring is in use everything it is read through is mapped, and    *)
(* long enough, with a shared CQ mapping as with one of its own.            *)
THEOREM MappingsLong == Spec => []MappingsCover
<1>1. Init => IoInv BY IoInit
<1>2. IoInv /\ [Next]_vars => IoInv' BY IoStep
<1>3. IoInv => MappingsCover
  <2> SUFFICES ASSUME IoInv, phase = "ready" PROVE MappingsCover BY DEF MappingsCover
  <2>1. Open BY DEF IoInv
  <2>2. Sized /\ live = Held("ready") /\ (\A m \in live : io[m] = m) BY <2>1 DEF Open
  <2>3. size["sq"] = SqMapSize /\ size["sqes"] = SqesMapSize BY <2>1 DEF Open, Measured, Held
  <2>4. io["cq"] \in {"sq", "cq"} /\ (io["cq"] = "cq" <=> ~params.single)
    BY <2>1, <2>2 DEF Open, Held, Sized
  <2>5. {io[m] : m \in Members} \subseteq live BY <2>2, <2>4 DEF Members, Held
  <2>6. params.cqes + params.cq_entries * CqeSize <= size[io["cq"]]
    <3>1. CASE params.single BY <2>2, <2>3, <2>4, <3>1 DEF Sized, SqMapSize, Header, CqeSize
    <3>2. CASE ~params.single
      <4>1. size["cq"] = CqMapSize BY <2>1, <3>2 DEF Open, Measured, Held
      <4> QED BY <2>2, <2>4, <3>2, <4>1 DEF Sized, CqMapSize, Header, CqeSize
    <3> QED BY Zenon, <2>2, <3>1, <3>2 DEF Sized
  <2>7. params.array + params.sq_entries <= size["sq"] /\ params.sq_entries * SqeSize <= size["sqes"]
    BY <2>2, <2>3 DEF Sized, SqMapSize, SqesMapSize, Header, CqeSize, SqeSize
  <2> QED BY <2>5, <2>6, <2>7 DEF MappingsCover
<1> QED BY <1>1, <1>2, <1>3, PTL DEF Spec

(* The ring has the sizes that were computed for the depth asked for. *)
ParamsInv ==
  phase \in Steps => Accepted(entries) /\ \E single \in BOOLEAN : params = Params(entries, single)

LEMMA ParamsStep == ASSUME IoInv, ParamsInv, [Next]_vars PROVE ParamsInv'
<1>1. ASSUME UNCHANGED <<entries, params>>, phase' \in Steps => phase \in Steps PROVE ParamsInv'
  BY <1>1 DEF ParamsInv, Accepted, CqRequest, Clamped, Params
<1>2. CASE Setup BY <1>2 DEF Setup, ParamsInv
<1>3. ASSUME phase' \notin Steps PROVE ParamsInv' BY <1>3 DEF ParamsInv
<1>4. ASSUME NEW n \in Requests, Construct(n) PROVE ParamsInv'
  BY Zenon, <1>3, <1>4 DEF Construct, Steps
<1>5. CASE MapSq \/ MapSqes \/ MapCq \/ ShareCq \/ MakeScheduler \/ Use \/ UNCHANGED vars
  BY <1>1, <1>5 DEF MapSq, MapSqes, MapCq, ShareCq, MakeScheduler, Use, vars, Acquire, Steps
<1>6. ASSUME NEW members, Gone(members) PROVE ParamsInv' BY <1>3, <1>6 DEF Gone, Steps
<1>7. CASE SetupFails \/ MapSqFails \/ MapSqesFails \/ MapCqFails \/ EventfdFails \/ Destroy
  BY Zenon, <1>6, <1>7 DEF SetupFails, MapSqFails, MapSqesFails, MapCqFails, EventfdFails, Destroy
<1> QED BY Zenon, <1>2, <1>4, <1>5, <1>7 DEF Next

(* A completion queue of twice the size, unless entries * 2 wraps. *)
LEMMA Doubled ==
  ASSUME NEW n \in Nat \ {0}, n < Modulus \div 2
  PROVE  Clamped(CqRequest(n), 2 * MaxSq) = 2 * Clamped(n, MaxSq)
<1>1. MaxSq \in Nat \ {0} BY RequestsAssumption
<1>2. CqRequest(n) = 2 * n
  <2>1. Modulus \in Nat \ {0} BY Sizes
  <2>2. /\ Modulus \div 2 \in Int /\ Modulus % 2 \in Int /\ 0 <= Modulus % 2
        /\ Modulus = 2 * (Modulus \div 2) + (Modulus % 2)
    <3>1. Modulus \in Int /\ 2 \in Nat \ {0} BY <2>1
    <3> QED BY <3>1, DivMod
  <2>3. n * 2 \in Nat /\ n * 2 < Modulus /\ n * 2 = 2 * n BY <2>1, <2>2
  <2> QED BY <2>1, <2>3, ModSmall DEF CqRequest
<1> DEFINE m == IF n > MaxSq THEN MaxSq ELSE n
<1>3. m \in Nat \ {0} /\ 2 * m = IF 2 * n > 2 * MaxSq THEN 2 * MaxSq ELSE 2 * n BY <1>1
<1>4. Clamped(n, MaxSq) = PowerOfTwo(m) /\ Clamped(2 * n, 2 * MaxSq) = PowerOfTwo(2 * m)
  BY <1>3 DEF Clamped
<1> HIDE DEF m
<1> QED BY <1>2, <1>3, <1>4, Rounded

(* IO::IO gets the depth it asks for, up to the kernel's limit, and twice   *)
(* as many completions unless entries * 2 wraps, for every depth.           *)
THEOREM SizesAsAsked == Spec => []RingSizes
<1>1. Init => IoInv /\ ParamsInv
  <2>1. Init => ParamsInv BY DEF Init, ParamsInv, Steps
  <2> QED BY <2>1, IoInit
<1>2. IoInv /\ ParamsInv /\ [Next]_vars => IoInv' /\ ParamsInv' BY IoStep, ParamsStep
<1>3. IoInv /\ ParamsInv => RingSizes
  <2> SUFFICES ASSUME IoInv, ParamsInv, phase = "ready" PROVE RingSizes BY DEF RingSizes
  <2>1. /\ Accepted(entries) /\ params.sq_entries = Clamped(entries, MaxSq)
        /\ params.cq_entries = Clamped(CqRequest(entries), 2 * MaxSq)
    BY DEF ParamsInv, Steps, Params
  <2>2. entries \in Nat \ {0} /\ MaxSq \in Nat \ {0}
    <3>1. entries # 0
      <4>1. CqRequest(0) = 0
        <5>1. 0 * 2 = 0 /\ 0 \in Nat /\ Modulus \in Nat \ {0} /\ 0 < Modulus BY Sizes
        <5> QED BY <5>1, ModSmall DEF CqRequest
      <4> QED BY <2>1, <4>1 DEF Accepted
    <3> QED BY <3>1, RequestsAssumption DEF IoInv
  <2>3. /\ params.sq_entries >= IF entries > MaxSq THEN MaxSq ELSE entries
        /\ IsPowerOfTwo(params.sq_entries)
    BY <2>1, <2>2, ClampedSize
  <2>4. entries < Modulus \div 2 => params.cq_entries = 2 * params.sq_entries BY <2>1, <2>2, Doubled
  <2>5. params.cq_entries >= params.sq_entries BY <2>1 DEF Accepted
  <2> QED BY <2>3, <2>4, <2>5 DEF RingSizes
<1> QED BY <1>1, <1>2, <1>3, PTL DEF Spec

LEMMA NewRingHolds == ASSUME NewRing PROVE RingInv' /\ Staged' = <<>> /\ taken' = <<>>
<1>1. Pending' = 0
  <2>1. 0 % Modulus = 0 BY Sizes, ModSmall
  <2> QED BY <2>1 DEF NewRing, Pending
<1>2. RingTypeOK' BY Sizes DEF NewRing, RingTypeOK, Index, Slot, Sqe
<1>3. Staged' = <<>> BY <1>1 DEF Staged
<1> QED BY <1>1, <1>2, <1>3, Sizes DEF RingInv, NewRing, LapBound

LEMMA RingStays ==
  ASSUME RingInv, [Next]_vars
  PROVE  RingInv' /\ [Queue!QNext]_<<Staged, taken>>
<1>1. CASE NewRing BY <1>1, NewRingHolds DEF Queue!QNext, Queue!QNew
<1>2. CASE RNext BY <1>2, RingStep
<1>3. CASE UNCHANGED ring BY Zenon, <1>3, RingStep
<1>4. NewRing \/ RNext \/ UNCHANGED ring
  BY DEF Next, vars, Construct, Setup, SetupFails, MapSq, MapSqFails, MapSqes, MapSqesFails, ShareCq,
         MapCq, MapCqFails, MakeScheduler, EventfdFails, Use, Destroy
<1> QED BY <1>1, <1>2, <1>3, <1>4

(* The ring is a queue of staged SQEs throughout, empty again each time an  *)
(* IO is set up or destroyed.                                               *)
THEOREM RingOfEveryIo == Spec => RingIsQueue
<1>1. Init => RingInv /\ Queue!QInit BY InitHolds DEF Init, RInit, Queue!QInit
<1>2. RingInv /\ [Next]_vars => RingInv' /\ [Queue!QNext]_<<Staged, taken>> BY RingStays
<1> QED BY <1>1, <1>2, PTL DEF Spec, RingIsQueue, Queue!QSpec

(* Every variable keeps its type, the indices of the ring among them.       *)
THEOREM IoTypes == Spec => []TypeOK
<1>1. Init => RingInv /\ IoInv /\ entries \in Index
  <2>1. Init => entries \in Index BY Sizes DEF Init, Index
  <2> QED BY Zenon, <2>1, InitHolds, IoInit DEF Init
<1>2. RingInv /\ IoInv /\ entries \in Index /\ [Next]_vars => RingInv' /\ IoInv' /\ (entries \in Index)'
  <2> SUFFICES ASSUME RingInv, IoInv, entries \in Index, [Next]_vars
               PROVE  RingInv' /\ IoInv' /\ entries' \in Index
    OBVIOUS
  <2>1. entries' = entries \/ \E n \in Requests : Construct(n)
    BY DEF Next, vars, Setup, SetupFails, MapSq, MapSqFails, MapSqes, MapSqesFails, ShareCq,
           MapCq, MapCqFails, MakeScheduler, EventfdFails, Use, Destroy
  <2>2. entries' \in Index BY <2>1, RequestsAssumption DEF Construct
  <2> QED BY <2>2, IoStep, RingStays
<1>3. RingInv /\ IoInv /\ entries \in Index => TypeOK
  BY Zenon DEF RingInv, IoInv, Open, Steps, TypeOK, Held, Members
<1> QED BY <1>1, <1>2, <1>3, PTL DEF Spec
=============================================================================
