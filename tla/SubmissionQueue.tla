-------------------------- MODULE SubmissionQueue --------------------------
(***************************************************************************)
(* What the staging code of src/awaitable.cpp and src/scheduler.cpp does   *)
(* to the io_uring submission queue, as operators on the sequence of SQEs  *)
(* that are staged (between sq.head and sq.tail) and not yet consumed by   *)
(* the kernel.  Module SqRing keeps the ring itself (free-running indices, *)
(* mask, slots) and is checked to implement these operators.               *)
(***************************************************************************)
EXTENDS Integers, Sequences

CONSTANT Entries    \* *io_.sq.entries, the number of SQE slots

ASSUME EntriesAssumption == Entries \in Nat \ {0}

-----------------------------------------------------------------------------
(* The SQEs the library writes.  An operation carries its Awaitable as      *)
(* user_data; a LINK_TIMEOUT carries user_data 0, and the awt kept here     *)
(* only records which operation it was staged behind.                       *)
EventfdRead    == [kind |-> "eventfd"]
Op(a)          == [kind |-> "op", awt |-> a]
LinkTimeout(a) == [kind |-> "timeout", awt |-> a]

Sqe(Awt) == {EventfdRead} \cup {Op(a) : a \in Awt} \cup {LinkTimeout(a) : a \in Awt}

-----------------------------------------------------------------------------
HasCapacityForOne(q, count) == Len(q) + 1 <= Entries             \* mutant of HasCapacity

HasCapacityOffByOne(q, count) == Len(q) + count <= Entries + 1   \* mutant of HasCapacity

(* Awaitable::has_capacity, which await_suspend asks for one or two slots. *)
HasCapacity(q, count) == Len(q) + count <= Entries

(* The test Scheduler::spawn makes before it resumes a new task. *)
SqFull(q) == Len(q) >= Entries

(* commit_one() and the write of the SQE.  The slot is tail & mask, and    *)
(* every staged position a multiple of Entries before the new one is that  *)
(* same slot: a commit on a full ring overwrites the oldest staged SQE.    *)
Commit(q, e) ==
  [i \in 1 .. Len(q) + 1 |-> IF (Len(q) + 1 - i) % Entries = 0 THEN e ELSE q[i]]

(* await_suspend once it found room: the operation and, when a timeout was *)
(* set, its LINK_TIMEOUT.                                                  *)
Stage(q, a, needed) ==
  IF needed = 2 THEN Commit(Commit(q, Op(a)), LinkTimeout(a)) ELSE Commit(q, Op(a))

(* Scheduler::arm_eventfd_read commits without asking for capacity. *)
Arm(q) == Commit(q, EventfdRead)

(* How many SQEs one io_uring_enter consumes: the kernel clamps to_submit  *)
(* to the size of the ring.                                                *)
Submittable(q) == IF Len(q) <= Entries THEN Len(q) ELSE Entries

Remaining(q) == SubSeq(q, Submittable(q) + 1, Len(q))

=============================================================================
