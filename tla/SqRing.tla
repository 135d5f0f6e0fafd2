------------------------------- MODULE SqRing -------------------------------
(***************************************************************************)
(* The submission ring as the code handles it: free-running 32-bit head    *)
(* and tail indices, slots addressed by index & mask, capacity computed by *)
(* unsigned subtraction.  array[idx] = idx is written with every SQE, so   *)
(* the SQE of an index is always sqes[index & mask].  Checked and proved   *)
(* to implement StagedQueue.                                               *)
(***************************************************************************)
EXTENDS SubmissionQueue

CONSTANTS
  Awt,          \* Awaitables
  Modulus       \* 2^32, the number of values of an index

ASSUME RingAssumption ==
  /\ Modulus \in Nat
  /\ Modulus > Entries + 3
  /\ Modulus % Entries = 0          \* both are powers of two

VARIABLES
  head, tail,   \* *sq.head, written by the kernel, and *sq.tail
  sqes,         \* the SQE in every slot
  taken         \* what the kernel took at the last io_uring_enter

ring == <<head, tail, sqes, taken>>

Index == 0 .. Modulus - 1
Slot  == 0 .. Entries - 1

-----------------------------------------------------------------------------
(* tail - head in uint32_t. *)
Pending == (tail - head) % Modulus

SqeAt(index) == sqes[index % Entries]        \* index & mask, mask = entries - 1

(* The refinement mapping: the SQEs from head to tail. *)
Staged == [i \in 1 .. Pending |-> SqeAt((head + i - 1) % Modulus)]

RHasCapacityUnchecked(count) == Pending <= Entries      \* mutant of RHasCapacity

(* Awaitable::has_capacity. *)
RHasCapacity(count) == (Pending + count) % Modulus <= Entries

(* commit_one() and the SQE written through what it returns. *)
Put(s, t, e) == [s EXCEPT ![t % Entries] = e]

-----------------------------------------------------------------------------
(* A ring the kernel has just set up: indices zero; what the slots hold is  *)
(* never read before it is written.                                         *)
RInit == head = 0 /\ tail = 0 /\ taken = <<>> /\ sqes = [s \in Slot |-> EventfdRead]

NewRing == head' = 0 /\ tail' = 0 /\ taken' = <<>> /\ sqes' = [s \in Slot |-> EventfdRead]

(* await_suspend: one SQE, or the operation and its LINK_TIMEOUT. *)
RStage(a, needed) ==
  /\ RHasCapacity(needed)
  /\ tail' = (tail + needed) % Modulus
  /\ sqes' = IF needed = 2 THEN Put(Put(sqes, tail, Op(a)), (tail + 1) % Modulus, LinkTimeout(a))
                           ELSE Put(sqes, tail, Op(a))
  /\ UNCHANGED <<head, taken>>

(* arm_eventfd_read asks for no capacity, so it can push tail more than a    *)
(* ring past head.  LapBound: eventfd_armed_ keeps the armings that follow   *)
(* each other without a submission to a handful, far fewer than the 2^32     *)
(* after which has_capacity's sum would wrap.                                *)
LapBound == Modulus - 3

RArmUnwrapped ==                                          \* mutant of RArm
  /\ Pending < LapBound
  /\ tail' = tail + 1
  /\ sqes' = Put(sqes, tail, EventfdRead)
  /\ UNCHANGED <<head, taken>>

RArm ==
  /\ Pending < LapBound
  /\ tail' = (tail + 1) % Modulus
  /\ sqes' = Put(sqes, tail, EventfdRead)
  /\ UNCHANGED <<head, taken>>

(* io_uring_enter of drain() or of Awaitable::submit with to_submit = tail  *)
(* - head; the kernel takes at most a ring's worth.                         *)
Taking == IF Pending <= Entries THEN Pending ELSE Entries

REnter ==
  /\ taken' = [i \in 1 .. Taking |-> SqeAt((head + i - 1) % Modulus)]
  /\ head' = (head + Taking) % Modulus
  /\ UNCHANGED <<tail, sqes>>

RNext == (\E a \in Awt, needed \in {1, 2} : RStage(a, needed)) \/ RArm \/ REnter

RSpec == RInit /\ [][RNext]_ring

-----------------------------------------------------------------------------
(* The indices and slots stay in range, whatever wraps around.              *)
RingTypeOK == head \in Index /\ tail \in Index /\ sqes \in [Slot -> Sqe(Awt)]

Queue == INSTANCE StagedQueue WITH queue <- Staged

(* The ring implements the queue: staging appends, in particular a timed    *)
(* operation and its LINK_TIMEOUT stay adjacent and in order, the kernel    *)
(* takes SQEs in the order they were staged, none twice and none skipped,   *)
(* and only arming on a full ring overwrites, all of it also when the       *)
(* indices wrap past 2^32.                                                  *)
RingIsQueue == Queue!QSpec

=============================================================================
