---------------------------- MODULE StagedQueue ----------------------------
(***************************************************************************)
(* What the submission ring promises to the rest of the library: a queue   *)
(* of staged SQEs that the kernel takes from the front, in order.  The     *)
(* Scheduler is specified over such a queue; SqRing is the ring itself.    *)
(***************************************************************************)
EXTENDS SubmissionQueue

CONSTANT Awt        \* the Awaitables that stage operations

VARIABLES
  queue,    \* staged and not yet taken by the kernel
  taken     \* what the kernel took at the last io_uring_enter

(* A new ring is empty. *)
QNew == queue' = <<>> /\ taken' = <<>>

QStage(a, needed) ==
  /\ HasCapacity(queue, needed)
  /\ queue' = Stage(queue, a, needed)
  /\ taken' = taken

QArm == queue' = Arm(queue) /\ taken' = taken

QEnter ==
  /\ taken' = SubSeq(queue, 1, Submittable(queue))
  /\ queue' = Remaining(queue)

QInit == queue = <<>> /\ taken = <<>>
QNext == QNew \/ (\E a \in Awt, needed \in {1, 2} : QStage(a, needed)) \/ QArm \/ QEnter

QSpec == QInit /\ [][QNext]_<<queue, taken>>

=============================================================================
