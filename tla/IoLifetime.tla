---------------------------- MODULE IoLifetime ----------------------------
(***************************************************************************)
(* IO::IO, Scheduler::Scheduler and their destructors, over the ring they  *)
(* guard: which kernel resources are held at every step, what every        *)
(* failure path gives back, the sizes that are asked for and mapped, and   *)
(* the use of the ring in between.  One IO and its Scheduler are made and  *)
(* destroyed again and again, for every requested depth.                   *)
(***************************************************************************)
EXTENDS SqRing

CONSTANTS
  Requests,     \* the depths IO is constructed with
  MaxSq         \* IORING_MAX_ENTRIES

ASSUME RequestsAssumption == Requests \subseteq Index /\ MaxSq \in Nat \ {0}

VARIABLES
  phase,        \* "none", the constructor's next step, or "ready"
  entries,      \* IO's argument
  params,       \* what io_uring_setup filled in
  io,           \* the members fd, sq.map, sq.sqes_map, cq.map and eventfd_:
                \* the resource each one names
  size,         \* sq.map_size, sq.sqes_map_size, cq.map_size
  live,         \* kernel resources the process holds
  bad           \* a resource was released that was not held

vars == <<ring, phase, entries, params, io, size, live, bad>>

-----------------------------------------------------------------------------
(* io_uring_setup with IORING_SETUP_CQSIZE | IORING_SETUP_CLAMP: depths are  *)
(* clamped and rounded up to powers of two; a completion queue of no entry   *)
(* or smaller than the submission queue is refused.                          *)
IsPowerOfTwo(p) == \A d, e \in 1 .. p : d * e = p => d = 1 \/ d % 2 = 0
PowerOfTwo(n) == CHOOSE p \in n .. 2 * n - 1 : IsPowerOfTwo(p)
Clamped(n, most) == PowerOfTwo(IF n > most THEN most ELSE n)

(* The numbers without an odd factor are the powers of two.  No proof uses   *)
(* this: the provers do not know what 2^k is.                                *)
ASSUME PowersAssumption ==
  \A p \in 1 .. 4 * MaxSq : IsPowerOfTwo(p) <=> \E k \in 0 .. p : p = 2^k

CqUndoubled(n) == n                                    \* mutant of CqRequest

(* params.cq_entries = entries * 2, in uint32_t. *)
CqRequest(n) == (n * 2) % Modulus

Accepted(n) == CqRequest(n) # 0 /\ Clamped(CqRequest(n), 2 * MaxSq) >= Clamped(n, MaxSq)

(* The layout of the shared memory, in words of the SQ index array.  With    *)
(* IORING_FEAT_SINGLE_MMAP one region holds the CQEs and, after them, the    *)
(* array; older kernels keep two regions.                                    *)
Header  == 4
CqeSize == 4
SqeSize == 16

Params(n, single) ==
  LET sq == Clamped(n, MaxSq)
      cq == Clamped(CqRequest(n), 2 * MaxSq)
  IN  [sq_entries |-> sq, cq_entries |-> cq, single |-> single, cqes |-> Header,
       array |-> IF single THEN Header + cq * CqeSize ELSE Header]

(* sq.map_size, sq.sqes_map_size and the legacy cq.map_size. *)
SqMapSize    == params.array + params.sq_entries
SqesOfRequest == entries * SqeSize                     \* mutant of SqesMapSize
SqesMapSize  == params.sq_entries * SqeSize
CqMapSize    == params.cqes + params.cq_entries * CqeSize

-----------------------------------------------------------------------------
Members  == {"fd", "sq", "sqes", "cq", "eventfd"}
NoIo     == [m \in Members |-> "null"]
NoSizes  == [m \in {"sq", "sqes", "cq"} |-> 0]

Init ==
  /\ RInit
  /\ phase = "none" /\ entries = 0 /\ params = <<>>
  /\ io = NoIo /\ size = NoSizes
  /\ live = {} /\ bad = FALSE

(* munmap or close of what the members name. *)
Release(members) ==
  /\ live' = live \ {io[m] : m \in members}
  /\ bad' = (bad \/ \E m \in members : io[m] \notin live \/ \E o \in members \ {m} : io[o] = io[m])

(* The object is gone: a constructor threw after releasing some members, or  *)
(* a destructor released them.                                               *)
Gone(members) ==
  /\ Release(members)
  /\ phase' = "none" /\ params' = <<>> /\ io' = NoIo /\ size' = NoSizes

(* The member m gets a resource of its own. *)
Acquire(m, next) ==
  /\ io' = [io EXCEPT ![m] = m]
  /\ live' = live \cup {m}
  /\ phase' = next
  /\ bad' = bad

(* IO::IO(n): depth 0 throws IOInvalidEntries at once. *)
Construct(n) ==
  /\ phase = "none"
  /\ phase' = IF n = 0 THEN "none" ELSE "setup"
  /\ entries' = n
  /\ UNCHANGED <<ring, params, io, size, live, bad>>

Setup ==
  /\ phase = "setup" /\ Accepted(entries)
  /\ \E single \in BOOLEAN : params' = Params(entries, single)
  /\ NewRing
  /\ Acquire("fd", "sq")
  /\ UNCHANGED <<entries, size>>

(* EINVAL, or no descriptor or memory to be had. *)
SetupFails == phase = "setup" /\ Gone({}) /\ UNCHANGED <<ring, entries>>

MapSq ==
  /\ phase = "sq"
  /\ Acquire("sq", "sqes")
  /\ size' = [size EXCEPT !["sq"] = SqMapSize]
  /\ UNCHANGED <<ring, entries, params>>

MapSqFails == phase = "sq" /\ Gone({"fd"}) /\ UNCHANGED <<ring, entries>>

MapSqes ==
  /\ phase = "sqes"
  /\ Acquire("sqes", "cq")
  /\ size' = [size EXCEPT !["sqes"] = SqesMapSize]
  /\ UNCHANGED <<ring, entries, params>>

MapSqesFails == phase = "sqes" /\ Gone({"sq", "fd"}) /\ UNCHANGED <<ring, entries>>

(* SINGLE_MMAP: the CQ shares the SQ mapping, and cq.map_size is 0. *)
ShareCq ==
  /\ phase = "cq" /\ params.single
  /\ io' = [io EXCEPT !["cq"] = io["sq"]]
  /\ phase' = "eventfd"
  /\ UNCHANGED <<ring, entries, params, size, live, bad>>

MapCq ==
  /\ phase = "cq" /\ ~params.single
  /\ Acquire("cq", "eventfd")
  /\ size' = [size EXCEPT !["cq"] = CqMapSize]
  /\ UNCHANGED <<ring, entries, params>>

MapCqFails ==
  /\ phase = "cq" /\ ~params.single
  /\ Gone({"sqes", "sq", "fd"})
  /\ UNCHANGED <<ring, entries>>

DtorUnmapsBoth == {"cq", "sqes", "sq", "fd"}           \* mutant of Dtor

(* What IO::~IO releases. *)
Dtor == {"sqes", "sq", "fd"} \cup {m \in {"cq"} : io[m] # "null" /\ size[m] > 0}

(* Scheduler::Scheduler(io); when it throws, the IO declared before it is    *)
(* destroyed.                                                                *)
MakeScheduler ==
  /\ phase = "eventfd"
  /\ Acquire("eventfd", "ready")
  /\ UNCHANGED <<ring, entries, params, size>>

EventfdFails == phase = "eventfd" /\ Gone(Dtor) /\ UNCHANGED <<ring, entries>>

(* ~Scheduler, then ~IO; the ring goes with its mappings. *)
Destroy == phase = "ready" /\ Gone(Dtor \cup {"eventfd"}) /\ NewRing /\ entries' = entries

(* Awaitables and the scheduler use the ring (explored at one depth). *)
Use ==
  /\ phase = "ready" /\ params.sq_entries = Entries
  /\ RNext
  /\ UNCHANGED <<phase, entries, params, io, size, live, bad>>

Next ==
  \/ \E n \in Requests : Construct(n)
  \/ Setup \/ SetupFails \/ MapSq \/ MapSqFails \/ MapSqes \/ MapSqesFails
  \/ ShareCq \/ MapCq \/ MapCqFails \/ MakeScheduler \/ EventfdFails \/ Use \/ Destroy

Spec == Init /\ [][Next]_vars

-----------------------------------------------------------------------------
TypeOK ==
  /\ RingTypeOK
  /\ phase \in {"none", "setup", "sq", "sqes", "cq", "eventfd", "ready"}
  /\ entries \in Index
  /\ io \in [Members -> Members \cup {"null"}] /\ DOMAIN size = {"sq", "sqes", "cq"}
  /\ live \subseteq Members /\ bad \in BOOLEAN

(* Whichever step of IO::IO or Scheduler::Scheduler fails, and however the   *)
(* CQ was mapped, each descriptor and mapping is released exactly once:      *)
(* nothing is held once the objects are gone and nothing is unmapped twice.  *)
ReleasedOnce == ~bad /\ (phase = "none" => live = {})

(* While the ring is in use, every index the code masks lies inside the      *)
(* mapping it is read through: the SQ array, the SQEs, and the CQEs, which   *)
(* under SINGLE_MMAP are read through a mapping sized for the SQ only.       *)
MappingsCover ==
  phase = "ready" =>
    /\ {io[m] : m \in Members} \subseteq live
    /\ params.array + params.sq_entries <= size["sq"]
    /\ params.sq_entries * SqeSize <= size["sqes"]
    /\ params.cqes + params.cq_entries * CqeSize <= size[io["cq"]]

(* IO::IO asks for twice as many completions as submissions, "to prevent     *)
(* overflows": it gets them for every depth below 2^31, where entries * 2    *)
(* wraps, and never fewer completions than submissions; the depth itself is  *)
(* met up to the kernel's limit, and is a power of two, so that masking      *)
(* stays in range.                                                           *)
RingSizes ==
  phase = "ready" =>
    /\ params.sq_entries >= IF entries > MaxSq THEN MaxSq ELSE entries
    /\ IsPowerOfTwo(params.sq_entries)
    /\ params.cq_entries >= params.sq_entries
    /\ entries < Modulus \div 2 => params.cq_entries = 2 * params.sq_entries

=============================================================================
