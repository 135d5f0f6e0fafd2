---------------------------- MODULE Operations ----------------------------
(***************************************************************************)
(* The ten operations of src/operations.cpp as the request each one's      *)
(* prepare() writes into its SQE, with_timeout of src/awaitable.cpp, and   *)
(* what the kernel does with such a request.  The kernel part is external: *)
(* it is what src/ and its tests rely on, over a table of descriptors and  *)
(* a table of paths.                                                       *)
(***************************************************************************)
EXTENDS Integers, Sequences, FiniteSetsExt

CONSTANT LenMod     \* 2^32: io_uring_sqe::len is a uint32_t

-----------------------------------------------------------------------------
(* The memset to zero, the first line of every prepare().  addr is the     *)
(* buffer, path, payload or address, off the mask, flags or second buffer, *)
(* ts the optional timeout_ts_.  Flags, modes and file offsets that every  *)
(* caller leaves at their defaults are left out.                           *)
Zeroed == [opcode |-> "NOP", fd |-> 0, addr |-> <<>>, len |-> 0, off |-> 0, ts |-> <<>>]

Request(opcode, fd) == [Zeroed EXCEPT !.opcode = opcode, !.fd = fd]

Accept(server_fd) == Request("ACCEPT", server_fd)

Close(fd) == Request("CLOSE", fd)

(* The address is copied into the operation when it is constructed. *)
Connect(fd, addr) == [Request("CONNECT", fd) EXCEPT !.addr = addr]

(* The descriptor of Open and Stat is dfd_, always AT_FDCWD here. *)
Open(path, flags) == [Request("OPENAT", 0) EXCEPT !.addr = path, !.off = flags]

Poll(fd, poll_mask) == [Request("POLL_ADD", fd) EXCEPT !.off = poll_mask]

ReadElements(fd, buf, elements) ==      \* mutant of Read
  [Request("READ", fd) EXCEPT !.addr = buf, !.len = elements % LenMod]

(* A Read or Write of a span of uint32_t: 4 bytes an element, cast to 32 bits. *)
Read(fd, buf, elements) ==
  [Request("READ", fd) EXCEPT !.addr = buf, !.len = (4 * elements) % LenMod]

Recv(fd, buf, len) == [Request("RECV", fd) EXCEPT !.addr = buf, !.len = len % LenMod]

Send(fd, buf, len) == [Request("SEND", fd) EXCEPT !.addr = buf, !.len = len % LenMod]

Stat(path, buf) == [Request("STATX", 0) EXCEPT !.addr = path, !.off = buf]

Write(fd, buf, elements) ==
  [Request("WRITE", fd) EXCEPT !.addr = buf, !.len = (4 * elements) % LenMod]

(* std::chrono::duration_cast truncates towards zero. *)
Truncate(n, unit) == IF n >= 0 THEN n \div unit ELSE -((-n) \div unit)

(* The __kernel_timespec with_timeout computes from milliseconds. *)
Timespec(ms) ==
  LET secs == Truncate(ms, 1000)
  IN  [tv_sec |-> secs, tv_nsec |-> (ms - 1000 * secs) * 1000000]

(* An operation whose with_timeout(ms) was called before it is awaited. *)
Timed(o, ms) == [o EXCEPT !.ts = <<Timespec(ms)>>]

(* needed in await_suspend. *)
Slots(o) == IF o.ts = <<>> THEN 1 ELSE 2

-----------------------------------------------------------------------------
(* External.  A kernel is [fd, fs]: what each open descriptor is and what   *)
(* each path holds.  A socket has a stream of bytes to read and a peer      *)
(* (0: none, the stream ends where the bytes end).                          *)
EBADF == -9
ENOENT == -2
ECONNREFUSED == -111
ECANCELED == -125
POLLIN == 1
POLLOUT == 4
Refused == -1       \* an address where nothing listens
Unroutable == -2    \* one whose connect never completes

Socket(bytes, peer) == [kind |-> "socket", in |-> bytes, peer |-> peer]
Listener == [kind |-> "listener", backlog |-> 0]
Descriptor(path) == [kind |-> "file", path |-> path]
File(size, data) == [size |-> size, data |-> data]

NewFd(k) == Max(DOMAIN k.fd \cup {2}) + 1
OpenFd(k, fd, what) == [k EXCEPT !.fd = [f \in DOMAIN @ \cup {fd} |-> IF f = fd THEN what ELSE @[f]]]

(* close(2): the descriptor goes, and a peer reads to the end. *)
CloseFd(k, fd) ==
  [k EXCEPT !.fd = [f \in DOMAIN @ \ {fd} |->
     IF @[f].kind = "socket" /\ @[f].peer = fd THEN [@[f] EXCEPT !.peer = 0] ELSE @[f]]]

(* write(2) or a SEND on a socket: the bytes reach the peer's stream. *)
Deliver(k, fd, bytes) ==
  IF k.fd[fd].peer = 0 THEN k ELSE [k EXCEPT !.fd[k.fd[fd].peer].in = @ \o bytes]

Readable(s) == s.in # <<>> \/ s.peer = 0

(* The request can complete; until then only its timeout can end it. *)
Ready(k, o) ==
  CASE o.opcode \in {"OPENAT", "STATX"} -> TRUE
    [] o.opcode = "CONNECT"  -> o.addr # Unroutable
    [] o.fd \notin DOMAIN k.fd -> TRUE
    [] o.opcode = "RECV"     -> Readable(k.fd[o.fd])
    [] o.opcode = "POLL_ADD" -> o.off = POLLOUT \/ Readable(k.fd[o.fd])
    [] o.opcode = "ACCEPT"   -> k.fd[o.fd].backlog > 0
    [] OTHER                 -> TRUE

(* cqe.res of a request that is ready. *)
Result(k, o) ==
  CASE o.opcode = "OPENAT"  -> IF o.addr \in DOMAIN k.fs \/ o.off = "O_CREAT" THEN NewFd(k) ELSE ENOENT
    [] o.opcode = "STATX"   -> IF o.addr \in DOMAIN k.fs THEN 0 ELSE ENOENT
    [] o.fd \notin DOMAIN k.fd -> EBADF
    [] o.opcode = "CONNECT" -> IF o.addr = Refused THEN ECONNREFUSED ELSE 0
    [] o.opcode = "ACCEPT"  -> NewFd(k)
    [] o.opcode = "CLOSE"   -> 0
    [] o.opcode = "RECV"    -> Min({o.len, Len(k.fd[o.fd].in)})
    [] o.opcode = "READ"    -> Min({o.len, k.fs[k.fd[o.fd].path].size})
    [] o.opcode \in {"SEND", "WRITE"} -> o.len
    [] o.opcode = "POLL_ADD" -> o.off

(* What a ready request leaves behind in the kernel. *)
Effect(k, o) ==
  CASE Result(k, o) < 0     -> k
    [] o.opcode = "OPENAT"  ->
         OpenFd([k EXCEPT !.fs = [p \in DOMAIN @ \cup {o.addr} |-> IF p \in DOMAIN @ THEN @[p] ELSE File(0, "")]],
                NewFd(k), Descriptor(o.addr))
    [] o.opcode = "ACCEPT"  -> OpenFd([k EXCEPT !.fd[o.fd].backlog = @ - 1], NewFd(k), Socket(<<>>, 0))
    [] o.opcode = "CONNECT" -> [k EXCEPT !.fd[o.addr].backlog = @ + 1]
    [] o.opcode = "CLOSE"   -> CloseFd(k, o.fd)
    [] o.opcode = "RECV"    -> [k EXCEPT !.fd[o.fd].in = SubSeq(@, Result(k, o) + 1, Len(@))]
    [] o.opcode = "SEND"    -> Deliver(k, o.fd, o.addr)
    [] o.opcode = "WRITE"   -> [k EXCEPT !.fs[k.fd[o.fd].path] = File(o.len, o.addr)]
    [] OTHER                -> k

(* The variable a ready request fills and what it fills it with. *)
Fills(k, o) == o.opcode \in {"RECV", "READ", "STATX"} /\ Result(k, o) >= 0

Filled(k, o) ==
  CASE o.opcode = "RECV"  -> [var |-> o.addr, val |-> SubSeq(k.fd[o.fd].in, 1, Result(k, o))]
    [] o.opcode = "READ"  -> [var |-> o.addr, val |-> k.fs[k.fd[o.fd].path].data]
    [] o.opcode = "STATX" -> [var |-> o.off, val |-> k.fs[o.addr].size]

=============================================================================
