--------------------------- MODULE TestPrograms ---------------------------
(***************************************************************************)
(* The programs module Coroutines runs: the tests of tests2/ that drive a  *)
(* Task or a Scheduler from one thread, each with what it requires, and    *)
(* three families of generated programs that vary what those tests fix.    *)
(* The rings of the tests have 256 entries and none of them stages more    *)
(* than six SQEs: Roomy stands for 256.                                    *)
(***************************************************************************)
EXTENDS Coroutines, TLC

Roomy == 8

Machine(fd, fs) == [fd |-> fd, fs |-> fs]

(* make_socket_pair, and the write to w that fills r. *)
make_socket_pair(r, w, bytes) == (r :> Socket(bytes, w)) @@ (w :> Socket(<<>>, r))

(* make_listener, for the Accept and the Connect tests. *)
make_listener(fd) == fd :> Listener

NoFds   == Machine(<<>>, <<>>)
Pair(b) == Machine(make_socket_pair(3, 4, b), <<>>)
PeerGone == Machine(3 :> Socket(<<>>, 0), <<>>)
TwoPairs(b, c) == Machine(make_socket_pair(3, 4, b) @@ make_socket_pair(5, 6, c), <<>>)

Hello == <<"h", "e", "l", "l", "o">>
World == <<"w", "o", "r", "l", "d">>

Failure == {EBADF, ENOENT, ECONNREFUSED, ECANCELED}     \* what "< 0" can be
NewFds  == 3 .. 9                                       \* what ">= 0" can be for a new descriptor

-----------------------------------------------------------------------------
(* The shape of most tests: spawn coroutines, shutdown(), look at variables. *)
Spawned(k, init, code, names, want) ==
  Program(Roomy, k, init, code, [i \in 1 .. Len(names) |-> Spawn(names[i])] \o <<Shutdown, Require(want)>>, <<>>)

OneOp(k, o, want) ==
  Spawned(k, [n |-> 99, buf |-> <<>>], [coro |-> <<Await("n", o)>>], <<"coro">>, want)

(* tests2/hangs/main.cpp: Recv, Send, Accept, Close, Read, Write, Open, Stat. *)
RecvBytes == OneOp(Pair(Hello), Recv(3, "buf", 16), [n |-> {5}, buf |-> {Hello}])
RecvEof   == OneOp(PeerGone, Recv(3, "buf", 16), [n |-> {0}])
RecvBadFd == OneOp(NoFds, Recv(-1, "buf", 4), [n |-> Failure])

SendBytes ==
  Program(Roomy, Pair(<<>>), [n |-> 0, buf |-> <<>>], [coro |-> <<Await("n", Send(4, World, 5))>>],
          <<Spawn("coro"), Shutdown, PeerRead("buf", 3), Require([n |-> {5}, buf |-> {World}])>>, <<>>)
SendBadFd == OneOp(NoFds, Send(-1, <<"x">>, 1), [n |-> Failure])

AcceptClient ==
  Program(Roomy, Machine(make_listener(3), <<>>), [n |-> -1], [coro |-> <<Await("n", Accept(3))>>],
          <<Spawn("coro"), Shutdown, Require([n |-> NewFds])>>, <<3>>)

CloseFdTest == OneOp(Machine(3 :> Socket(<<>>, 0), <<>>), Close(3), [n |-> {0}])
CloseBadFd  == OneOp(NoFds, Close(-1), [n |-> Failure])

WriteThenRead ==
  Spawned(Machine(3 :> Descriptor("/tmp/a"), "/tmp/a" :> File(0, "")),
    [written |-> 0, read_bytes |-> 0, buf |-> ""],
    [coro |-> <<Await("written", Write(3, "testdata", 2)), Await("read_bytes", Read(3, "buf", 4))>>],
    <<"coro">>, [written |-> {8}, read_bytes |-> {8}, buf |-> {"testdata"}])
ReadBadFd  == OneOp(NoFds, Read(-1, "buf", 1), [n |-> Failure])
WriteBadFd == OneOp(NoFds, Write(-1, "0", 1), [n |-> Failure])

OneFile == Machine(<<>>, "/tmp/a" :> File(1, "x"))
OpenFile    == OneOp(OneFile, Open("/tmp/a", "O_RDONLY"), [n |-> NewFds])
OpenMissing == OneOp(NoFds, Open("/nonexistent", "O_RDONLY"), [n |-> Failure])
StatFile    ==
  Spawned(OneFile, [n |-> -1, stx_size |-> 0], [coro |-> <<Await("n", Stat("/tmp/a", "stx_size"))>>],
          <<"coro">>, [n |-> {0}, stx_size |-> {1}])
StatMissing == OneOp(NoFds, Stat("/nonexistent", "buf"), [n |-> Failure])

OperationTests ==
  <<RecvBytes, RecvEof, RecvBadFd, SendBytes, SendBadFd, AcceptClient, CloseFdTest, CloseBadFd,
   WriteThenRead, ReadBadFd, WriteBadFd, OpenFile, OpenMissing, StatFile, StatMissing>>

-----------------------------------------------------------------------------
(* tests2/connect_poll.cpp *)
Fresh == 5 :> Socket(<<>>, 0)       \* make_nonblocking_socket

ConnectOk      == OneOp(Machine(make_listener(3) @@ Fresh, <<>>), Connect(5, 3), [n |-> {0}])
ConnectRefused == OneOp(Machine(Fresh, <<>>), Connect(5, Refused), [n |-> Failure])

PollAfterWrite ==
  Program(Roomy, Pair(<<>>), [n |-> -1], [coro |-> <<Await("n", Poll(3, POLLIN))>>],
          <<Spawn("coro"), PeerWrite(4, <<"x">>), Shutdown, Require([n |-> {POLLIN}])>>, <<>>)
PollOut   == OneOp(Pair(<<>>), Poll(3, POLLOUT), [n |-> {POLLOUT}])
PollHup   == OneOp(PeerGone, Poll(3, POLLIN), [n |-> {POLLIN}])
PollBadFd == OneOp(NoFds, Poll(-1, POLLIN), [n |-> Failure])
TwoPolls  ==
  Program(Roomy, TwoPairs(<<>>, <<>>), [n1 |-> -1, n2 |-> -1],
    [coro1 |-> <<Await("n1", Poll(3, POLLIN))>>, coro2 |-> <<Await("n2", Poll(5, POLLIN))>>],
    <<Spawn("coro1"), Spawn("coro2"), PeerWrite(4, <<"a">>), PeerWrite(6, <<"b">>), Shutdown,
      Require([n1 |-> {POLLIN}, n2 |-> {POLLIN}])>>, <<>>)

TimedInTime    == OneOp(Pair(Hello), Timed(Recv(3, "buf", 16), 500), [n |-> {5}, buf |-> {Hello}])
TimedPoll      == OneOp(Pair(<<>>), Timed(Poll(3, POLLIN), 50), [n |-> Failure])
TimedConnect   == OneOp(Machine(Fresh, <<>>), Timed(Connect(5, Unroutable), 100), [n |-> Failure])
TwoLinked ==
  Spawned(TwoPairs(<<"a">>, <<>>), [n1 |-> 0, n2 |-> 1, buf |-> <<>>],
    [coro_a |-> <<Await("n1", Timed(Recv(3, "buf", 4), 500))>>,
     coro_b |-> <<Await("n2", Timed(Poll(5, POLLIN), 50))>>],
    <<"coro_a", "coro_b">>, [n1 |-> {1}, buf |-> {<<"a">>}, n2 |-> Failure])

ConnectPollTests ==
  <<ConnectOk, ConnectRefused, PollAfterWrite, PollOut, PollHup, PollBadFd, TwoPolls,
    TimedInTime, TimedPoll, TimedConnect, TwoLinked>>

-----------------------------------------------------------------------------
(* tests2/hangs/main.cpp, Task<int> and Task<void>: driven by hand. *)
ByHand(body, main, want) ==
  Program(Roomy, NoFds, [t |-> 0, u |-> 0, v |-> -1, done |-> FALSE, threw |-> "", ran |-> <<>>],
          [coro |-> body], <<Make("t", "coro")>> \o main \o <<Require(want)>>, <<>>)

TaskValue  == ByHand(<<Return("", 42)>>, <<Resume("t"), Done("done", "t"), GetResult("v", "t")>>,
                     [done |-> {TRUE}, v |-> {42}])
TaskThrows == ByHand(<<Throw("boom")>>, <<Resume("t"), Done("done", "t"), TryResult("threw", "t")>>,
                     [done |-> {TRUE}, threw |-> {"boom"}])
TaskMoved  == ByHand(<<Return("", 1)>>,
                     <<Move("t", "u"), Done("done", "t"), Resume("u"), GetResult("v", "u")>>,
                     [done |-> {TRUE}, v |-> {1}])
TaskNotRun == ByHand(<<Return("", 99)>>, <<Done("done", "t"), GetResult("v", "t")>>,
                     [done |-> {FALSE}, v |-> {0}])
VoidCompletes == ByHand(<<>>, <<Resume("t"), Done("done", "t"), GetResult("", "t")>>, [done |-> {TRUE}])
VoidMoved     == ByHand(<<>>, <<Move("t", "u"), Done("done", "t"), Resume("u"), GetResult("", "u")>>,
                        [done |-> {TRUE}])

(* Scheduler, and tests2/run_multiple_tasks.cpp. *)
NoTasks == Program(Roomy, NoFds, <<>>, <<>>, <<Shutdown>>, <<>>)
PendingAtEnd == OneOp(Pair(<<"x">>), Recv(3, "buf", 1), [n |-> {1}])
TwoRecvs ==
  Spawned(TwoPairs(<<"a">>, <<"b">>), [n1 |-> 0, n2 |-> 0, buf1 |-> <<>>, buf2 |-> <<>>],
    [c1 |-> <<Await("n1", Recv(3, "buf1", 4))>>, c2 |-> <<Await("n2", Recv(5, "buf2", 4))>>],
    <<"c1", "c2">>, [n1 |-> {1}, n2 |-> {1}, buf1 |-> {<<"a">>}, buf2 |-> {<<"b">>}])
TwoAwaits ==
  Spawned(Pair(<<"h", "i">>), [n1 |-> 0, n2 |-> 0, buf1 |-> <<>>, buf2 |-> <<>>],
    [coro |-> <<Await("n1", Recv(3, "buf1", 1)), Await("n2", Recv(3, "buf2", 1))>>],
    <<"coro">>, [n1 |-> {1}, n2 |-> {1}, buf1 |-> {<<"h">>}, buf2 |-> {<<"i">>}])

TaskTests ==
  <<TaskValue, TaskThrows, TaskMoved, TaskNotRun, VoidCompletes, VoidMoved,
    NoTasks, PendingAtEnd, TwoRecvs, TwoAwaits>>

(* The same group's ring of one entry: coro2 is refused, as required.       *)
(* shutdown() then arms the eventfd read over coro1's staged SQE and never  *)
(* returns (run exhausted_ring of Scheduler).                               *)
SqExhausted ==
  Program(1, Pair(<<"x">>), [n |-> 0, threw |-> "", buf1 |-> <<>>, buf2 |-> <<>>],
    [coro1 |-> <<Await("n", Recv(3, "buf1", 1))>>, coro2 |-> <<Await("n", Recv(3, "buf2", 4))>>],
    <<Spawn("coro1"), TrySpawn("threw", "coro2"), Require([threw |-> {"SQFull"}]), Shutdown>>, <<>>)

-----------------------------------------------------------------------------
(* tests2/hangs/tasks.cpp: Tasks that co_await Tasks. *)
Nested(k, init, code, want) == Spawned(k, init, code, <<"outer">>, want)

NestedInt ==
  Nested(NoFds, [result |-> 0], [inner |-> <<Return("", 42)>>, outer |-> <<Call("result", "inner")>>],
         [result |-> {42}])
NestedOrder ==      \* also the Task<void> test: both bodies ran
  Nested(NoFds, [result |-> 0, order |-> <<>>],
    [inner |-> <<Push("order", 1), Return("", 7)>>,
     outer |-> <<Push("order", 0), Call("result", "inner"), Push("order", 2)>>],
    [result |-> {7}, order |-> {<<0, 1, 2>>}])
NestedRecv ==
  Nested(Pair(Hello), [n |-> 0, result |-> 0, buf |-> <<>>],
    [inner |-> <<Await("n", Recv(3, "buf", 16)), Return("n", 0)>>, outer |-> <<Call("result", "inner")>>],
    [result |-> {5}])
NestedRecvs ==
  Nested(Pair(<<"a", "b">>), [n |-> 0, n1 |-> 0, n2 |-> 0, c1 |-> <<>>, c2 |-> <<>>],
    [recv_c1 |-> <<Await("n", Recv(3, "c1", 1)), Return("n", 0)>>,
     recv_c2 |-> <<Await("n", Recv(3, "c2", 1)), Return("n", 0)>>,
     outer   |-> <<Call("n1", "recv_c1"), Call("n2", "recv_c2")>>],
    [n1 |-> {1}, n2 |-> {1}, c1 |-> {<<"a">>}, c2 |-> {<<"b">>}])
NestedCaught ==
  Nested(NoFds, [caught |-> ""],
    [inner |-> <<Throw("inner boom")>>, outer |-> <<TryCall("caught", "inner")>>],
    [caught |-> {"inner boom"}])
NestedUncaught ==
  Program(Roomy, NoFds, [t |-> 0, v |-> 0, done |-> FALSE, threw |-> ""],
    [inner |-> <<Throw("uncaught")>>, outer |-> <<Call("v", "inner"), Return("v", 0)>>],
    <<Make("t", "outer"), Resume("t"), Done("done", "t"), TryResult("threw", "t"),
      Require([done |-> {TRUE}, threw |-> {"uncaught"}])>>, <<>>)
ThreeLevels ==
  Nested(NoFds, [v |-> 0, result |-> 0],
    [inner |-> <<Return("", 3)>>, middle |-> <<Call("v", "inner"), Return("v", 1)>>,
     outer |-> <<Call("result", "middle")>>], [result |-> {4}])
ThreeLevelsRecv ==
  Nested(Pair(<<"z">>), [n |-> 0, c |-> <<>>, v |-> <<>>, result |-> <<>>],
    [inner  |-> <<Await("n", Recv(3, "c", 1)), Return("c", 0)>>,
     middle |-> <<Call("v", "inner"), Return("v", 0)>>, outer |-> <<Call("result", "middle")>>],
    [result |-> {<<"z">>}])
ThreeLevelsThrow ==
  Nested(NoFds, [v |-> 0, caught |-> ""],
    [inner |-> <<Throw("deep boom")>>, middle |-> <<Call("v", "inner"), Return("v", 0)>>,
     outer |-> <<TryCall("caught", "middle")>>], [caught |-> {"deep boom"}])

(* A Task that nothing co_awaits, by hand and through spawn(). *)
DrivenByHand ==
  ByHand(<<Push("ran", 1), Return("", 99)>>, <<Resume("t"), Done("done", "t"), GetResult("v", "t")>>,
         [done |-> {TRUE}, ran |-> {<<1>>}, v |-> {99}])
SpawnedPlain == OneOp(Pair(<<"x">>), Recv(3, "buf", 4), [n |-> {1}, buf |-> {<<"x">>}])

NestingTests ==
  <<NestedInt, NestedOrder, NestedRecv, NestedRecvs, NestedCaught, NestedUncaught,
    ThreeLevels, ThreeLevelsRecv, ThreeLevelsThrow, DrivenByHand, SpawnedPlain>>

-----------------------------------------------------------------------------
(* The coroutines the threaded tests post: read_one_file of                 *)
(* tests2/multi_threaded.cpp and write_random_file of runtime_write.cpp.    *)
read_one_file(k, want) ==
  Spawned(k, [fd |-> -1, n |-> -1, buf |-> "", succeeded |-> <<>>, completed |-> <<>>],
    [coro |-> <<Await("fd", Open("/etc/f", "O_RDONLY")), IfNotNeg("fd", 4),
                  AwaitOn("n", "fd", Read(0, "buf", 1)), IfNotNeg("n", 1), Push("succeeded", 1),
                  AwaitOn("", "fd", Close(0)),
                Push("completed", 1)>>],
    <<"coro">>, want)

ReadPresent == read_one_file(Machine(<<>>, "/etc/f" :> File(4, "data")),
                             [n |-> {4}, buf |-> {"data"}, succeeded |-> {<<1>>}, completed |-> {<<1>>}])
ReadAbsent  == read_one_file(NoFds, [fd |-> Failure, succeeded |-> {<<>>}, completed |-> {<<1>>}])

write_random_file ==
  Spawned(NoFds, [fd |-> -1, n |-> -1, completed |-> <<>>],
    [coro |-> <<Await("fd", Open("/tmp/f", "O_CREAT")), IfNotNeg("fd", 2),
                  AwaitOn("n", "fd", Write(0, "data", 2)), AwaitOn("", "fd", Close(0)),
                Push("completed", 1)>>],
    <<"coro">>, [n |-> {8}, completed |-> {<<1>>}])

PostedCoroutines == <<ReadPresent, ReadAbsent, write_random_file>>

Tests == OperationTests \o ConnectPollTests \o TaskTests \o NestingTests \o PostedCoroutines

-----------------------------------------------------------------------------
(* Generated: chains of three coroutines c1, c2, c3, each awaiting the next *)
(* inside or outside a try block, before or after an operation of its own,  *)
(* and ending by a co_return or a throw; a fourth task runs beside them.    *)
Levels == [pre : BOOLEAN, try : BOOLEAN, end : {"return", "throw"}]
Chains == {ch \in [1 .. 3 -> Levels] : ~ch[3].try}

LevelName(i) == <<"c1", "c2", "c3">>[i]
ResultVar(i) == <<"v1", "v2", "v3">>[i]

Body(ch, i) ==
  (IF ch[i].pre THEN <<Await("io", Recv(3, "buf", 1))>> ELSE <<>>)
  \o (IF i = 3 THEN <<>> ELSE <<IF ch[i].try THEN TryCall("caught", LevelName(i + 1))
                                             ELSE Call(ResultVar(i), LevelName(i + 1))>>)
  \o (IF ch[i].end = "throw" THEN <<Throw(LevelName(i))>> ELSE <<Return(ResultVar(i), 1)>>)

ChainProgram(ch) ==
  Spawned(TwoPairs(<<"a", "b", "c">>, <<"d">>),
    [io |-> 0, v1 |-> 0, v2 |-> 0, v3 |-> 0, n |-> 0, caught |-> "", buf |-> <<>>],
    [c1 |-> Body(ch, 1), c2 |-> Body(ch, 2), c3 |-> Body(ch, 3), d |-> <<Await("n", Recv(5, "buf", 1))>>],
    <<"c1", "d">>, [n |-> {1}])

(* What c_i of a chain must end with, read off its text alone. *)
RECURSIVE Outcome(_, _)
Outcome(ch, i) ==
  LET inner   == IF i = 3 THEN [exc |-> "", val |-> <<0>>] ELSE Outcome(ch, i + 1)
      escapes == inner.exc # "" /\ ~ch[i].try
      value   == IF inner.exc # "" \/ ch[i].try THEN 0 ELSE inner.val[1]
  IN  CASE escapes               -> [exc |-> inner.exc, val |-> <<>>]
        [] ch[i].end = "throw"   -> [exc |-> LevelName(i), val |-> <<>>]
        [] ch[i].end = "return"  -> [exc |-> "", val |-> <<value + 1>>]

(* Generated: a coroutine that awaits one or two slots (or nothing), may    *)
(* spawn another one (which may spawn a third), and awaits again, itself or *)
(* through an inner Task, on rings of one to three entries that a first     *)
(* task may partly fill.                                                    *)
Overloads ==
  [size : 1 .. 3, filler : BOOLEAN, first : 0 .. 2, spawn : {"no", "plain", "try"}, child : 1 .. 3,
   last : {"none", "await", "call"}]

Wait(slots) ==
  CASE slots = 0 -> <<>>
    [] slots = 1 -> <<Await("n", Recv(3, "buf", 1))>>
    [] slots = 2 -> <<Await("n", Timed(Recv(3, "buf", 1), 1500))>>

OverloadProgram(o) ==
  Program(o.size, Pair(<<"a">>), [n |-> 0, threw |-> "", caught |-> "", buf |-> <<>>],
    [filler |-> Wait(1), inner |-> Wait(1), grand |-> Wait(1),
     child |-> IF o.child = 3 THEN <<TrySpawn("caught", "grand")>> ELSE Wait(o.child),
     parent |-> Wait(o.first)
                \o (CASE o.spawn = "no"    -> <<>>
                      [] o.spawn = "plain" -> <<Spawn("child")>>
                      [] o.spawn = "try"   -> <<TrySpawn("caught", "child")>>)
                \o (CASE o.last = "none"   -> <<>>
                      [] o.last = "await"  -> Wait(1)
                      [] o.last = "call"   -> <<Call("", "inner")>>)],
    (IF o.filler THEN <<Spawn("filler")>> ELSE <<>>) \o <<TrySpawn("threw", "parent"), Shutdown>>, <<>>)

(* Generated: main resumes a Task itself, which awaits one or two slots of  *)
(* a ring that a first task may partly fill, and then spawns another one.   *)
HandDriven == [size : 1 .. 3, filler : BOOLEAN, hand : 1 .. 2, other : 0 .. 2]

HandProgram(h) ==
  Program(h.size, Pair(<<"a">>), [t |-> 0, n |-> 0, threw |-> "", buf |-> <<>>],
    [filler |-> Wait(1), hand |-> Wait(h.hand), other |-> Wait(h.other)],
    (IF h.filler THEN <<Spawn("filler")>> ELSE <<>>)
    \o <<Make("t", "hand"), Resume("t"), TrySpawn("threw", "other"), Shutdown>>, <<>>)

AllPrograms ==
  [x \in {"test"} \X DOMAIN Tests |-> Tests[x[2]]]
  @@ (<<"exhausted", 1>> :> SqExhausted)
  @@ [x \in {"chain"} \X Chains |-> ChainProgram(x[2])]
  @@ [x \in {"overload"} \X Overloads |-> OverloadProgram(x[2])]
  @@ [x \in {"hand"} \X HandDriven |-> HandProgram(x[2])]

-----------------------------------------------------------------------------
(* Every REQUIRE of the modelled tests holds, in whatever order the kernel  *)
(* completes the operations, and no exception leaves spawn() unexpectedly.  *)
TestsPass == at # "failed" /\ (id[1] = "test" => at # "aborted")

(* Every coroutine of a chain ends as its text says: FinalAwaiter and       *)
(* result() bring a value to the co_await that waits for it, and an         *)
(* exception to the nearest try block around one, at every depth and with   *)
(* suspensions anywhere between.                                            *)
OutcomesExact ==
  id[1] = "chain" =>
    \A f \in DOMAIN frames : \A i \in 1 .. 3 :
      frames[f].fn = LevelName(i) /\ frames[f].st = "final" =>
        [exc |-> frames[f].exc, val |-> frames[f].val] = Outcome(id[2], i)

(* None of the tests, and no chain, hangs: shutdown() returns and main      *)
(* reaches its end.                                                         *)
ProgramsEnd == id[1] \in {"test", "chain"} ~> Over

=============================================================================
