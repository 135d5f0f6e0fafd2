---------------------------- MODULE MCScheduler ----------------------------
(* Instances of Scheduler for TLC. *)
EXTENDS Scheduler, TLC

CONSTANTS j1, j2, j3

TwoJobs == {j1, j2}

(* Light load: a two-step coroutine and a timed one. *)
LightAwaits == (j1 :> <<1, 1>>) @@ (j2 :> <<2>>)

(* For liveness: a coroutine that never suspends and a timed one. *)
LiveAwaits == (j1 :> <<>>) @@ (j2 :> <<2>>)

(* Overload: a timed coroutine with a second, untimed co_await and a plain *)
(* one, on a ring of two slots.                                            *)
TightAwaits == (j1 :> <<1, 1>>) @@ (j2 :> <<2, 1>>)

(* One coroutine with one co_await, plain or timed. *)
OneJob      == {j1}
PlainAwaits == j1 :> <<1>>

(* Two coroutines with two co_awaits each, and a third one. *)
ThreeJobs  == {j1, j2, j3}
SkipAwaits == (j1 :> <<1, 1>>) @@ (j2 :> <<1, 1>>) @@ (j3 :> <<1>>)
=============================================================================
