------------------------------- MODULE Queues -------------------------------
(* What the modules say of queues of callables, SQEs and CQEs. *)
EXTENDS Naturals, Sequences

Elements(s) == {s[i] : i \in 1 .. Len(s)}

Unique(q) == \A m, n \in 1 .. Len(q) : q[m] = q[n] => m = n
=============================================================================
