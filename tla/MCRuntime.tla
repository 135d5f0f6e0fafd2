----------------------------- MODULE MCRuntime -----------------------------
(* Instances of Runtime for TLC; each .cfg picks from them.                *)
EXTENDS Runtime, TLC

CONSTANTS a, b, c, d

OneJob   == {a}
TwoJobs  == {a, b}
FourJobs == {a, b, c, d}

\* Jobs differ in nothing but their name.
JobSymmetry == Permutations(Jobs)
=============================================================================
