---------------------------- MODULE MCShellSession ----------------------------
(* Instances of ShellSession for TLC: threads of one kind are interchangeable. *)
EXTENDS ShellSession, TLC

Symmetry == Permutations(Threads)
===============================================================================
