--------------------------- MODULE MCConfigStore ---------------------------
(* Instances of ConfigStore for TLC: at most six things happen, among them  *)
(* two that a page posts and one event it does not expect.                    *)
EXTENDS ConfigStore, TLC

MCBudget == [any |-> 6, launch |-> 2, load |-> 2, post |-> 2, download |-> 2, event |-> 1]

Symmetry == Permutations(Servers) \cup Permutations(Pages) \cup Permutations(Downloads)
=============================================================================
