-------------------------- MODULE MCCaptureService --------------------------
(* Instances of CaptureService for TLC. *)
EXTENDS CaptureService, TLC

Symmetry == Permutations(Models) \cup Permutations(Prefs)
=============================================================================
