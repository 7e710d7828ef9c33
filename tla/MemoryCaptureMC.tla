---------------------------- MODULE MemoryCaptureMC ----------------------------
(***************************************************************************)
(* MemoryCapture on small instances.                                       *)
(***************************************************************************)
EXTENDS MemoryCapture

(* Primary keys are ordered, so they are numbers.                          *)
Keys == 1..2
OneKey == {1}

(* Row images are interchangeable.                                         *)
Symmetry == Permutations(Val)
=============================================================================
