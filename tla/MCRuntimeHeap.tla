---------------------------- MODULE MCRuntimeHeap ----------------------------
(***************************************************************************)
(* A druk process with a heap that collects at its third allocation: three *)
(* literals are enough to lose one in the parser, two slots to lose a      *)
(* value, or an element of an array, in the running program.               *)
(***************************************************************************)
EXTENDS RuntimeHeap, TLC

CONSTANTS a, b, c, x, y

MCObj == {a, b, c}
MCSlots == {x, y}
Symmetry == Permutations(MCObj) \cup Permutations(MCSlots)
=============================================================================
