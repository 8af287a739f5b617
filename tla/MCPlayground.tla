---------------------------- MODULE MCPlayground ----------------------------
(* A page that runs twice, and a shell, in any order. *)
EXTENDS Playground

CONSTANT Runs
MCProcs == 1..Runs
=============================================================================
