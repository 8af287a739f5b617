------------------------------ MODULE MCDrukVM ------------------------------
(***************************************************************************)
(* A script and a function of one parameter that may call each other and   *)
(* themselves.  Two frames of three values: the script can hold a callee   *)
(* and its argument, the callee one temporary; a third call overflows.     *)
(* The globals are checked apart, on a script that calls nothing: a call   *)
(* does not read or write them.                                            *)
(***************************************************************************)
EXTENDS DrukVM

CONSTANTS script, f, g, h

MCFn == {script, f}
MCArity == [x \in Fn |-> IF x = script THEN 0 ELSE 1]
MCName == {g, h}
MCArgNames == {g}
=============================================================================
