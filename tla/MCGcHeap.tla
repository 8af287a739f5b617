------------------------------ MODULE MCGcHeap ------------------------------
(***************************************************************************)
(* GcHeap on three addresses.  The thresholds are scaled down so that a    *)
(* collection starts with one, two or three objects linked and both cases  *)
(* of NewThreshold occur.                                                  *)
(***************************************************************************)
EXTENDS GcHeap

CONSTANTS a, b, c

MCObj == {a, b, c}
=============================================================================
