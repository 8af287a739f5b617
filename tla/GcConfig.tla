------------------------------ MODULE GcConfig ------------------------------
(***************************************************************************)
(* gc_config.h, and the rule by which a collection sets the object count   *)
(* at which the next one starts.                                           *)
(***************************************************************************)
EXTENDS Naturals

CONSTANTS
    InitialThreshold,     \* kInitialThreshold (64)
    GrowthFactor,         \* kGrowthFactor (2)
    MinThreshold          \* kMinThreshold (32)

\* What a heap with these three numbers needs in order to make room by
\* collecting.
ASSUME ThresholdAssumption ==
    /\ InitialThreshold \in Nat \ {0}
    /\ GrowthFactor \in Nat \ {0, 1}
    /\ MinThreshold \in 1..InitialThreshold

\* Mutant: no floor under the threshold.
NewThresholdNoFloor(n) == n * GrowthFactor

\* threshold_ after a collection that n objects survived.
NewThreshold(n) ==
    IF n < MinThreshold THEN InitialThreshold ELSE n * GrowthFactor
=============================================================================
