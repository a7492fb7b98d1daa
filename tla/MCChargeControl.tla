-------------------------- MODULE MCChargeControl --------------------------
(* hplc and energycon at their priorities.  The bounds let two commands meet    *)
(* in the word or overtake a pending one, and a report arrive too early.        *)
EXTENDS ChargeControl

MCThreads == {"hplc", "energycon"}

MCPrio == [t \in MCThreads |-> IF t = "hplc" THEN 15 ELSE 18]
=============================================================================
