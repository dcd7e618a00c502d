--------------------------- MODULE MC_TenantFeatures ---------------------------
(***************************************************************************)
(* Small instances of TenantFeatures for TLC.                              *)
(***************************************************************************)
EXTENDS TenantFeaturesRefinement, TLC

\* Bodies that switch every key and say nothing of the limits
Switches == {[k \in Keys |-> [enabled |-> e, numericValue |-> Absent]] : e \in BOOLEAN}

\* Bodies that switch every key on and say nothing of the limits, or switch every key
\* off and set its limit
OnOrLimited ==
  {[k \in Keys |-> [enabled |-> TRUE, numericValue |-> Absent]]}
  \cup {[k \in Keys |-> [enabled |-> FALSE, numericValue |-> n]] : n \in Limits}

\* The body that switches every key off
SwitchOff == {[k \in Keys |-> [enabled |-> FALSE, numericValue |-> Absent]]}

Symmetry == Permutations(Instances) \cup Permutations(Tenants) \cup Permutations(Checks)
=============================================================================
