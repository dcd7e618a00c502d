------------------------ MODULE TenantFeaturesRefinement ------------------------
(***************************************************************************)
(* TenantFeatures implements FlagWindow: the entries of a process that are *)
(* not expired are its views.                                              *)
(***************************************************************************)
EXTENDS TenantFeatures

LiveView ==
  [i \in Instances |->
     [t \in {s \in DOMAIN cache[i] : Hit(cache[i], s)} |-> cache[i][t].features]]

FW == INSTANCE FlagWindow WITH
        Contents <- FeatureList,
        Empty    <- [k \in {} |-> Null],
        Lag      <- ReadLag,
        truth    <- db,
        view     <- LiveView

\* Every behaviour of the instances, their faults included, is one of the
\* bounded-staleness promise: writes, adopting, dropping and ageing of entries
\* map to steps of FlagWindow, all the rest to stuttering.
ImplementsFlagWindow == FW!Spec
=============================================================================
