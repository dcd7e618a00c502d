---------------------------- MODULE MC_UserAccounts ----------------------------
(***************************************************************************)
(* Small instances of UserAccounts for TLC.                                *)
(***************************************************************************)
EXTENDS UserAccounts, TLC

CONSTANTS a, b, n, t1

\* a and b administer one tenant
OneTenant == (a :> t1) @@ (b :> t1)

\* Everyone has an e-mail of his own, but n wants the one of b
Emails == [u \in Users |-> IF u = n THEN b ELSE u]

Patches     == [kind : {"patch"}, role : {Absent, "USER", "ADMIN"}]
Activations == [kind : {"active"}, isActive : BOOLEAN]
Deletion    == [kind : {"delete"}]
Creations   == [kind : {"create"}, role : Roles]
Password    == [kind : {"password"}]

RowAsks == Patches \cup Activations \cup Deletion \cup Creations \cup Password

Symmetry == Permutations(Requests)
=============================================================================
