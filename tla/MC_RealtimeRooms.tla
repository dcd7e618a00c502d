--------------------------- MODULE MC_RealtimeRooms ---------------------------
(***************************************************************************)
(* A small instance of RealtimeRooms for TLC.                              *)
(***************************************************************************)
EXTENDS RealtimeRooms, TLC

CONSTANTS a, b, c1, t1, t2

\* a and b administer one tenant, c1 another
TwoTenants == (a :> t1) @@ (b :> t1) @@ (c1 :> t2)
Emails     == [u \in Users |-> u]

SessionAsks ==
  [kind : {"delete", "password"}] \cup [kind : {"active"}, isActive : BOOLEAN]
=============================================================================
