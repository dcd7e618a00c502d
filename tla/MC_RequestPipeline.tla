-------------------------- MODULE MC_RequestPipeline --------------------------
(***************************************************************************)
(* A small instance of RequestPipeline for TLC.                            *)
(***************************************************************************)
EXTENDS RequestPipeline, TLC

CONSTANTS member, listed, t1, t2, t3, cnpj, other

\* Both belong to t1; one is listed as a system administrator, and is one only while
\* his row is not active
OneTeam   == (member :> t1) @@ (listed :> t1)
TeamRoles == (member :> "USER") @@ (listed :> "ADMIN")
OneTenant == (t1 :> cnpj)

File(declared, detected) == [declared |-> declared, detected |-> detected]

RouteAsks ==
  {[route |-> "ready"]}
  \cup {[route |-> "create", document |-> d] : d \in Documents}
  \cup [route : {"patch"}, id : {t1}, name : {Absent}, isActive : {TRUE, FALSE}]
  \cup [route : {"remove"}, id : {t1, t2}]
  \cup [route : {"upload"}, file : {File("image", "image"), File("pdf", "image")}]
=============================================================================
