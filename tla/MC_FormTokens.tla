---------------------------- MODULE MC_FormTokens ----------------------------
(***************************************************************************)
(* Small instances of FormTokens for TLC.                                  *)
(***************************************************************************)
EXTENDS FormTokens, TLC

CONSTANTS front, back

\* The clock of back is a second ahead
Drift == (front :> 0) @@ (back :> Second)
Together == (front :> 0)

\* A template just cloned: a secret per process, no captcha
Template(max) == [shared |-> FALSE, turnstile |-> FALSE, failOpen |-> TRUE, maxTime |-> max]
Cloned == {Template(4)}

\* One whose window is shorter than a second, and replicas with a window that is longer,
\* a secret and a captcha that fails closed
Deployments ==
  {Template(1),
   [shared |-> TRUE, turnstile |-> TRUE, failOpen |-> FALSE, maxTime |-> 4]}

Symmetry == Permutations(Slots) \cup Permutations(Tokens)
=============================================================================
