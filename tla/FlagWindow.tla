------------------------------- MODULE FlagWindow -------------------------------
(***************************************************************************)
(* What the flag cache promises, without its Map, its timers, its queries  *)
(* or its invalidation: a process either asks the database about a tenant  *)
(* or relies on a view of it, it adopts as view only what was true at most *)
(* Lag ago, it may give up any view at any time, and time does not pass    *)
(* over a view that would then be out of date by more than Window.         *)
(***************************************************************************)
EXTENDS Naturals

CONSTANTS
  Instances, Tenants,
  Contents,   \* what the table may hold for a tenant
  Empty,      \* what it holds at first
  Lag, Window,
  Never       \* ages are told apart up to this one

VARIABLES
  truth,      \* truth[t]: what the table holds for t
  lastTrue,   \* lastTrue[t][f]: how long ago the table last held f for t
  view        \* view[i]: what process i relies on, a function on some tenants

vars == <<truth, lastTrue, view>>

Init ==
  /\ truth = [t \in Tenants |-> Empty]
  /\ lastTrue = [t \in Tenants |-> [f \in Contents |-> IF f = Empty THEN 0 ELSE Never]]
  /\ view = [i \in Instances |-> [t \in {} |-> Empty]]

\* now is obtained from before by giving up some of its views.
GivesUp(before, now) ==
  /\ DOMAIN now \subseteq DOMAIN before
  /\ \A t \in DOMAIN now : now[t] = before[t]

Write(t, f) ==
  /\ truth' = [truth EXCEPT ![t] = f]
  /\ lastTrue' = [lastTrue EXCEPT ![t] = [@ EXCEPT ![f] = 0]]
  /\ UNCHANGED view

\* Process i adopts a view of t, and may give up views of other tenants for it.
Learn(i, t) ==
  /\ t \in DOMAIN view'[i]
  /\ lastTrue[t][view'[i][t]] <= Lag
  /\ DOMAIN view'[i] \subseteq DOMAIN view[i] \cup {t}
  /\ \A s \in DOMAIN view'[i] \ {t} : view'[i][s] = view[i][s]
  /\ view' = [view EXCEPT ![i] = view'[i]]
  /\ UNCHANGED <<truth, lastTrue>>

Forget(i) ==
  /\ GivesUp(view[i], view'[i])
  /\ view' = [view EXCEPT ![i] = view'[i]]
  /\ UNCHANGED <<truth, lastTrue>>

Elapse ==
  /\ lastTrue' = [t \in Tenants |-> [f \in Contents |->
       IF f = truth[t] THEN 0
       ELSE IF lastTrue[t][f] < Never THEN lastTrue[t][f] + 1 ELSE Never]]
  /\ \A i \in Instances :
       /\ GivesUp(view[i], view'[i])
       /\ \A t \in DOMAIN view'[i] : lastTrue'[t][view'[i][t]] <= Window
  /\ view' = [i \in Instances |-> view'[i]]
  /\ UNCHANGED truth

Next ==
  \/ \E t \in Tenants, f \in Contents : Write(t, f)
  \/ \E i \in Instances : Forget(i) \/ \E t \in Tenants : Learn(i, t)
  \/ Elapse

Spec == Init /\ [][Next]_vars
=============================================================================
