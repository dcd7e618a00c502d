------------------------------- MODULE SingleUse -------------------------------
(***************************************************************************)
(* What the anti-bot stack promises of a form token: a process lets the    *)
(* same token through once, and never once the token has expired.  The     *)
(* process forgets that it did when it restarts, when the token has        *)
(* expired, and when it remembers MaxEntries others.                       *)
(***************************************************************************)
EXTENDS Naturals, FiniteSets

CONSTANTS Procs, Tokens, Slots, MaxEntries

VARIABLES
  submissions,  \* submissions[s]: the submission in slot s
  remembered,   \* remembered[p]: tokens that p knows it let through
  expired       \* expired[p]: tokens that have expired by the clock of p

vars == <<submissions, remembered, expired>>

Init ==
  /\ remembered = [p \in Procs |-> {}]
  /\ \A s \in Slots : submissions[s].phase = "idle"

LetThrough(s, p, t) ==
  /\ submissions[s].phase = "consume"
  /\ submissions[s].proc = p /\ submissions[s].token = t
  /\ t \notin remembered[p] /\ t \notin expired[p]
  /\ \E dead \in SUBSET (remembered[p] \cap expired[p]), over \in SUBSET remembered[p] :
       /\ over # {} => Cardinality(remembered[p] \ dead) >= MaxEntries
       /\ remembered' =
            [remembered EXCEPT ![p] = (remembered[p] \ (dead \cup over)) \cup {t}]
  /\ submissions' = [submissions EXCEPT ![s] =
       [phase |-> "answered", proc |-> p, token |-> t, answer |-> "handled"]]
  /\ UNCHANGED expired

Handled(s) == submissions'[s].phase = "answered" /\ submissions'[s].answer = "handled"

\* Anything else that happens to submissions: they arrive, move on, are answered in
\* another way, end, or are lost with their process.
Proceed ==
  /\ \A s \in Slots : submissions'[s] # submissions[s] => ~Handled(s)
  /\ \A p \in Procs :
       \/ remembered'[p] = {}
       \/ /\ remembered'[p] \subseteq remembered[p]
          /\ remembered[p] \ remembered'[p] \subseteq expired[p]
  /\ DOMAIN remembered' = Procs
  /\ UNCHANGED expired

\* Expiring is for good.
Expire ==
  /\ \A p \in Procs : expired[p] \subseteq expired'[p]
  /\ UNCHANGED <<submissions, remembered>>

Next ==
  \/ \E s \in Slots, p \in Procs, t \in Tokens : LetThrough(s, p, t)
  \/ Proceed
  \/ Expire

Spec == Init /\ [][Next]_vars
=============================================================================
