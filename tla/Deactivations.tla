----------------------------- MODULE Deactivations -----------------------------
(***************************************************************************)
(* What POST :id/deactivations promises, without attempts, locks, workers   *)
(* or requests.  A call may or may not put its deactivation into the queue, *)
(* whatever it is answered; 202 is answered only of one that is there.      *)
(* What is in the queue ends once and for all: kept, which takes that the   *)
(* sample was off at some moment since, or broken.                          *)
(***************************************************************************)
CONSTANTS Samples, Jobs

VARIABLES
  off,      \* the samples that are switched off or removed
  promises  \* promises[j]: what became of deactivation j

vars == <<off, promises>>

None  == [state |-> "none"]
Taken == {"pending", "kept", "broken"}

Init ==
  /\ off = {}
  /\ promises = [j \in Jobs |-> None]

Call(j) ==
  /\ promises[j] = None
  /\ \E s \in Samples :
       promises' = [promises EXCEPT ![j] =
         [state |-> "called", sample |-> s, answer |-> 0, wasOff |-> FALSE]]
  /\ UNCHANGED off

\* Deactivations in the queue take note of what is off.
Noted(P, table) ==
  [j \in Jobs |->
     IF P[j].state \in Taken /\ P[j].sample \in table
     THEN [P[j] EXCEPT !.wasOff = TRUE] ELSE P[j]]

Enqueue(j) ==
  /\ promises[j].state = "called"
  /\ promises' = Noted([promises EXCEPT ![j].state = "pending"], off)
  /\ UNCHANGED off

\* It never reaches the queue.
Vanish(j) ==
  /\ promises[j].state = "called"
  /\ promises' = [promises EXCEPT ![j].state = "vanished"]
  /\ UNCHANGED off

\* A call is answered once.
Answer(j, code) ==
  /\ promises[j] # None /\ promises[j].answer = 0
  /\ code = 202 => promises[j].state \in Taken
  /\ promises' = [promises EXCEPT ![j].answer = code]
  /\ UNCHANGED off

\* Samples are switched off and on, by deactivations and by others.
Switch ==
  /\ off' \in SUBSET Samples
  /\ promises' = Noted(promises, off')

Keep(j) ==
  /\ promises[j].state = "pending" /\ promises[j].wasOff
  /\ promises' = [promises EXCEPT ![j].state = "kept"]
  /\ UNCHANGED off

Break(j) ==
  /\ promises[j].state = "pending"
  /\ promises' = [promises EXCEPT ![j].state = "broken"]
  /\ UNCHANGED off

Next ==
  \/ \E j \in Jobs :
       \/ Call(j) \/ Enqueue(j) \/ Vanish(j) \/ Keep(j) \/ Break(j)
       \/ \E code \in {202, 503} : Answer(j, code)
  \/ Switch

Spec == Init /\ [][Next]_vars
=============================================================================
