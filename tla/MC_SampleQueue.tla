----------------------------- MODULE MC_SampleQueue -----------------------------
(***************************************************************************)
(* Small instances of SampleQueue for TLC.                                 *)
(***************************************************************************)
EXTENDS SampleQueue, TLC

OneTenant == [s \in Existing |-> CHOOSE t \in Tenants : TRUE]

Schedule(s) == [kind |-> "schedule", tenant |-> OneTenant[s], sample |-> s]

\* Every request about the samples that exist, a PATCH being one that reactivates, and
\* the creation of the others at the end of the list
EveryKind ==
  UNION {{[kind |-> "patch", tenant |-> OneTenant[s], sample |-> s,
           isActive |-> TRUE, sortOrder |-> Absent],
          [kind |-> "delete", tenant |-> OneTenant[s], sample |-> s],
          Schedule(s)} : s \in Existing}
  \cup [kind : {"create"}, tenant : Tenants, sample : Samples \ Existing,
        sortOrder : {Absent}]

Schedules == {Schedule(s) : s \in Existing}

SlotSymmetry == Permutations(Requests) \cup Permutations(Workers) \cup Permutations(Jobs)
=============================================================================
