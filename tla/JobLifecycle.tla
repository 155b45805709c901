----------------------------- MODULE JobLifecycle -----------------------------
(***************************************************************************)
(* What an ImportStore and its workers promise about one import job, with  *)
(* no worker, lock, request or fault in sight: the abstract specification  *)
(* that ImportQueue implements (the ImportStore interface of stores.go).   *)
(*                                                                         *)
(*  - a job is claimed at most once and never goes back to the queue;      *)
(*  - its item counters grow one item at a time, and only while it runs;   *)
(*  - it fails only before any item was counted;                           *)
(*  - its terminal status is final until the row is removed, and the row   *)
(*    is removed only after a poll has read that status.                   *)
(***************************************************************************)
EXTENDS Naturals

CONSTANT Jobs        \* identifiers of import jobs

VARIABLES phase,     \* where each job is in its life
          tally,     \* how many items its row accounts for
          answered   \* whether a poll has read its terminal status

abstractVars == <<phase, tally, answered>>

Finished == {"complete", "failed"}
Phases   == {"absent", "pending", "running", "gone"} \cup Finished

LifecycleInit ==
  /\ phase    = [j \in Jobs |-> "absent"]
  /\ tally    = [j \in Jobs |-> 0]
  /\ answered = {}

Move(j, from, to) ==
  /\ phase[j] = from
  /\ phase' = [phase EXCEPT ![j] = to]

Create(j) == Move(j, "absent", "pending") /\ UNCHANGED <<tally, answered>>

Claim(j) == Move(j, "pending", "running") /\ UNCHANGED <<tally, answered>>

CountItem(j) ==
  /\ phase[j] = "running"
  /\ tally' = [tally EXCEPT ![j] = @ + 1]
  /\ UNCHANGED <<phase, answered>>

Complete(j) == Move(j, "running", "complete") /\ UNCHANGED <<tally, answered>>

Fail(j) ==
  /\ tally[j] = 0
  /\ Move(j, "running", "failed")
  /\ UNCHANGED <<tally, answered>>

Answer(j) ==
  /\ phase[j] \in Finished
  /\ answered' = answered \cup {j}
  /\ UNCHANGED <<phase, tally>>

Remove(j) ==
  /\ phase[j] \in Finished
  /\ j \in answered
  /\ phase' = [phase EXCEPT ![j] = "gone"]
  /\ UNCHANGED <<tally, answered>>

LifecycleStep(j) ==
  \/ Create(j) \/ Claim(j) \/ CountItem(j) \/ Complete(j)
  \/ Fail(j) \/ Answer(j) \/ Remove(j)

LifecycleNext == \E j \in Jobs : LifecycleStep(j)

LifecycleSpec == LifecycleInit /\ [][LifecycleNext]_abstractVars
===============================================================================
