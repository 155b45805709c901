-------------------------- MODULE ImportQueueProofs ---------------------------
(***************************************************************************)
(* Theorems about ImportQueue for any number of jobs, replicas, polls,     *)
(* sessions and picked items, and any set of faults.                       *)
(*                                                                         *)
(* The inductive invariant is Inv: the types; SingleOwner, which needs     *)
(* PollsTerminal, because a poll's DELETE looks at no status; and Content, *)
(* which says what the sink and the row of a job already hold at each      *)
(* point of ProcessJob, and so why no step can add an item twice or fail   *)
(* a job that has imported something.                                      *)
(***************************************************************************)
EXTENDS ImportQueue, TLAPS

\* A poll deletes only what it has read as terminal: final states are final.
PollsTerminal ==
  \A p \in Pollers :
    reading[p] # NoJob =>
      /\ status[reading[p]] \in Finished \cup {"gone"}
      /\ answers[reading[p]] > 0

Below(q, n) == \A x \in Elements(q) : x < n

\* A job that is not yet running, or that failed, has left no trace.
Fresh == \A j \in Jobs : status[j] \in {"absent", "pending", "failed"} => Untouched(j)

\* How far the sink and the row of a job are at each point of ProcessJob.
Stage(w) ==
  /\ pc[w] \in {"list", "markFailed", "setTotal"} => Untouched(cur[w])
  /\ pc[w] \in {"download", "save"} => Below(sunk[cur[w]], item[w])
  /\ At(w, "recordSuccess") =>
       /\ Below(sunk[cur[w]], item[w] + 1)
       /\ item[w] \in Elements(sunk[cur[w]])
       /\ Below(saved[cur[w]], item[w])
  /\ At(w, "recordFailure") => Below(sunk[cur[w]], item[w] + 1)

Ahead   == \A w \in Workers : Stage(w)
Content == Fresh /\ Ahead /\ SinkOnce /\ SavedFaithful
Inv     == TypeOK /\ SingleOwner /\ PollsTerminal /\ Content

-------------------------------------------------------------------------------
\* Every step of a replica, a request, a poll or a fault keeps the types.
LEMMA TypeStep == TypeOK /\ [Next]_vars => TypeOK'
<1>. SUFFICES ASSUME TypeOK, [Next]_vars PROVE TypeOK'
  OBVIOUS
<1>. USE QueueAssumption
<1>. USE DEF Statuses, Finished, Points, Processing, Serving, At, Goto,
             table, request, counts, replica, context, outside, polls, history
<1>1. ASSUME NEW j \in Jobs, NEW s \in Sessions, CreateJob(j, s) PROVE TypeOK'
  <2>1. Types'
    BY <1>1 DEF CreateJob, Types, TypeOK
  <2>2. HoldsJob'
    BY <1>1 DEF CreateJob, Types, HoldsJob, TypeOK
  <2>. QED
    BY <2>1, <2>2 DEF TypeOK
<1>28. ASSUME NEW j \in Jobs, InsertCommits(j) PROVE TypeOK'
  <2>1. Types'
    BY <1>28 DEF InsertCommits, Types, TypeOK
  <2>2. HoldsJob'
    BY <1>28 DEF InsertCommits, Types, HoldsJob, TypeOK
  <2>. QED
    BY <2>1, <2>2 DEF TypeOK
<1>2. ASSUME NEW w \in Workers, Tick(w) PROVE TypeOK'
  <2>1. Types'
    BY <1>2 DEF Tick, Jump, Types, TypeOK
  <2>2. HoldsJob'
    BY <1>2 DEF Tick, Jump, Types, HoldsJob, TypeOK
  <2>. QED
    BY <2>1, <2>2 DEF TypeOK
<1>3. ASSUME NEW w \in Workers, Stop(w) PROVE TypeOK'
  <2>1. Types'
    BY <1>3 DEF Stop, Types, TypeOK
  <2>2. HoldsJob'
    BY <1>3 DEF Stop, Types, HoldsJob, TypeOK
  <2>. QED
    BY <2>1, <2>2 DEF TypeOK
<1>4. ASSUME NEW w \in Workers, DrainCancelled(w) PROVE TypeOK'
  <2>1. Types'
    BY <1>4 DEF DrainCancelled, Jump, Types, TypeOK
  <2>2. HoldsJob'
    BY <1>4 DEF DrainCancelled, Jump, Types, HoldsJob, TypeOK
  <2>. QED
    BY <2>1, <2>2 DEF TypeOK
<1>5. ASSUME NEW w \in Workers, ClaimEmpty(w) PROVE TypeOK'
  <2>1. Types'
    BY <1>5 DEF ClaimEmpty, Jump, Types, TypeOK
  <2>2. HoldsJob'
    BY <1>5 DEF ClaimEmpty, Jump, Types, HoldsJob, TypeOK
  <2>. QED
    BY <2>1, <2>2 DEF TypeOK
<1>6. ASSUME NEW w \in Workers, ClaimError(w) PROVE TypeOK'
  <2>1. Types'
    BY <1>6 DEF ClaimError, Jump, Types, TypeOK
  <2>2. HoldsJob'
    BY <1>6 DEF ClaimError, Jump, Types, HoldsJob, TypeOK
  <2>. QED
    BY <2>1, <2>2 DEF TypeOK
<1>7. ASSUME NEW w \in Workers, NEW j \in Jobs, ClaimSelect(w, j) PROVE TypeOK'
  <2>1. Types'
    BY <1>7 DEF ClaimSelect, Claimable, Free, InQueueBefore, Types, TypeOK
  <2>2. HoldsJob'
    BY <1>7 DEF ClaimSelect, Claimable, Free, Types, HoldsJob, TypeOK
  <2>. QED
    BY <2>1, <2>2 DEF TypeOK
<1>8. ASSUME NEW w \in Workers, NEW o \in Outcomes, ClaimCommit(w, o) PROVE TypeOK'
  <2>1. cur[w] \in Jobs /\ pc[w] = "claim"
    BY <1>8 DEF ClaimCommit, TypeOK, Types, HoldsJob
  <2>2. status' \in [Jobs -> Statuses] /\ \A j \in Jobs : status'[j] # "absent" => status[j] # "absent"
    BY <1>8, <2>1 DEF ClaimCommit, SetStatus, Applied, HasRow, TypeOK, Types
  <2>3. UNCHANGED <<request, counts, shut, outside, reading, answers>>
    BY <1>8 DEF ClaimCommit
  <2>6. passed' \in [Workers -> SUBSET Jobs]
    <3>1. passed \in [Workers -> SUBSET Jobs]
      BY DEF TypeOK, Types
    <3>2. GiveUpClaim(w) => passed' \in [Workers -> SUBSET Jobs]
      BY <3>1 DEF GiveUpClaim
    <3>3. passed' = [passed EXCEPT ![w] = {}] \/ GiveUpClaim(w)
      BY <1>8 DEF ClaimCommit
    <3>. QED
      BY <3>1, <3>2, <3>3
  <2>4. CASE Goto(w, "list") /\ UNCHANGED <<cur, item, expired>>
    <3>1. Types'
      BY <2>4, <2>2, <2>3, <2>6 DEF Types, TypeOK
    <3>2. HoldsJob'
      BY <2>4, <2>2, <2>3, <2>1 DEF Types, HoldsJob, TypeOK
    <3>. QED
      BY <3>1, <3>2 DEF TypeOK
  <2>5. CASE Goto(w, "wait") /\ Drop(w)
    <3>1. Types'
      BY <2>5, <2>2, <2>3, <2>6 DEF Types, TypeOK, Drop
    <3>2. HoldsJob'
      BY <2>5, <2>2, <2>3, <2>1 DEF Types, HoldsJob, TypeOK, Drop
    <3>. QED
      BY <3>1, <3>2 DEF TypeOK
  <2>. QED
    BY <1>8, <2>4, <2>5 DEF ClaimCommit
<1>9. ASSUME NEW w \in Workers, ListOk(w) PROVE TypeOK'
  <2>1. Types'
    BY <1>9 DEF ListOk, Jump, Types, TypeOK
  <2>2. HoldsJob'
    BY <1>9 DEF ListOk, Jump, Types, HoldsJob, TypeOK
  <2>. QED
    BY <2>1, <2>2 DEF TypeOK
<1>10. ASSUME NEW w \in Workers, ListError(w) PROVE TypeOK'
  <2>1. Types'
    BY <1>10 DEF ListError, Jump, Types, TypeOK
  <2>2. HoldsJob'
    BY <1>10 DEF ListError, Jump, Types, HoldsJob, TypeOK
  <2>. QED
    BY <2>1, <2>2 DEF TypeOK
<1>11. ASSUME NEW w \in Workers, NEW o \in Outcomes, MarkFailed(w, o) PROVE TypeOK'
  <2>1. Types'
    BY <1>11 DEF MarkFailed, Return, Drop, Cancel, SetStatus, Applied, HasRow, Types, TypeOK
  <2>2. HoldsJob'
    BY <1>11 DEF MarkFailed, Return, Drop, Cancel, SetStatus, Applied, HasRow, Types, HoldsJob, TypeOK
  <2>. QED
    BY <2>1, <2>2 DEF TypeOK
<1>12. ASSUME NEW w \in Workers, NEW o \in Outcomes, SetTotal(w, o) PROVE TypeOK'
  <2>1. cur[w] \in Jobs /\ session[cur[w]] \in Sessions
    BY <1>12 DEF SetTotal, TypeOK, Types, HoldsJob
  <2>2. total' \in [Jobs -> Nat]
    BY <1>12, <2>1 DEF SetTotal, TypeOK, Types
  <2>3. pc' \in [Workers -> Points] /\ item' \in [Workers -> Nat]
    BY <1>12, <2>1 DEF SetTotal, GotoItem, TypeOK, Types
  <2>4. Types'
    BY <1>12, <2>2, <2>3 DEF SetTotal, Cancel, Deadline, Types, TypeOK
  <2>5. HoldsJob'
    BY <1>12, <2>1, <2>2, <2>3 DEF SetTotal, GotoItem, Cancel, Deadline, Types, HoldsJob, TypeOK
  <2>. QED
    BY <2>4, <2>5 DEF TypeOK
<1>13. ASSUME NEW w \in Workers, DownloadOk(w) PROVE TypeOK'
  <2>1. Types'
    BY <1>13 DEF DownloadOk, Jump, Types, TypeOK
  <2>2. HoldsJob'
    BY <1>13 DEF DownloadOk, Jump, Types, HoldsJob, TypeOK
  <2>. QED
    BY <2>1, <2>2 DEF TypeOK
<1>14. ASSUME NEW w \in Workers, DownloadError(w) PROVE TypeOK'
  <2>1. Types'
    BY <1>14 DEF DownloadError, Jump, Types, TypeOK
  <2>2. HoldsJob'
    BY <1>14 DEF DownloadError, Jump, Types, HoldsJob, TypeOK
  <2>. QED
    BY <2>1, <2>2 DEF TypeOK
<1>15. ASSUME NEW w \in Workers, SaveOk(w) PROVE TypeOK'
  <2>1. cur[w] \in Jobs /\ session[cur[w]] \in Sessions
    BY <1>15 DEF SaveOk, TypeOK, Types, HoldsJob
  <2>2. sunk' \in [Jobs -> Seq(Nat)]
    BY <1>15, <2>1 DEF SaveOk, TypeOK, Types
  <2>3. Types'
    BY <1>15, <2>2 DEF SaveOk, Cancel, Deadline, Types, TypeOK
  <2>4. HoldsJob'
    BY <1>15, <2>1, <2>2 DEF SaveOk, GotoItem, Cancel, Deadline, Types, HoldsJob, TypeOK
  <2>. QED
    BY <2>3, <2>4 DEF TypeOK
<1>16. ASSUME NEW w \in Workers, SaveError(w) PROVE TypeOK'
  <2>1. Types'
    BY <1>16 DEF SaveError, Jump, Types, TypeOK
  <2>2. HoldsJob'
    BY <1>16 DEF SaveError, Jump, Types, HoldsJob, TypeOK
  <2>. QED
    BY <2>1, <2>2 DEF TypeOK
<1>17. ASSUME NEW w \in Workers, NEW o \in Outcomes, RecordItemSuccess(w, o) PROVE TypeOK'
  <2>1. cur[w] \in Jobs /\ session[cur[w]] \in Sessions
    BY <1>17 DEF RecordItemSuccess, RecordItemSuccessThen, TypeOK, Types, HoldsJob
  <2>2. completed' \in [Jobs -> Nat]
    BY <1>17, <2>1 DEF RecordItemSuccess, RecordItemSuccessThen, Bump, TypeOK, Types
  <2>3. saved' \in [Jobs -> Seq(Nat)]
    BY <1>17, <2>1 DEF RecordItemSuccess, RecordItemSuccessThen, TypeOK, Types
  <2>4. PICK l \in Processing : pc' = [pc EXCEPT ![w] = l]
    BY <1>17, <2>1 DEF RecordItemSuccess, RecordItemSuccessThen, GotoItem, TypeOK, Types
  <2>5. item' \in [Workers -> Nat]
    <3>1. item[w] \in Nat /\ item \in [Workers -> Nat]
      BY DEF TypeOK, Types
    <3>2. item' = [item EXCEPT ![w] = item[w] + 1] \/ item' = item
      BY <1>17 DEF RecordItemSuccess, RecordItemSuccessThen, GotoItem
    <3>. QED
      BY <3>1, <3>2
  <2>6. Types'
    BY <1>17, <2>2, <2>3, <2>4, <2>5 DEF RecordItemSuccess, RecordItemSuccessThen, Cancel, Deadline, Types, TypeOK
  <2>7. HoldsJob'
    BY <1>17, <2>1, <2>4 DEF RecordItemSuccess, RecordItemSuccessThen, Cancel, Deadline, Types, HoldsJob, TypeOK
  <2>. QED
    BY <2>6, <2>7 DEF TypeOK
<1>18. ASSUME NEW w \in Workers, NEW o \in Outcomes, RecordItemFailure(w, o) PROVE TypeOK'
  <2>1. cur[w] \in Jobs /\ session[cur[w]] \in Sessions
    BY <1>18 DEF RecordItemFailure, TypeOK, Types, HoldsJob
  <2>2. failedItems' \in [Jobs -> Nat]
    BY <1>18, <2>1 DEF RecordItemFailure, Bump, TypeOK, Types
  <2>3. pc' \in [Workers -> Points] /\ item' \in [Workers -> Nat]
    BY <1>18, <2>1 DEF RecordItemFailure, GotoItem, TypeOK, Types
  <2>4. Types'
    BY <1>18, <2>2, <2>3 DEF RecordItemFailure, Cancel, Deadline, Types, TypeOK
  <2>5. HoldsJob'
    BY <1>18, <2>1, <2>2, <2>3 DEF RecordItemFailure, GotoItem, Cancel, Deadline, Types, HoldsJob, TypeOK
  <2>. QED
    BY <2>4, <2>5 DEF TypeOK
<1>19. ASSUME NEW w \in Workers, NEW o \in Outcomes, MarkComplete(w, o) PROVE TypeOK'
  <2>1. Types'
    BY <1>19 DEF MarkComplete, SetStatus, Applied, HasRow, Cancel, Deadline, Types, TypeOK
  <2>2. HoldsJob'
    BY <1>19 DEF MarkComplete, SetStatus, Applied, HasRow, Cancel, Deadline, Types, HoldsJob, TypeOK
  <2>. QED
    BY <2>1, <2>2 DEF TypeOK
<1>20. ASSUME NEW w \in Workers, DeleteSession(w) PROVE TypeOK'
  <2>1. Types'
    BY <1>20 DEF DeleteSession, Return, Drop, Types, TypeOK
  <2>2. HoldsJob'
    BY <1>20 DEF DeleteSession, Return, Drop, Types, HoldsJob, TypeOK
  <2>. QED
    BY <2>1, <2>2 DEF TypeOK
<1>21. ASSUME NEW w \in Workers, Expire(w) PROVE TypeOK'
  <2>1. Types'
    BY <1>21 DEF Expire, Types, TypeOK
  <2>2. HoldsJob'
    BY <1>21 DEF Expire, Types, HoldsJob, TypeOK
  <2>. QED
    BY <2>1, <2>2 DEF TypeOK
<1>22. ASSUME NEW w \in Workers, Shutdown(w) PROVE TypeOK'
  <2>1. Types'
    BY <1>22 DEF Shutdown, Types, TypeOK
  <2>2. HoldsJob'
    BY <1>22 DEF Shutdown, Types, HoldsJob, TypeOK
  <2>. QED
    BY <2>1, <2>2 DEF TypeOK
<1>23. ASSUME NEW w \in Workers, Crash(w) PROVE TypeOK'
  <2>1. Types'
    BY <1>23 DEF Crash, Drop, GiveUpClaim, Types, TypeOK
  <2>2. HoldsJob'
    BY <1>23 DEF Crash, Drop, Types, HoldsJob, TypeOK
  <2>. QED
    BY <2>1, <2>2 DEF TypeOK
<1>24. ASSUME NEW w \in Workers, Restart(w) PROVE TypeOK'
  <2>1. Types'
    BY <1>24 DEF Restart, Jump, Types, TypeOK
  <2>2. HoldsJob'
    BY <1>24 DEF Restart, Jump, Types, HoldsJob, TypeOK
  <2>. QED
    BY <2>1, <2>2 DEF TypeOK
<1>25. ASSUME NEW p \in Pollers, NEW j \in Jobs, ReadTerminal(p, j) PROVE TypeOK'
  <2>1. Types'
    BY <1>25 DEF ReadTerminal, Types, TypeOK
  <2>2. HoldsJob'
    BY <1>25 DEF ReadTerminal, Types, HoldsJob, TypeOK
  <2>. QED
    BY <2>1, <2>2 DEF TypeOK
<1>26. ASSUME NEW p \in Pollers, DeleteRow(p) PROVE TypeOK'
  <2>1. Types'
    BY <1>26 DEF DeleteRow, SetStatus, Applied, HasRow, Types, TypeOK
  <2>2. HoldsJob'
    BY <1>26 DEF DeleteRow, SetStatus, Applied, HasRow, Types, HoldsJob, TypeOK
  <2>. QED
    BY <2>1, <2>2 DEF TypeOK
<1>27. CASE UNCHANGED vars
  BY <1>27 DEF vars, TypeOK, Types, HoldsJob
<1>. QED
  BY <1>1, <1>2, <1>3, <1>4, <1>5, <1>6, <1>7, <1>8, <1>9,
     <1>10, <1>11, <1>12, <1>13, <1>14, <1>15, <1>16, <1>17, <1>18,
     <1>19, <1>20, <1>21, <1>22, <1>23, <1>24, <1>25, <1>26, <1>27, <1>28
     DEF Next, Run, Claiming, ProcessJob, Fault, Get

\* Every step leaves each row at most one owner, and a row some poll has read
\* as terminal stays terminal until a DELETE removes it.
LEMMA OwnerStep ==
  TypeOK /\ TypeOK' /\ SingleOwner /\ PollsTerminal /\ [Next]_vars
    => SingleOwner' /\ PollsTerminal'
<1>. SUFFICES ASSUME TypeOK, TypeOK', SingleOwner, PollsTerminal, [Next]_vars
     PROVE  SingleOwner' /\ PollsTerminal'
  OBVIOUS
<1>. USE QueueAssumption
<1>. USE DEF Statuses, Finished, Points, Processing, Serving, At, Goto,
             table, request, counts, replica, context, outside, polls, history
<1>1. ASSUME NEW j \in Jobs, NEW s \in Sessions, CreateJob(j, s) PROVE SingleOwner' /\ PollsTerminal'
  <2>1. SingleOwner'
    BY <1>1 DEF CreateJob, SingleOwner, OneHolder, HeldStatus, Types, HoldsJob, TypeOK
  <2>2. PollsTerminal'
    BY <1>1 DEF CreateJob, PollsTerminal, Types, TypeOK
  <2>. QED
    BY <2>1, <2>2
<1>28. ASSUME NEW j \in Jobs, InsertCommits(j) PROVE SingleOwner' /\ PollsTerminal'
  <2>1. SingleOwner'
    BY <1>28 DEF InsertCommits, SingleOwner, OneHolder, HeldStatus, Types, HoldsJob, TypeOK
  <2>2. PollsTerminal'
    BY <1>28 DEF InsertCommits, PollsTerminal, Types, TypeOK
  <2>. QED
    BY <2>1, <2>2
<1>2. ASSUME NEW w \in Workers, Tick(w) PROVE SingleOwner' /\ PollsTerminal'
  <2>1. SingleOwner'
    BY <1>2 DEF Tick, Jump, SingleOwner, OneHolder, HeldStatus, Types, HoldsJob, TypeOK
  <2>2. PollsTerminal'
    BY <1>2 DEF Tick, Jump, PollsTerminal, Types, TypeOK
  <2>. QED
    BY <2>1, <2>2
<1>3. ASSUME NEW w \in Workers, Stop(w) PROVE SingleOwner' /\ PollsTerminal'
  <2>1. SingleOwner'
    BY <1>3 DEF Stop, SingleOwner, OneHolder, HeldStatus, Types, HoldsJob, TypeOK
  <2>2. PollsTerminal'
    BY <1>3 DEF Stop, PollsTerminal, Types, TypeOK
  <2>. QED
    BY <2>1, <2>2
<1>4. ASSUME NEW w \in Workers, DrainCancelled(w) PROVE SingleOwner' /\ PollsTerminal'
  <2>1. SingleOwner'
    BY <1>4 DEF DrainCancelled, Jump, SingleOwner, OneHolder, HeldStatus, Types, HoldsJob, TypeOK
  <2>2. PollsTerminal'
    BY <1>4 DEF DrainCancelled, Jump, PollsTerminal, Types, TypeOK
  <2>. QED
    BY <2>1, <2>2
<1>5. ASSUME NEW w \in Workers, ClaimEmpty(w) PROVE SingleOwner' /\ PollsTerminal'
  <2>1. SingleOwner'
    BY <1>5 DEF ClaimEmpty, Jump, SingleOwner, OneHolder, HeldStatus, Types, HoldsJob, TypeOK
  <2>2. PollsTerminal'
    BY <1>5 DEF ClaimEmpty, Jump, PollsTerminal, Types, TypeOK
  <2>. QED
    BY <2>1, <2>2
<1>6. ASSUME NEW w \in Workers, ClaimError(w) PROVE SingleOwner' /\ PollsTerminal'
  <2>1. SingleOwner'
    BY <1>6 DEF ClaimError, Jump, SingleOwner, OneHolder, HeldStatus, Types, HoldsJob, TypeOK
  <2>2. PollsTerminal'
    BY <1>6 DEF ClaimError, Jump, PollsTerminal, Types, TypeOK
  <2>. QED
    BY <2>1, <2>2
<1>7. ASSUME NEW w \in Workers, NEW j \in Jobs, ClaimSelect(w, j) PROVE SingleOwner' /\ PollsTerminal'
  <2>1. j # NoJob /\ status[j] = "pending" /\ \A v \in Workers : ~(pc[v] = "claim" /\ cur[v] = j)
    BY <1>7 DEF ClaimSelect, Claimable, Free, Locked
  <2>2. \A v \in Workers : cur[v] # j
    BY <2>1 DEF SingleOwner, HeldStatus, TypeOK, Types, HoldsJob
  <2>3. OneHolder'
    BY <1>7, <2>2 DEF ClaimSelect, OneHolder, SingleOwner, TypeOK, Types
  <2>4. HeldStatus'
    BY <1>7 DEF ClaimSelect, Claimable, Free, SingleOwner, HeldStatus, TypeOK, Types, HoldsJob
  <2>5. SingleOwner'
    BY <2>3, <2>4 DEF SingleOwner
  <2>6. PollsTerminal'
    BY <1>7 DEF ClaimSelect, PollsTerminal, TypeOK, Types
  <2>. QED
    BY <2>5, <2>6
<1>8. ASSUME NEW w \in Workers, NEW o \in Outcomes, ClaimCommit(w, o) PROVE SingleOwner' /\ PollsTerminal'
  <2>1. cur[w] \in Jobs /\ pc[w] = "claim" /\ status[cur[w]] = "pending"
    BY <1>8 DEF ClaimCommit, SingleOwner, HeldStatus, TypeOK, Types, HoldsJob
  <2>2. OneHolder'
    <3>1. cur' = cur \/ cur' = [cur EXCEPT ![w] = NoJob]
      BY <1>8 DEF ClaimCommit, Drop
    <3>. QED
      BY <3>1 DEF OneHolder, SingleOwner, TypeOK, Types
  <2>3. \A v \in Workers \ {w} : pc'[v] = pc[v] /\ cur'[v] = cur[v]
    <3>1. CASE Goto(w, "list") /\ UNCHANGED cur
      BY <3>1 DEF TypeOK, Types
    <3>2. CASE Goto(w, "wait") /\ Drop(w)
      BY <3>2 DEF Drop, TypeOK, Types
    <3>. QED
      BY <1>8, <3>1, <3>2 DEF ClaimCommit
  <2>4. \A j \in Jobs \ {cur[w]} : status'[j] = status[j]
    BY <1>8, <2>1 DEF ClaimCommit, SetStatus, Applied, HasRow, TypeOK, Types
  <2>5. o = "ok" => status'[cur[w]] = "running"
    BY <1>8, <2>1 DEF ClaimCommit, SetStatus, Applied, HasRow, TypeOK, Types
  <2>6. pc'[w] \in {"list", "wait"} /\ (pc'[w] = "list" => status'[cur'[w]] = "running")
    BY <1>8, <2>5 DEF ClaimCommit, TypeOK, Types
  <2>7. ASSUME NEW v \in Workers \ {w}
        PROVE  /\ At(v, "claim")' => status'[cur'[v]] = "pending"
               /\ pc'[v] \in Serving => status'[cur'[v]] = "running"
               /\ At(v, "cleanup")' => status'[cur'[v]] \in {"running", "complete", "gone"}
    <3>1. cur[v] # NoJob => cur[v] \in Jobs \ {cur[w]}
      BY <2>1 DEF OneHolder, SingleOwner, TypeOK, Types
    <3>2. pc[v] \in Processing \cup {"claim"} => status'[cur'[v]] = status[cur[v]]
      BY <3>1, <2>3, <2>4 DEF TypeOK, HoldsJob
    <3>. QED
      BY <3>2, <2>3 DEF SingleOwner, HeldStatus
  <2>8. HeldStatus'
    BY <2>6, <2>7 DEF HeldStatus
  <2>9. SingleOwner'
    BY <2>2, <2>8 DEF SingleOwner
  <2>10. PollsTerminal'
    <3>1. UNCHANGED <<reading, answers>>
      BY <1>8 DEF ClaimCommit
    <3>2. ASSUME NEW p \in Pollers, reading[p] # NoJob
          PROVE  reading[p] \in Jobs \ {cur[w]} /\ status[reading[p]] \in Finished \cup {"gone"}
                 /\ answers[reading[p]] > 0
      BY <2>1, <3>2 DEF PollsTerminal, TypeOK, Types
    <3>. QED
      BY <2>4, <3>1, <3>2 DEF PollsTerminal
  <2>. QED
    BY <2>9, <2>10
<1>9. ASSUME NEW w \in Workers, ListOk(w) PROVE SingleOwner' /\ PollsTerminal'
  <2>1. SingleOwner'
    BY <1>9 DEF ListOk, Jump, SingleOwner, OneHolder, HeldStatus, Types, HoldsJob, TypeOK
  <2>2. PollsTerminal'
    BY <1>9 DEF ListOk, Jump, PollsTerminal, Types, TypeOK
  <2>. QED
    BY <2>1, <2>2
<1>10. ASSUME NEW w \in Workers, ListError(w) PROVE SingleOwner' /\ PollsTerminal'
  <2>1. SingleOwner'
    BY <1>10 DEF ListError, Jump, SingleOwner, OneHolder, HeldStatus, Types, HoldsJob, TypeOK
  <2>2. PollsTerminal'
    BY <1>10 DEF ListError, Jump, PollsTerminal, Types, TypeOK
  <2>. QED
    BY <2>1, <2>2
<1>11. ASSUME NEW w \in Workers, NEW o \in Outcomes, MarkFailed(w, o) PROVE SingleOwner' /\ PollsTerminal'
  <2>1. cur[w] \in Jobs /\ status[cur[w]] = "running"
    BY <1>11 DEF MarkFailed, SingleOwner, HeldStatus, TypeOK, Types, HoldsJob
  <2>2. pc' = [pc EXCEPT ![w] = "drain"] /\ cur' = [cur EXCEPT ![w] = NoJob]
    BY <1>11 DEF MarkFailed, Return, Drop
  <2>3. OneHolder'
    BY <2>2 DEF OneHolder, SingleOwner, TypeOK, Types
  <2>4. \A j \in Jobs \ {cur[w]} : status'[j] = status[j]
    BY <1>11, <2>1 DEF MarkFailed, SetStatus, TypeOK, Types
  <2>5. ASSUME NEW v \in Workers \ {w}
        PROVE  /\ At(v, "claim")' => status'[cur'[v]] = "pending"
               /\ pc'[v] \in Serving => status'[cur'[v]] = "running"
               /\ At(v, "cleanup")' => status'[cur'[v]] \in {"running", "complete", "gone"}
    <3>1. cur[v] # NoJob => cur[v] \in Jobs \ {cur[w]}
      BY <2>1 DEF OneHolder, SingleOwner, TypeOK, Types
    <3>2. cur'[v] = cur[v] /\ pc'[v] = pc[v]
      BY <2>2 DEF TypeOK, Types
    <3>3. pc[v] \in Processing \cup {"claim"} => status'[cur'[v]] = status[cur[v]]
      BY <3>1, <3>2, <2>4 DEF TypeOK, HoldsJob
    <3>. QED
      BY <3>2, <3>3 DEF SingleOwner, HeldStatus
  <2>6. pc'[w] = "drain"
    BY <2>2 DEF TypeOK, Types
  <2>7. HeldStatus'
    BY <2>5, <2>6 DEF HeldStatus
  <2>8. SingleOwner'
    BY <2>3, <2>7 DEF SingleOwner
  <2>9. PollsTerminal'
    BY <1>11, <2>1 DEF MarkFailed, SetStatus, Applied, SingleOwner, HeldStatus, PollsTerminal, TypeOK, Types
  <2>. QED
    BY <2>8, <2>9
<1>12. ASSUME NEW w \in Workers, NEW o \in Outcomes, SetTotal(w, o) PROVE SingleOwner' /\ PollsTerminal'
  <2>1. SingleOwner'
    BY <1>12 DEF SetTotal, GotoItem, Applied, HasRow, Cancel, Deadline, SingleOwner, OneHolder, HeldStatus, Types, HoldsJob, TypeOK
  <2>2. PollsTerminal'
    BY <1>12 DEF SetTotal, GotoItem, Applied, HasRow, Cancel, Deadline, PollsTerminal, Types, TypeOK
  <2>. QED
    BY <2>1, <2>2
<1>13. ASSUME NEW w \in Workers, DownloadOk(w) PROVE SingleOwner' /\ PollsTerminal'
  <2>1. SingleOwner'
    BY <1>13 DEF DownloadOk, Jump, SingleOwner, OneHolder, HeldStatus, Types, HoldsJob, TypeOK
  <2>2. PollsTerminal'
    BY <1>13 DEF DownloadOk, Jump, PollsTerminal, Types, TypeOK
  <2>. QED
    BY <2>1, <2>2
<1>14. ASSUME NEW w \in Workers, DownloadError(w) PROVE SingleOwner' /\ PollsTerminal'
  <2>1. SingleOwner'
    BY <1>14 DEF DownloadError, Jump, SingleOwner, OneHolder, HeldStatus, Types, HoldsJob, TypeOK
  <2>2. PollsTerminal'
    BY <1>14 DEF DownloadError, Jump, PollsTerminal, Types, TypeOK
  <2>. QED
    BY <2>1, <2>2
<1>15. ASSUME NEW w \in Workers, SaveOk(w) PROVE SingleOwner' /\ PollsTerminal'
  <2>1. UNCHANGED <<status, cur, reading, answers>>
    BY <1>15 DEF SaveOk
  <2>2. pc[w] \in Serving /\ pc' = [pc EXCEPT ![w] = "recordSuccess"]
    BY <1>15 DEF SaveOk
  <2>3. SingleOwner'
    BY <2>1, <2>2 DEF SingleOwner, OneHolder, HeldStatus, TypeOK, Types
  <2>. QED
    BY <2>1, <2>3 DEF PollsTerminal
<1>16. ASSUME NEW w \in Workers, SaveError(w) PROVE SingleOwner' /\ PollsTerminal'
  <2>1. SingleOwner'
    BY <1>16 DEF SaveError, Jump, SingleOwner, OneHolder, HeldStatus, Types, HoldsJob, TypeOK
  <2>2. PollsTerminal'
    BY <1>16 DEF SaveError, Jump, PollsTerminal, Types, TypeOK
  <2>. QED
    BY <2>1, <2>2
<1>17. ASSUME NEW w \in Workers, NEW o \in Outcomes, RecordItemSuccess(w, o) PROVE SingleOwner' /\ PollsTerminal'
  <2>1. pc[w] \in Serving /\ pc'[w] \in Serving /\ \A v \in Workers \ {w} : pc'[v] = pc[v]
    BY <1>17 DEF RecordItemSuccess, RecordItemSuccessThen, GotoItem, TypeOK, Types
  <2>2. UNCHANGED <<status, cur>>
    BY <1>17 DEF RecordItemSuccess, RecordItemSuccessThen
  <2>3. SingleOwner'
    BY <2>1, <2>2 DEF SingleOwner, OneHolder, HeldStatus
  <2>4. PollsTerminal'
    BY <1>17 DEF RecordItemSuccess, RecordItemSuccessThen, PollsTerminal, TypeOK, Types
  <2>. QED
    BY <2>3, <2>4
<1>18. ASSUME NEW w \in Workers, NEW o \in Outcomes, RecordItemFailure(w, o) PROVE SingleOwner' /\ PollsTerminal'
  <2>1. SingleOwner'
    BY <1>18 DEF RecordItemFailure, GotoItem, Bump, Applied, HasRow, Cancel, Deadline, SingleOwner, OneHolder, HeldStatus, Types, HoldsJob, TypeOK
  <2>2. PollsTerminal'
    BY <1>18 DEF RecordItemFailure, GotoItem, Bump, Applied, HasRow, Cancel, Deadline, PollsTerminal, Types, TypeOK
  <2>. QED
    BY <2>1, <2>2
<1>19. ASSUME NEW w \in Workers, NEW o \in Outcomes, MarkComplete(w, o) PROVE SingleOwner' /\ PollsTerminal'
  <2>1. cur[w] \in Jobs /\ status[cur[w]] = "running" /\ UNCHANGED cur
    BY <1>19 DEF MarkComplete, TypeOK, Types, HoldsJob, SingleOwner, HeldStatus
  <2>3. \A v \in Workers \ {w} : UNCHANGED <<pc[v], cur[v], status[cur[v]]>>
    BY <1>19, <2>1 DEF MarkComplete, SetStatus, Applied, HasRow, OneHolder, SingleOwner, TypeOK, Types, HoldsJob
  <2>4. pc'[w] = "cleanup" /\ status'[cur[w]] \in {"running", "complete"}
    BY <1>19, <2>1 DEF MarkComplete, SetStatus, Applied, HasRow, TypeOK, Types
  <2>5. HeldStatus'
    BY <2>1, <2>3, <2>4 DEF SingleOwner, HeldStatus
  <2>6. SingleOwner'
    BY <2>1, <2>5 DEF SingleOwner, OneHolder
  <2>7. PollsTerminal'
    BY <1>19, <2>1 DEF MarkComplete, SetStatus, Applied, SingleOwner, HeldStatus, PollsTerminal, TypeOK, Types
  <2>. QED
    BY <2>6, <2>7
<1>20. ASSUME NEW w \in Workers, DeleteSession(w) PROVE SingleOwner' /\ PollsTerminal'
  <2>1. SingleOwner'
    BY <1>20 DEF DeleteSession, Return, Drop, SingleOwner, OneHolder, HeldStatus, Types, HoldsJob, TypeOK
  <2>2. PollsTerminal'
    BY <1>20 DEF DeleteSession, Return, Drop, PollsTerminal, Types, TypeOK
  <2>. QED
    BY <2>1, <2>2
<1>21. ASSUME NEW w \in Workers, Expire(w) PROVE SingleOwner' /\ PollsTerminal'
  <2>1. SingleOwner'
    BY <1>21 DEF Expire, SingleOwner, OneHolder, HeldStatus, Types, HoldsJob, TypeOK
  <2>2. PollsTerminal'
    BY <1>21 DEF Expire, PollsTerminal, Types, TypeOK
  <2>. QED
    BY <2>1, <2>2
<1>22. ASSUME NEW w \in Workers, Shutdown(w) PROVE SingleOwner' /\ PollsTerminal'
  <2>1. SingleOwner'
    BY <1>22 DEF Shutdown, SingleOwner, OneHolder, HeldStatus, Types, HoldsJob, TypeOK
  <2>2. PollsTerminal'
    BY <1>22 DEF Shutdown, PollsTerminal, Types, TypeOK
  <2>. QED
    BY <2>1, <2>2
<1>23. ASSUME NEW w \in Workers, Crash(w) PROVE SingleOwner' /\ PollsTerminal'
  <2>1. SingleOwner'
    BY <1>23 DEF Crash, Drop, SingleOwner, OneHolder, HeldStatus, Types, HoldsJob, TypeOK
  <2>2. PollsTerminal'
    BY <1>23 DEF Crash, Drop, PollsTerminal, Types, TypeOK
  <2>. QED
    BY <2>1, <2>2
<1>24. ASSUME NEW w \in Workers, Restart(w) PROVE SingleOwner' /\ PollsTerminal'
  <2>1. SingleOwner'
    BY <1>24 DEF Restart, Jump, SingleOwner, OneHolder, HeldStatus, Types, HoldsJob, TypeOK
  <2>2. PollsTerminal'
    BY <1>24 DEF Restart, Jump, PollsTerminal, Types, TypeOK
  <2>. QED
    BY <2>1, <2>2
<1>25. ASSUME NEW p \in Pollers, NEW j \in Jobs, ReadTerminal(p, j)
       PROVE  SingleOwner' /\ PollsTerminal'
  <2>1. UNCHANGED <<status, pc, cur>> /\ status[j] \in Finished
    BY <1>25 DEF ReadTerminal
  <2>2. reading' = [reading EXCEPT ![p] = j] /\ answers' = [answers EXCEPT ![j] = @ + 1]
    BY <1>25 DEF ReadTerminal
  <2>3. \A k \in Jobs : answers[k] > 0 \/ k = j => answers'[k] > 0
    <3>1. answers \in [Jobs -> Nat]
      BY DEF TypeOK, Types
    <3>. QED
      BY <2>2, <3>1
  <2>4. PollsTerminal'
    BY <2>1, <2>2, <2>3 DEF PollsTerminal, TypeOK, Types
  <2>. QED
    BY <2>1, <2>4 DEF SingleOwner, OneHolder, HeldStatus
<1>26. ASSUME NEW p \in Pollers, DeleteRow(p) PROVE SingleOwner' /\ PollsTerminal'
  <2>1. reading[p] \in Jobs /\ status[reading[p]] \in {"complete", "failed", "gone"}
    BY <1>26 DEF DeleteRow, PollsTerminal, TypeOK, Types
  <2>2. \A j \in Jobs : status'[j] = status[j] \/ (j = reading[p] /\ status'[j] = "gone")
    BY <1>26, <2>1 DEF DeleteRow, SetStatus, Applied, HasRow, TypeOK, Types
  <2>3. SingleOwner'
    BY <1>26, <2>1, <2>2 DEF DeleteRow, SingleOwner, OneHolder, HeldStatus, TypeOK, Types, HoldsJob
  <2>4. PollsTerminal'
    BY <1>26, <2>1, <2>2 DEF DeleteRow, PollsTerminal, TypeOK, Types
  <2>. QED
    BY <2>3, <2>4
<1>27. CASE UNCHANGED vars
  BY <1>27 DEF vars, SingleOwner, OneHolder, HeldStatus, PollsTerminal
<1>. QED
  BY <1>1, <1>2, <1>3, <1>4, <1>5, <1>6, <1>7, <1>8, <1>9,
     <1>10, <1>11, <1>12, <1>13, <1>14, <1>15, <1>16, <1>17, <1>18,
     <1>19, <1>20, <1>21, <1>22, <1>23, <1>24, <1>25, <1>26, <1>27, <1>28
     DEF Next, Run, Claiming, ProcessJob, Fault, Get

\* What || to_jsonb adds to saved_ids, and SavePhoto to the sink: one element.
LEMMA AppendElements ==
  ASSUME NEW q \in Seq(Nat), NEW x \in Nat
  PROVE  Elements(Append(q, x)) = Elements(q) \cup {x}
BY DEF Elements

\* Appending an element larger than the others keeps a sequence increasing.
LEMMA AppendIncreasing ==
  ASSUME NEW q \in Seq(Nat), NEW x \in Nat, Increasing(q), Below(q, x)
  PROVE  Increasing(Append(q, x))
BY DEF Increasing, Elements, Below

\* Going to the next item keeps everything handed over below it.
LEMMA BelowNext ==
  ASSUME NEW q \in Seq(Nat), NEW n \in Nat, Below(q, n)
  PROVE  Below(q, n + 1)
BY DEF Below, Elements

\* The data of job j are left alone.
Same(j) == UNCHANGED <<sunk[j], saved[j], total[j], completed[j], failedItems[j]>>

\* A step of replica w on its own job leaves the other replicas' jobs where
\* they are, because no other replica holds that job.
LEMMA StageFrame ==
  ASSUME TypeOK, OneHolder, Ahead, NEW w \in Workers, cur[w] \in Jobs,
         \A j \in Jobs \ {cur[w]} : Same(j),
         \A v \in Workers \ {w} : UNCHANGED <<pc[v], cur[v], item[v]>>,
         Stage(w)'
  PROVE  Ahead'
<1>. SUFFICES ASSUME NEW v \in Workers \ {w} PROVE Stage(v)'
  BY DEF Ahead
<1>1. CASE cur[v] \in Jobs
  <2>1. Same(cur[v])
    BY <1>1, QueueAssumption DEF OneHolder
  <2>. QED
    BY <2>1 DEF Ahead, Stage, Same, Untouched, At
<1>2. CASE cur[v] = NoJob
  BY <1>2 DEF Stage, At, TypeOK, HoldsJob, Processing, Serving
<1>. QED
  BY <1>1, <1>2 DEF TypeOK, Types

\* Every step keeps what the sink and the rows hold in line with the program
\* point of the replica that holds the job.
LEMMA ContentStep ==
  TypeOK /\ TypeOK' /\ SingleOwner /\ PollsTerminal /\ Content /\ [Next]_vars
    => Content'
<1>. SUFFICES ASSUME TypeOK, TypeOK', SingleOwner, PollsTerminal, Content, [Next]_vars
     PROVE  Content'
  OBVIOUS
<1>. USE QueueAssumption
<1>. USE DEF Statuses, Finished, Points, Processing, Serving, At, Goto,
             table, request, counts, replica, context, outside, polls, history
<1>1. ASSUME NEW j \in Jobs, NEW s \in Sessions, CreateJob(j, s) PROVE Content'
  <2>1. Fresh'
    BY <1>1 DEF CreateJob, Fresh, Untouched, Ahead, Stage, Content, SingleOwner, OneHolder, HeldStatus, Types, HoldsJob, TypeOK
  <2>2. Ahead'
    BY <1>1 DEF CreateJob, Untouched, Ahead, Stage, Content, Types, HoldsJob, TypeOK
  <2>3. (SinkOnce /\ SavedFaithful)'
    BY <1>1 DEF CreateJob, SinkOnce, SavedFaithful, Content
  <2>. QED
    BY <2>1, <2>2, <2>3 DEF Content
<1>28. ASSUME NEW j \in Jobs, InsertCommits(j) PROVE Content'
  <2>1. Fresh'
    BY <1>28 DEF InsertCommits, Fresh, Untouched, Content, Types, TypeOK
  <2>2. Ahead'
    BY <1>28 DEF InsertCommits, Untouched, Ahead, Stage, Content
  <2>3. (SinkOnce /\ SavedFaithful)'
    BY <1>28 DEF InsertCommits, SinkOnce, SavedFaithful, Content
  <2>. QED
    BY <2>1, <2>2, <2>3 DEF Content
<1>2. ASSUME NEW w \in Workers, Tick(w) PROVE Content'
  <2>1. Fresh'
    BY <1>2 DEF Tick, Jump, Fresh, Untouched, Ahead, Stage, Content, Types, HoldsJob, TypeOK
  <2>2. Ahead'
    BY <1>2 DEF Tick, Jump, Untouched, Ahead, Stage, Content, Types, HoldsJob, TypeOK
  <2>3. (SinkOnce /\ SavedFaithful)'
    BY <1>2 DEF Tick, Jump, SinkOnce, SavedFaithful, Content
  <2>. QED
    BY <2>1, <2>2, <2>3 DEF Content
<1>3. ASSUME NEW w \in Workers, Stop(w) PROVE Content'
  <2>1. Fresh'
    BY <1>3 DEF Stop, Fresh, Untouched, Ahead, Stage, Content, Types, HoldsJob, TypeOK
  <2>2. Ahead'
    BY <1>3 DEF Stop, Untouched, Ahead, Stage, Content, Types, HoldsJob, TypeOK
  <2>3. (SinkOnce /\ SavedFaithful)'
    BY <1>3 DEF Stop, SinkOnce, SavedFaithful, Content
  <2>. QED
    BY <2>1, <2>2, <2>3 DEF Content
<1>4. ASSUME NEW w \in Workers, DrainCancelled(w) PROVE Content'
  <2>1. Fresh'
    BY <1>4 DEF DrainCancelled, Jump, Fresh, Untouched, Ahead, Stage, Content, Types, HoldsJob, TypeOK
  <2>2. Ahead'
    BY <1>4 DEF DrainCancelled, Jump, Untouched, Ahead, Stage, Content, Types, HoldsJob, TypeOK
  <2>3. (SinkOnce /\ SavedFaithful)'
    BY <1>4 DEF DrainCancelled, Jump, SinkOnce, SavedFaithful, Content
  <2>. QED
    BY <2>1, <2>2, <2>3 DEF Content
<1>5. ASSUME NEW w \in Workers, ClaimEmpty(w) PROVE Content'
  <2>1. Fresh'
    BY <1>5 DEF ClaimEmpty, Jump, Fresh, Untouched, Ahead, Stage, Content, Types, HoldsJob, TypeOK
  <2>2. Ahead'
    BY <1>5 DEF ClaimEmpty, Jump, Untouched, Ahead, Stage, Content, Types, HoldsJob, TypeOK
  <2>3. (SinkOnce /\ SavedFaithful)'
    BY <1>5 DEF ClaimEmpty, Jump, SinkOnce, SavedFaithful, Content
  <2>. QED
    BY <2>1, <2>2, <2>3 DEF Content
<1>6. ASSUME NEW w \in Workers, ClaimError(w) PROVE Content'
  <2>1. Fresh'
    BY <1>6 DEF ClaimError, Jump, Fresh, Untouched, Ahead, Stage, Content, Types, HoldsJob, TypeOK
  <2>2. Ahead'
    BY <1>6 DEF ClaimError, Jump, Untouched, Ahead, Stage, Content, Types, HoldsJob, TypeOK
  <2>3. (SinkOnce /\ SavedFaithful)'
    BY <1>6 DEF ClaimError, Jump, SinkOnce, SavedFaithful, Content
  <2>. QED
    BY <2>1, <2>2, <2>3 DEF Content
<1>7. ASSUME NEW w \in Workers, NEW j \in Jobs, ClaimSelect(w, j) PROVE Content'
  <2>1. Fresh'
    BY <1>7 DEF ClaimSelect, Claimable, Free, Fresh, Untouched, Ahead, Stage, Content, SingleOwner, OneHolder, HeldStatus, Types, HoldsJob, TypeOK
  <2>2. Ahead'
    BY <1>7 DEF ClaimSelect, Claimable, Free, Untouched, Ahead, Stage, Content, Types, HoldsJob, TypeOK
  <2>3. (SinkOnce /\ SavedFaithful)'
    BY <1>7 DEF ClaimSelect, SinkOnce, SavedFaithful, Content
  <2>. QED
    BY <2>1, <2>2, <2>3 DEF Content
<1>8. ASSUME NEW w \in Workers, NEW o \in Outcomes, ClaimCommit(w, o) PROVE Content'
  <2>1. cur[w] \in Jobs /\ Untouched(cur[w])
    BY <1>8 DEF ClaimCommit, SingleOwner, HeldStatus, Content, Fresh, TypeOK, Types, HoldsJob
  <2>2. \A j \in Jobs : Same(j)
    BY <1>8 DEF ClaimCommit, Same
  <2>3. \/ Goto(w, "list") /\ UNCHANGED <<cur, item>>
        \/ Goto(w, "wait") /\ Drop(w)
    BY <1>8 DEF ClaimCommit
  <2>4. \A v \in Workers \ {w} : UNCHANGED <<pc[v], cur[v], item[v]>>
    BY <2>3 DEF Drop, TypeOK, Types
  <2>5. Stage(w)'
    <3>1. CASE Goto(w, "list") /\ UNCHANGED <<cur, item>>
      BY <2>1, <2>2, <3>1 DEF Stage, Same, Untouched, TypeOK, Types
    <3>2. CASE Goto(w, "wait")
      BY <3>2 DEF Stage, TypeOK, Types
    <3>. QED
      BY <2>3, <3>1, <3>2
  <2>6. Ahead'
    BY <2>1, <2>2, <2>4, <2>5, StageFrame DEF Content, SingleOwner
  <2>7. (SinkOnce /\ SavedFaithful)'
    BY <1>8 DEF ClaimCommit, SinkOnce, SavedFaithful, Content
  <2>8. Fresh'
    BY <1>8, <2>1 DEF ClaimCommit, SetStatus, Fresh, Untouched, Content, TypeOK, Types
  <2>. QED
    BY <2>6, <2>7, <2>8 DEF Content
<1>9. ASSUME NEW w \in Workers, ListOk(w) PROVE Content'
  <2>1. Fresh'
    BY <1>9 DEF ListOk, Jump, Fresh, Untouched, Ahead, Stage, Content, Types, HoldsJob, TypeOK
  <2>2. Ahead'
    BY <1>9 DEF ListOk, Jump, Untouched, Ahead, Stage, Content, Types, HoldsJob, TypeOK
  <2>3. (SinkOnce /\ SavedFaithful)'
    BY <1>9 DEF ListOk, Jump, SinkOnce, SavedFaithful, Content
  <2>. QED
    BY <2>1, <2>2, <2>3 DEF Content
<1>10. ASSUME NEW w \in Workers, ListError(w) PROVE Content'
  <2>1. Fresh'
    BY <1>10 DEF ListError, Jump, Fresh, Untouched, Ahead, Stage, Content, Types, HoldsJob, TypeOK
  <2>2. Ahead'
    BY <1>10 DEF ListError, Jump, Untouched, Ahead, Stage, Content, Types, HoldsJob, TypeOK
  <2>3. (SinkOnce /\ SavedFaithful)'
    BY <1>10 DEF ListError, Jump, SinkOnce, SavedFaithful, Content
  <2>. QED
    BY <2>1, <2>2, <2>3 DEF Content
<1>11. ASSUME NEW w \in Workers, NEW o \in Outcomes, MarkFailed(w, o) PROVE Content'
  <2>1. Fresh'
    BY <1>11 DEF MarkFailed, Return, Drop, Cancel, SetStatus, Applied, HasRow, Fresh, Untouched, Ahead, Stage, Content, SingleOwner, OneHolder, HeldStatus, Types, HoldsJob, TypeOK
  <2>2. Ahead'
    BY <1>11 DEF MarkFailed, Return, Drop, Cancel, SetStatus, Applied, HasRow, Untouched, Ahead, Stage, Content, Types, HoldsJob, TypeOK
  <2>3. (SinkOnce /\ SavedFaithful)'
    BY <1>11 DEF MarkFailed, SinkOnce, SavedFaithful, Content
  <2>. QED
    BY <2>1, <2>2, <2>3 DEF Content
<1>12. ASSUME NEW w \in Workers, NEW o \in Outcomes, SetTotal(w, o) PROVE Content'
  <2>1. cur[w] \in Jobs /\ Untouched(cur[w])
    BY <1>12 DEF SetTotal, Content, Ahead, Stage, TypeOK, Types, HoldsJob
  <2>2. \A j \in Jobs \ {cur[w]} : Same(j)
    BY <1>12, <2>1 DEF SetTotal, Same, TypeOK, Types
  <2>3. UNCHANGED <<cur, sunk>> /\ pc'[w] \in {"download", "markComplete"}
    BY <1>12 DEF SetTotal, GotoItem, TypeOK, Types
  <2>4. \A v \in Workers \ {w} : UNCHANGED <<pc[v], cur[v], item[v]>>
    BY <1>12 DEF SetTotal, GotoItem, TypeOK, Types
  <2>5. Stage(w)'
    <3>1. sunk'[cur'[w]] = <<>>
      BY <2>1, <2>3 DEF Untouched
    <3>. QED
      BY <2>3, <3>1 DEF Stage, Below, Elements
  <2>6. Ahead'
    BY <2>1, <2>2, <2>4, <2>5, StageFrame DEF Content, SingleOwner
  <2>7. (SinkOnce /\ SavedFaithful)'
    BY <1>12 DEF SetTotal, SinkOnce, SavedFaithful, Content
  <2>8. Fresh'
    BY <1>12, <2>1 DEF SetTotal, Fresh, Untouched, SingleOwner, HeldStatus, Content, TypeOK, Types
  <2>. QED
    BY <2>6, <2>7, <2>8 DEF Content
<1>13. ASSUME NEW w \in Workers, DownloadOk(w) PROVE Content'
  <2>1. Fresh'
    BY <1>13 DEF DownloadOk, Jump, Fresh, Untouched, Ahead, Stage, Content, Types, HoldsJob, TypeOK
  <2>2. Ahead'
    BY <1>13 DEF DownloadOk, Jump, Untouched, Ahead, Stage, Content, Types, HoldsJob, TypeOK
  <2>3. (SinkOnce /\ SavedFaithful)'
    BY <1>13 DEF DownloadOk, Jump, SinkOnce, SavedFaithful, Content
  <2>. QED
    BY <2>1, <2>2, <2>3 DEF Content
<1>14. ASSUME NEW w \in Workers, DownloadError(w) PROVE Content'
  <2>1. cur[w] \in Jobs /\ Below(sunk[cur[w]], item[w])
    BY <1>14 DEF DownloadError, Jump, Content, Ahead, Stage, TypeOK, Types, HoldsJob
  <2>2. (\A j \in Jobs : Same(j)) /\ UNCHANGED <<cur, item>> /\ pc' = [pc EXCEPT ![w] = "recordFailure"]
    BY <1>14 DEF DownloadError, Jump, Same
  <2>3. Below(sunk[cur[w]], item[w] + 1)
    BY <2>1, BelowNext DEF TypeOK, Types
  <2>4. Stage(w)'
    BY <2>1, <2>2, <2>3 DEF Stage, Same, TypeOK, Types, Below, Elements
  <2>5. Ahead'
    BY <2>1, <2>2, <2>4, StageFrame DEF Content, SingleOwner, TypeOK, Types
  <2>6. (Fresh /\ SinkOnce /\ SavedFaithful)'
    BY <1>14 DEF DownloadError, Jump, Fresh, Untouched, SinkOnce, SavedFaithful, Content
  <2>. QED
    BY <2>5, <2>6 DEF Content
<1>15. ASSUME NEW w \in Workers, SaveOk(w) PROVE Content'
  <2> DEFINE j == cur[w]
  <2>1. j \in Jobs /\ status[j] = "running" /\ Below(sunk[j], item[w]) /\ item[w] \in Nat /\ sunk[j] \in Seq(Nat)
    BY <1>15 DEF SaveOk, SingleOwner, HeldStatus, Content, Ahead, Stage, TypeOK, Types, HoldsJob
  <2>2. sunk'[j] = Append(sunk[j], item[w]) /\ \A k \in Jobs \ {j} : sunk'[k] = sunk[k]
    BY <1>15, <2>1 DEF SaveOk, TypeOK, Types
  <2>3. UNCHANGED <<status, total, completed, failedItems, saved, cur, item>>
    BY <1>15 DEF SaveOk
  <2>4. Elements(sunk'[j]) = Elements(sunk[j]) \cup {item[w]}
    BY <2>1, <2>2, AppendElements
  <2>5. Increasing(sunk'[j])
    BY <2>1, <2>2, AppendIncreasing DEF Content, SinkOnce
  <2>6. Fresh'
    BY <2>1, <2>2, <2>3 DEF Fresh, Untouched, Content
  <2>7. Below(saved[j], item[w])
    BY <2>1 DEF Below, Content, SavedFaithful
  <2>8. Stage(w)'
    <3>1. pc'[w] = "recordSuccess"
      BY <1>15 DEF SaveOk, TypeOK, Types
    <3>2. Below(sunk'[j], item[w] + 1)
      BY <2>1, <2>4, BelowNext DEF Below
    <3>. QED
      BY <3>1, <3>2, <2>3, <2>4, <2>7 DEF Stage
  <2>9. Ahead'
    <3>1. \A v \in Workers \ {w} : UNCHANGED <<pc[v], cur[v], item[v]>>
      BY <1>15 DEF SaveOk, TypeOK, Types
    <3>2. \A k \in Jobs \ {j} : Same(k)
      BY <2>2, <2>3 DEF Same
    <3>. QED
      BY <2>1, <2>8, <3>1, <3>2, StageFrame DEF Content, SingleOwner
  <2>10. SinkOnce'
    BY <2>2, <2>5 DEF SinkOnce, Content
  <2>11. SavedFaithful'
    BY <2>2, <2>3, <2>4 DEF SavedFaithful, Content
  <2>. QED
    BY <2>6, <2>9, <2>10, <2>11 DEF Content
<1>16. ASSUME NEW w \in Workers, SaveError(w) PROVE Content'
  <2>1. cur[w] \in Jobs /\ Below(sunk[cur[w]], item[w])
    BY <1>16 DEF SaveError, Jump, Content, Ahead, Stage, TypeOK, Types, HoldsJob
  <2>2. (\A j \in Jobs : Same(j)) /\ UNCHANGED <<cur, item>> /\ pc' = [pc EXCEPT ![w] = "recordFailure"]
    BY <1>16 DEF SaveError, Jump, Same
  <2>3. Below(sunk[cur[w]], item[w] + 1)
    BY <2>1, BelowNext DEF TypeOK, Types
  <2>4. Stage(w)'
    BY <2>1, <2>2, <2>3 DEF Stage, Same, TypeOK, Types, Below, Elements
  <2>5. Ahead'
    BY <2>1, <2>2, <2>4, StageFrame DEF Content, SingleOwner, TypeOK, Types
  <2>6. (Fresh /\ SinkOnce /\ SavedFaithful)'
    BY <1>16 DEF SaveError, Jump, Fresh, Untouched, SinkOnce, SavedFaithful, Content
  <2>. QED
    BY <2>5, <2>6 DEF Content
<1>17. ASSUME NEW w \in Workers, NEW o \in Outcomes, RecordItemSuccess(w, o) PROVE Content'
  <2> DEFINE j == cur[w]
  <2>1. /\ j \in Jobs /\ status[j] = "running" /\ item[w] \in Nat
        /\ sunk[j] \in Seq(Nat) /\ saved[j] \in Seq(Nat) /\ completed[j] \in Nat
    BY <1>17 DEF RecordItemSuccess, RecordItemSuccessThen, SingleOwner, HeldStatus, TypeOK, Types, HoldsJob
  <2>2. /\ Below(sunk[j], item[w] + 1)
        /\ item[w] \in Elements(sunk[j])
        /\ Below(saved[j], item[w])
    BY <1>17 DEF RecordItemSuccess, RecordItemSuccessThen, Content, Ahead, Stage
  <2>3. UNCHANGED <<status, total, failedItems, sunk, cur>>
    BY <1>17 DEF RecordItemSuccess, RecordItemSuccessThen
  <2>4. \A k \in Jobs \ {j} : Same(k)
    BY <1>17, <2>1, <2>3 DEF RecordItemSuccess, RecordItemSuccessThen, Bump, Same, TypeOK, Types
  <2>5. \/ completed'[j] = completed[j] /\ saved'[j] = saved[j]
        \/ completed'[j] = completed[j] + 1 /\ saved'[j] = Append(saved[j], item[w])
    <3>1. CASE Applied(j, o)
      BY <1>17, <2>1, <3>1 DEF RecordItemSuccess, RecordItemSuccessThen, Bump, TypeOK, Types
    <3>2. CASE ~Applied(j, o)
      BY <1>17, <2>1, <3>2 DEF RecordItemSuccess, RecordItemSuccessThen, Bump, TypeOK, Types
    <3>. QED
      BY <3>1, <3>2
  <2>6. Fresh'
    BY <2>1, <2>3, <2>4 DEF Fresh, Untouched, Same, Content
  <2>7. \/ item' = [item EXCEPT ![w] = item[w] + 1] /\ pc'[w] \in {"download", "markComplete"}
        \/ item' = item /\ pc'[w] = "recordFailure"
    BY <1>17 DEF RecordItemSuccess, RecordItemSuccessThen, GotoItem, TypeOK, Types
  <2>8. Stage(w)'
    BY <2>2, <2>3, <2>7 DEF Stage, TypeOK, Types
  <2>9. Ahead'
    <3>1. \A v \in Workers \ {w} : pc'[v] = pc[v]
      BY <1>17 DEF RecordItemSuccess, RecordItemSuccessThen, GotoItem, TypeOK, Types
    <3>2. \A v \in Workers \ {w} : UNCHANGED <<pc[v], cur[v], item[v]>>
      BY <3>1, <2>3, <2>7 DEF TypeOK, Types
    <3>. QED
      BY <2>1, <2>4, <2>8, <3>2, StageFrame DEF Content, SingleOwner
  <2>10. SinkOnce'
    BY <2>3 DEF SinkOnce, Content
  <2>11. SavedFaithful'
    <3>1. /\ completed'[j] = Len(saved'[j])
          /\ Increasing(saved'[j])
          /\ Elements(saved'[j]) \subseteq Elements(sunk[j])
      <4>1. CASE saved'[j] = saved[j] /\ completed'[j] = completed[j]
        BY <2>1, <4>1 DEF Content, SavedFaithful
      <4>2. CASE saved'[j] = Append(saved[j], item[w]) /\ completed'[j] = completed[j] + 1
        <5>1. Len(saved'[j]) = Len(saved[j]) + 1
          BY <2>1, <4>2
        <5>2. Elements(saved'[j]) = Elements(saved[j]) \cup {item[w]}
          BY <2>1, <4>2, AppendElements
        <5>3. Increasing(saved'[j])
          BY <2>1, <2>2, <4>2, AppendIncreasing DEF Content, SavedFaithful
        <5>. QED
          BY <2>1, <2>2, <4>2, <5>1, <5>2, <5>3 DEF Content, SavedFaithful
      <4>. QED
        BY <2>5, <4>1, <4>2
    <3>. QED
      BY <2>3, <2>4, <3>1 DEF SavedFaithful, Same, Content
  <2>. QED
    BY <2>6, <2>9, <2>10, <2>11 DEF Content
<1>18. ASSUME NEW w \in Workers, NEW o \in Outcomes, RecordItemFailure(w, o) PROVE Content'
  <2>1. cur[w] \in Jobs /\ status[cur[w]] = "running" /\ Below(sunk[cur[w]], item[w] + 1)
    BY <1>18 DEF RecordItemFailure, SingleOwner, HeldStatus, Content, Ahead, Stage, TypeOK, Types, HoldsJob
  <2>2. UNCHANGED <<status, total, completed, saved, sunk, cur>>
    BY <1>18 DEF RecordItemFailure
  <2>3. \A k \in Jobs \ {cur[w]} : Same(k)
    BY <1>18, <2>1, <2>2 DEF RecordItemFailure, Bump, Same, TypeOK, Types
  <2>4. item' = [item EXCEPT ![w] = item[w] + 1] /\ pc'[w] \in {"download", "markComplete"}
    BY <1>18 DEF RecordItemFailure, GotoItem, TypeOK, Types
  <2>5. \A v \in Workers \ {w} : UNCHANGED <<pc[v], cur[v], item[v]>>
    BY <1>18 DEF RecordItemFailure, GotoItem, TypeOK, Types
  <2>6. Stage(w)'
    BY <2>1, <2>2, <2>4 DEF Stage, TypeOK, Types
  <2>7. Fresh'
    BY <2>1, <2>2, <2>3 DEF Fresh, Untouched, Same, Content
  <2>8. Ahead'
    BY <2>1, <2>3, <2>5, <2>6, StageFrame DEF Content, SingleOwner
  <2>9. (SinkOnce /\ SavedFaithful)'
    BY <2>2 DEF SinkOnce, SavedFaithful, Content
  <2>. QED
    BY <2>7, <2>8, <2>9 DEF Content
<1>19. ASSUME NEW w \in Workers, NEW o \in Outcomes, MarkComplete(w, o) PROVE Content'
  <2>1. Fresh'
    BY <1>19 DEF MarkComplete, SetStatus, Applied, HasRow, Cancel, Deadline, Fresh, Untouched, Ahead, Stage, Content, SingleOwner, OneHolder, HeldStatus, Types, HoldsJob, TypeOK
  <2>2. Ahead'
    BY <1>19 DEF MarkComplete, SetStatus, Applied, HasRow, Cancel, Deadline, Untouched, Ahead, Stage, Content, Types, HoldsJob, TypeOK
  <2>3. (SinkOnce /\ SavedFaithful)'
    BY <1>19 DEF MarkComplete, SinkOnce, SavedFaithful, Content
  <2>. QED
    BY <2>1, <2>2, <2>3 DEF Content
<1>20. ASSUME NEW w \in Workers, DeleteSession(w) PROVE Content'
  <2>1. Fresh'
    BY <1>20 DEF DeleteSession, Return, Drop, Fresh, Untouched, Ahead, Stage, Content, Types, HoldsJob, TypeOK
  <2>2. Ahead'
    BY <1>20 DEF DeleteSession, Return, Drop, Untouched, Ahead, Stage, Content, Types, HoldsJob, TypeOK
  <2>3. (SinkOnce /\ SavedFaithful)'
    BY <1>20 DEF DeleteSession, SinkOnce, SavedFaithful, Content
  <2>. QED
    BY <2>1, <2>2, <2>3 DEF Content
<1>21. ASSUME NEW w \in Workers, Expire(w) PROVE Content'
  <2>1. Fresh'
    BY <1>21 DEF Expire, Fresh, Untouched, Ahead, Stage, Content, Types, HoldsJob, TypeOK
  <2>2. Ahead'
    BY <1>21 DEF Expire, Untouched, Ahead, Stage, Content, Types, HoldsJob, TypeOK
  <2>3. (SinkOnce /\ SavedFaithful)'
    BY <1>21 DEF Expire, SinkOnce, SavedFaithful, Content
  <2>. QED
    BY <2>1, <2>2, <2>3 DEF Content
<1>22. ASSUME NEW w \in Workers, Shutdown(w) PROVE Content'
  <2>1. Fresh'
    BY <1>22 DEF Shutdown, Fresh, Untouched, Ahead, Stage, Content, Types, HoldsJob, TypeOK
  <2>2. Ahead'
    BY <1>22 DEF Shutdown, Untouched, Ahead, Stage, Content, Types, HoldsJob, TypeOK
  <2>3. (SinkOnce /\ SavedFaithful)'
    BY <1>22 DEF Shutdown, SinkOnce, SavedFaithful, Content
  <2>. QED
    BY <2>1, <2>2, <2>3 DEF Content
<1>23. ASSUME NEW w \in Workers, Crash(w) PROVE Content'
  <2>1. Fresh'
    BY <1>23 DEF Crash, Drop, Fresh, Untouched, Ahead, Stage, Content, Types, HoldsJob, TypeOK
  <2>2. Ahead'
    BY <1>23 DEF Crash, Drop, Untouched, Ahead, Stage, Content, Types, HoldsJob, TypeOK
  <2>3. (SinkOnce /\ SavedFaithful)'
    BY <1>23 DEF Crash, SinkOnce, SavedFaithful, Content
  <2>. QED
    BY <2>1, <2>2, <2>3 DEF Content
<1>24. ASSUME NEW w \in Workers, Restart(w) PROVE Content'
  <2>1. Fresh'
    BY <1>24 DEF Restart, Jump, Fresh, Untouched, Ahead, Stage, Content, Types, HoldsJob, TypeOK
  <2>2. Ahead'
    BY <1>24 DEF Restart, Jump, Untouched, Ahead, Stage, Content, Types, HoldsJob, TypeOK
  <2>3. (SinkOnce /\ SavedFaithful)'
    BY <1>24 DEF Restart, Jump, SinkOnce, SavedFaithful, Content
  <2>. QED
    BY <2>1, <2>2, <2>3 DEF Content
<1>25. ASSUME NEW p \in Pollers, NEW j \in Jobs, ReadTerminal(p, j) PROVE Content'
  <2>1. Fresh'
    BY <1>25 DEF ReadTerminal, Fresh, Untouched, Ahead, Stage, Content, Types, HoldsJob, TypeOK
  <2>2. Ahead'
    BY <1>25 DEF ReadTerminal, Untouched, Ahead, Stage, Content, Types, HoldsJob, TypeOK
  <2>3. (SinkOnce /\ SavedFaithful)'
    BY <1>25 DEF ReadTerminal, SinkOnce, SavedFaithful, Content
  <2>. QED
    BY <2>1, <2>2, <2>3 DEF Content
<1>26. ASSUME NEW p \in Pollers, DeleteRow(p) PROVE Content'
  <2>1. Fresh'
    BY <1>26 DEF DeleteRow, SetStatus, Applied, HasRow, Fresh, Untouched, Ahead, Stage, Content, SingleOwner, OneHolder, HeldStatus, PollsTerminal, Types, HoldsJob, TypeOK
  <2>2. Ahead'
    BY <1>26 DEF DeleteRow, SetStatus, Applied, HasRow, Untouched, Ahead, Stage, Content, Types, HoldsJob, TypeOK
  <2>3. (SinkOnce /\ SavedFaithful)'
    BY <1>26 DEF DeleteRow, SinkOnce, SavedFaithful, Content
  <2>. QED
    BY <2>1, <2>2, <2>3 DEF Content
<1>27. CASE UNCHANGED vars
  BY <1>27 DEF vars, Fresh, Untouched, Ahead, Stage, SinkOnce, SavedFaithful, Content
<1>. QED
  BY <1>1, <1>2, <1>3, <1>4, <1>5, <1>6, <1>7, <1>8, <1>9,
     <1>10, <1>11, <1>12, <1>13, <1>14, <1>15, <1>16, <1>17, <1>18,
     <1>19, <1>20, <1>21, <1>22, <1>23, <1>24, <1>25, <1>26, <1>27, <1>28
     DEF Next, Run, Claiming, ProcessJob, Fault, Get

-------------------------------------------------------------------------------
\* An empty queue satisfies the invariant.
LEMMA InvInit == Init => Inv
<1>. SUFFICES ASSUME Init PROVE Inv
  OBVIOUS
<1>1. TypeOK
  BY QueueAssumption
     DEF Init, TypeOK, Types, HoldsJob, Statuses, Finished, Points, Processing, Serving
<1>2. SingleOwner /\ PollsTerminal
  BY DEF Init, SingleOwner, OneHolder, HeldStatus, PollsTerminal, Serving, At
<1>3. Content
  BY DEF Init, Content, Fresh, Untouched, Ahead, Stage, SinkOnce, SavedFaithful,
         Increasing, Elements, At
<1>. QED
  BY <1>1, <1>2, <1>3 DEF Inv

\* Every step of the queue keeps the invariant.
LEMMA InvStep == Inv /\ [Next]_vars => Inv'
BY TypeStep, OwnerStep, ContentStep DEF Inv

\* Inv is an invariant of the import queue.
THEOREM InvHolds == Spec => []Inv
BY InvInit, InvStep, PTL DEF Spec

\* A replica holds a job exactly while it claims or processes it, and every
\* variable keeps its type.
THEOREM TypeCorrect == Spec => []TypeOK
<1>1. Inv => TypeOK
  BY DEF Inv
<1>. QED
  BY <1>1, InvHolds, PTL

\* However many replicas share the queue, no two process one job, and nothing
\* but its own replica moves the row of a job being processed.
THEOREM ReplicasExclusive == Spec => []SingleOwner
<1>1. Inv => SingleOwner
  BY DEF Inv
<1>. QED
  BY <1>1, InvHolds, PTL

\* No picked item reaches the sink twice for one job, in any order of faults.
THEOREM SinkAtMostOnce == Spec => []SinkOnce
<1>1. Inv => SinkOnce
  BY DEF Inv, Content
<1>. QED
  BY <1>1, InvHolds, PTL

\* The saved ids of a row are distinct items the sink accepted, and the success
\* counter is their number.
THEOREM SavedIsFaithful == Spec => []SavedFaithful
<1>1. Inv => SavedFaithful
  BY DEF Inv, Content
<1>. QED
  BY <1>1, InvHolds, PTL

\* A job that failed has imported nothing.
THEOREM FailedLeftNothing == Spec => []FailedUntouched
<1>1. Inv => FailedUntouched
  BY DEF Inv, Content, Fresh, FailedUntouched
<1>. QED
  BY <1>1, InvHolds, PTL

-------------------------------------------------------------------------------
\* An empty queue is one where no job of JobLifecycle exists yet.
LEMMA InitMaps == Init => Lifecycle!LifecycleInit
<1>. SUFFICES ASSUME Init PROVE Lifecycle!LifecycleInit
  OBVIOUS
<1>1. status = [j \in Jobs |-> "absent"]
  BY DEF Init
<1>2. [j \in Jobs |-> completed[j] + failedItems[j]] = [j \in Jobs |-> 0]
  BY DEF Init
<1>3. {j \in Jobs : answers[j] > 0} = {}
  BY DEF Init
<1>. QED
  BY <1>1, <1>2, <1>3 DEF Lifecycle!LifecycleInit

\* Each step of the queue is a step of one job in JobLifecycle or changes
\* nothing there: seven kinds of steps matter to a caller, the others do not.
LEMMA StepMaps ==
  Inv /\ Inv' /\ [Next]_vars => [Lifecycle!LifecycleNext]_(Lifecycle!abstractVars)
<1>. SUFFICES ASSUME Inv, Inv', [Next]_vars
     PROVE  Lifecycle!LifecycleNext \/ UNCHANGED Lifecycle!abstractVars
  OBVIOUS
<1>. DEFINE Maps == Lifecycle!LifecycleNext \/ UNCHANGED Lifecycle!abstractVars
<1>0. ASSUME NEW j \in Jobs, Lifecycle!LifecycleStep(j) PROVE Maps
  BY <1>0 DEF Lifecycle!LifecycleNext
<1>. USE QueueAssumption
<1>. USE DEF Statuses, Finished, Points, Processing, Serving, At, Goto,
             Inv, table, request, counts, replica, context, outside, polls, history
<1>1. ASSUME NEW j \in Jobs, NEW s \in Sessions, CreateJob(j, s) PROVE Maps
  BY <1>1 DEF CreateJob, Lifecycle!abstractVars
<1>28. ASSUME NEW j \in Jobs, InsertCommits(j) PROVE Maps
  <2>1. Lifecycle!Create(j)
    BY <1>28 DEF InsertCommits, Lifecycle!Create, Lifecycle!Move
  <2>. QED
    BY <1>0, <2>1 DEF Lifecycle!LifecycleStep
<1>2. ASSUME NEW w \in Workers, Tick(w) PROVE Maps
  BY <1>2 DEF Tick, Jump, Lifecycle!abstractVars
<1>3. ASSUME NEW w \in Workers, Stop(w) PROVE Maps
  BY <1>3 DEF Stop, Lifecycle!abstractVars
<1>4. ASSUME NEW w \in Workers, DrainCancelled(w) PROVE Maps
  BY <1>4 DEF DrainCancelled, Jump, Lifecycle!abstractVars
<1>5. ASSUME NEW w \in Workers, ClaimEmpty(w) PROVE Maps
  BY <1>5 DEF ClaimEmpty, Jump, Lifecycle!abstractVars
<1>6. ASSUME NEW w \in Workers, ClaimError(w) PROVE Maps
  BY <1>6 DEF ClaimError, Jump, Lifecycle!abstractVars
<1>7. ASSUME NEW w \in Workers, NEW j \in Jobs, ClaimSelect(w, j) PROVE Maps
  BY <1>7 DEF ClaimSelect, Lifecycle!abstractVars
<1>8. ASSUME NEW w \in Workers, NEW o \in Outcomes, ClaimCommit(w, o) PROVE Maps
  <2>1. cur[w] \in Jobs /\ status[cur[w]] = "pending"
    BY <1>8 DEF ClaimCommit, SingleOwner, HeldStatus, TypeOK, Types, HoldsJob
  <2>2. UNCHANGED <<completed, failedItems, answers>>
    BY <1>8 DEF ClaimCommit
  <2>3. status' = [status EXCEPT ![cur[w]] = "running"] \/ status' = status
    BY <1>8 DEF ClaimCommit, SetStatus
  <2>4. Lifecycle!Claim(cur[w]) \/ UNCHANGED Lifecycle!abstractVars
    BY <2>1, <2>2, <2>3 DEF Lifecycle!Claim, Lifecycle!Move, Lifecycle!abstractVars
  <2>. QED
    BY <1>0, <2>1, <2>4 DEF Lifecycle!LifecycleStep
<1>9. ASSUME NEW w \in Workers, ListOk(w) PROVE Maps
  BY <1>9 DEF ListOk, Jump, Lifecycle!abstractVars
<1>10. ASSUME NEW w \in Workers, ListError(w) PROVE Maps
  BY <1>10 DEF ListError, Jump, Lifecycle!abstractVars
<1>11. ASSUME NEW w \in Workers, NEW o \in Outcomes, MarkFailed(w, o) PROVE Maps
  <2>1. cur[w] \in Jobs /\ status[cur[w]] = "running" /\ Untouched(cur[w])
    BY <1>11 DEF MarkFailed, SingleOwner, HeldStatus, Content, Ahead, Stage, TypeOK, Types, HoldsJob
  <2>2. UNCHANGED <<completed, failedItems, answers>>
    BY <1>11 DEF MarkFailed
  <2>3. status' = [status EXCEPT ![cur[w]] = "failed"] \/ status' = status
    BY <1>11 DEF MarkFailed, SetStatus
  <2>4. completed[cur[w]] + failedItems[cur[w]] = 0
    BY <2>1 DEF Untouched
  <2>5. Lifecycle!Fail(cur[w]) \/ UNCHANGED Lifecycle!abstractVars
    BY <2>1, <2>2, <2>3, <2>4 DEF Lifecycle!Fail, Lifecycle!Move, Lifecycle!abstractVars
  <2>. QED
    BY <1>0, <2>1, <2>5 DEF Lifecycle!LifecycleStep
<1>12. ASSUME NEW w \in Workers, NEW o \in Outcomes, SetTotal(w, o) PROVE Maps
  BY <1>12 DEF SetTotal, Lifecycle!abstractVars
<1>13. ASSUME NEW w \in Workers, DownloadOk(w) PROVE Maps
  BY <1>13 DEF DownloadOk, Jump, Lifecycle!abstractVars
<1>14. ASSUME NEW w \in Workers, DownloadError(w) PROVE Maps
  BY <1>14 DEF DownloadError, Jump, Lifecycle!abstractVars
<1>15. ASSUME NEW w \in Workers, SaveOk(w) PROVE Maps
  BY <1>15 DEF SaveOk, Lifecycle!abstractVars
<1>16. ASSUME NEW w \in Workers, SaveError(w) PROVE Maps
  BY <1>16 DEF SaveError, Jump, Lifecycle!abstractVars
<1>17. ASSUME NEW w \in Workers, NEW o \in Outcomes, RecordItemSuccess(w, o) PROVE Maps
  <2>1. PICK j \in Jobs : j = cur[w] /\ status[j] = "running"
    BY <1>17 DEF RecordItemSuccess, RecordItemSuccessThen, SingleOwner, HeldStatus, TypeOK, Types, HoldsJob
  <2>2. UNCHANGED <<status, answers>>
    BY <1>17 DEF RecordItemSuccess, RecordItemSuccessThen
  <2>3. \/ UNCHANGED <<completed, failedItems>>
        \/ completed' = [completed EXCEPT ![j] = @ + 1] /\ failedItems' = failedItems
    BY <1>17, <2>1 DEF RecordItemSuccess, RecordItemSuccessThen, Bump
  <2>4. CASE UNCHANGED <<completed, failedItems>>
    BY <2>2, <2>4 DEF Lifecycle!abstractVars
  <2>5. CASE ~ UNCHANGED <<completed, failedItems>>
    <3> DEFINE tally == [k \in Jobs |-> completed[k] + failedItems[k]]
    <3>1. completed \in [Jobs -> Nat] /\ failedItems \in [Jobs -> Nat]
      BY DEF TypeOK, Types
    <3>2. \A k \in Jobs : completed'[k] + failedItems'[k]
                            = IF k = j THEN completed[k] + failedItems[k] + 1
                                       ELSE completed[k] + failedItems[k]
      BY <2>3, <2>5, <3>1
    <3>3. tally' = [tally EXCEPT ![j] = @ + 1]
      BY <3>2
    <3>4. Lifecycle!CountItem(j)
      BY <2>1, <2>2, <3>3 DEF Lifecycle!CountItem
    <3>. QED
      BY <1>0, <3>4 DEF Lifecycle!LifecycleStep
  <2>. QED
    BY <2>4, <2>5
<1>18. ASSUME NEW w \in Workers, NEW o \in Outcomes, RecordItemFailure(w, o) PROVE Maps
  <2>1. PICK j \in Jobs : j = cur[w] /\ status[j] = "running"
    BY <1>18 DEF RecordItemFailure, SingleOwner, HeldStatus, TypeOK, Types, HoldsJob
  <2>2. UNCHANGED <<status, answers>>
    BY <1>18 DEF RecordItemFailure
  <2>3. \/ UNCHANGED <<completed, failedItems>>
        \/ failedItems' = [failedItems EXCEPT ![j] = @ + 1] /\ completed' = completed
    BY <1>18, <2>1 DEF RecordItemFailure, Bump
  <2>4. CASE UNCHANGED <<completed, failedItems>>
    BY <2>2, <2>4 DEF Lifecycle!abstractVars
  <2>5. CASE ~ UNCHANGED <<completed, failedItems>>
    <3> DEFINE tally == [k \in Jobs |-> completed[k] + failedItems[k]]
    <3>1. completed \in [Jobs -> Nat] /\ failedItems \in [Jobs -> Nat]
      BY DEF TypeOK, Types
    <3>2. \A k \in Jobs : completed'[k] + failedItems'[k]
                            = IF k = j THEN completed[k] + failedItems[k] + 1
                                       ELSE completed[k] + failedItems[k]
      BY <2>3, <2>5, <3>1
    <3>3. tally' = [tally EXCEPT ![j] = @ + 1]
      BY <3>2
    <3>4. Lifecycle!CountItem(j)
      BY <2>1, <2>2, <3>3 DEF Lifecycle!CountItem
    <3>. QED
      BY <1>0, <3>4 DEF Lifecycle!LifecycleStep
  <2>. QED
    BY <2>4, <2>5
<1>19. ASSUME NEW w \in Workers, NEW o \in Outcomes, MarkComplete(w, o) PROVE Maps
  <2>1. cur[w] \in Jobs /\ status[cur[w]] = "running"
    BY <1>19 DEF MarkComplete, SingleOwner, HeldStatus, TypeOK, Types, HoldsJob
  <2>2. UNCHANGED <<completed, failedItems, answers>>
    BY <1>19 DEF MarkComplete
  <2>3. status' = [status EXCEPT ![cur[w]] = "complete"] \/ status' = status
    BY <1>19 DEF MarkComplete, SetStatus
  <2>4. Lifecycle!Complete(cur[w]) \/ UNCHANGED Lifecycle!abstractVars
    BY <2>1, <2>2, <2>3 DEF Lifecycle!Complete, Lifecycle!Move, Lifecycle!abstractVars
  <2>. QED
    BY <1>0, <2>1, <2>4 DEF Lifecycle!LifecycleStep
<1>20. ASSUME NEW w \in Workers, DeleteSession(w) PROVE Maps
  BY <1>20 DEF DeleteSession, Lifecycle!abstractVars
<1>21. ASSUME NEW w \in Workers, Expire(w) PROVE Maps
  BY <1>21 DEF Expire, Lifecycle!abstractVars
<1>22. ASSUME NEW w \in Workers, Shutdown(w) PROVE Maps
  BY <1>22 DEF Shutdown, Lifecycle!abstractVars
<1>23. ASSUME NEW w \in Workers, Crash(w) PROVE Maps
  BY <1>23 DEF Crash, Lifecycle!abstractVars
<1>24. ASSUME NEW w \in Workers, Restart(w) PROVE Maps
  BY <1>24 DEF Restart, Jump, Lifecycle!abstractVars
<1>25. ASSUME NEW p \in Pollers, NEW j \in Jobs, ReadTerminal(p, j) PROVE Maps
  <2>1. {k \in Jobs : answers'[k] > 0} = {k \in Jobs : answers[k] > 0} \cup {j}
    BY <1>25 DEF ReadTerminal, TypeOK, Types
  <2>2. status[j] \in Finished /\ UNCHANGED <<status, completed, failedItems>>
    BY <1>25 DEF ReadTerminal
  <2>3. Lifecycle!Answer(j)
    BY <2>1, <2>2 DEF Lifecycle!Answer, Lifecycle!Finished
  <2>. QED
    BY <1>0, <2>3 DEF Lifecycle!LifecycleStep
<1>26. ASSUME NEW p \in Pollers, DeleteRow(p) PROVE Maps
  <2> DEFINE j == reading[p]
  <2>1. j \in Jobs /\ status[j] \in Finished \cup {"gone"} /\ answers[j] > 0
    BY <1>26 DEF DeleteRow, PollsTerminal, TypeOK, Types
  <2>2. UNCHANGED <<completed, failedItems, answers>>
    BY <1>26 DEF DeleteRow
  <2>3. status' = status \/ (HasRow(j) /\ status' = [status EXCEPT ![j] = "gone"])
    BY <1>26 DEF DeleteRow, SetStatus, Applied
  <2>4. Lifecycle!Remove(j) \/ UNCHANGED Lifecycle!abstractVars
    BY <2>1, <2>2, <2>3 DEF HasRow, Lifecycle!Remove, Lifecycle!Finished, Lifecycle!abstractVars
  <2>. QED
    BY <1>0, <2>1, <2>4 DEF Lifecycle!LifecycleStep
<1>27. CASE UNCHANGED vars
  BY <1>27 DEF vars, Lifecycle!abstractVars
<1>. QED
  BY <1>1, <1>2, <1>3, <1>4, <1>5, <1>6, <1>7, <1>8, <1>9,
     <1>10, <1>11, <1>12, <1>13, <1>14, <1>15, <1>16, <1>17, <1>18,
     <1>19, <1>20, <1>21, <1>22, <1>23, <1>24, <1>25, <1>26, <1>27, <1>28
     DEF Next, Run, Claiming, ProcessJob, Fault, Get

\* Every behaviour of the queue, faults included, is one JobLifecycle allows.
THEOREM QueueImplementsLifecycle == Spec => ImplementsLifecycle
BY InitMaps, StepMaps, InvHolds, PTL DEF Spec, ImplementsLifecycle, Lifecycle!LifecycleSpec
===============================================================================
