-------------------------- MODULE ImportOrderProofs ---------------------------
(***************************************************************************)
(* In which order ImportQueue starts its jobs and how it loses one, for    *)
(* any jobs, sessions, picks, polls and replicas.                          *)
(*                                                                         *)
(* FOR UPDATE SKIP LOCKED makes the queue first-in first-out only up to    *)
(* the rows that other claims hold locked at the SELECT, and only among    *)
(* the rows whose INSERT has committed by then. Of each row that a claim   *)
(* so passes over another claim must give account: it starts the row, or   *)
(* is given up.                                                            *)
(*                                                                         *)
(* A job stays running for ever only if its replica lets go of it under a  *)
(* done context, or dies: the precise extent of the finding on ProcessJob. *)
(***************************************************************************)
EXTENDS ImportQueueProofs

\* InTurn, and that the rows a claim passed over exist: none becomes pending anew.
Owed ==
  \A w \in Workers : \A k \in passed[w] :
    status[k] # "absent" /\ (status[k] = "pending" => Locked(k))

\* The steps that begin or end a claim.
Turns(w) ==
  \/ \E j \in Jobs : ClaimSelect(w, j)
  \/ \E o \in Outcomes : ClaimCommit(w, o)
  \/ Crash(w)

\* A row that exists stays, in a status that is no longer pending once it was not.
LEMMA RowsAge ==
  ASSUME Inv, [Next]_vars, NEW k \in Jobs, status[k] # "absent"
  PROVE  status'[k] # "absent" /\ (status'[k] = "pending" => status[k] = "pending")
<1>. USE DEF Inv, TypeOK, Types, table, SetStatus
<1>1. ASSUME NEW w \in Workers, Run(w) \/ Fault(w)
      PROVE  status'[k] # "absent" /\ (status'[k] = "pending" => status[k] = "pending")
  BY <1>1 DEF Run, Claiming, ProcessJob, Jump, Tick, Stop, DrainCancelled, ClaimEmpty, ClaimError,
     ClaimSelect, ClaimCommit, ListOk, ListError, DownloadOk, DownloadError, SaveOk, SaveError,
     MarkFailed, SetTotal, RecordItemSuccess, RecordItemSuccessThen, RecordItemFailure, MarkComplete,
     DeleteSession, Fault, Expire, Shutdown, Crash, Restart
<1>2. ASSUME NEW p \in Pollers, Get(p)
      PROVE  status'[k] # "absent" /\ (status'[k] = "pending" => status[k] = "pending")
  BY <1>2 DEF Get, ReadTerminal, DeleteRow
<1>3. ASSUME NEW j \in Jobs, NEW s \in Sessions, CreateJob(j, s)
      PROVE  UNCHANGED status
  BY <1>3 DEF CreateJob
<1>4. ASSUME NEW j \in Jobs, InsertCommits(j)
      PROVE  status'[k] # "absent" /\ (status'[k] = "pending" => status[k] = "pending")
  BY <1>4 DEF InsertCommits
<1>5. CASE UNCHANGED vars
  BY <1>5 DEF vars
<1>. QED
  BY <1>1, <1>2, <1>3, <1>4, <1>5 DEF Next

\* A claim keeps its lock, and owes what it owed, until a claim begins or ends.
LEMMA ClaimsStay ==
  ASSUME Inv, [Next]_vars, ~\E w \in Workers : Turns(w)
  PROVE  /\ UNCHANGED passed
         /\ \A v \in Workers : At(v, "claim") => At(v, "claim")' /\ cur'[v] = cur[v]
<1>. USE DEF Inv, TypeOK, Types, Goto, At, Return, replica, polls, history
<1>1. ASSUME NEW w \in Workers, Run(w) \/ Fault(w)
      PROVE  /\ UNCHANGED passed
             /\ \A v \in Workers : At(v, "claim") => At(v, "claim")' /\ cur'[v] = cur[v]
  <2>1. UNCHANGED passed
    BY <1>1 DEF Turns, Run, Claiming, ProcessJob, Jump, Tick, Stop, DrainCancelled, ClaimEmpty,
       ClaimError, ListOk, ListError, DownloadOk, DownloadError, SaveOk, SaveError, MarkFailed,
       SetTotal, RecordItemSuccess, RecordItemSuccessThen, RecordItemFailure, MarkComplete,
       DeleteSession, Fault, Expire, Shutdown, Restart
  <2>2. \A v \in Workers \ {w} : UNCHANGED <<pc[v], cur[v]>>
    BY <1>1 DEF Turns, Run, Claiming, ProcessJob, Jump, Tick, Stop, DrainCancelled, ClaimEmpty,
       ClaimError, ListOk, ListError, DownloadOk, DownloadError, SaveOk, SaveError, MarkFailed,
       SetTotal, RecordItemSuccess, RecordItemSuccessThen, RecordItemFailure, MarkComplete,
       DeleteSession, GotoItem, Drop, Fault, Expire, Shutdown, Restart
  <2>3. CASE pc[w] = "claim"
    <3>1. Shutdown(w)
      BY <1>1, <2>3 DEF Turns, Run, Claiming, ProcessJob, Jump, Tick, Stop, DrainCancelled,
         ClaimEmpty, ClaimError, ListOk, ListError, DownloadOk, DownloadError, SaveOk, SaveError,
         MarkFailed, SetTotal, RecordItemSuccess, RecordItemSuccessThen, RecordItemFailure,
         MarkComplete, DeleteSession, Fault, Expire, Restart, Processing, Serving
    <3>. QED
      BY <2>1, <3>1 DEF Shutdown
  <2>. QED
    BY <2>1, <2>2, <2>3
<1>2. ASSUME NEW p \in Pollers, Get(p)
      PROVE  UNCHANGED <<passed, pc, cur>>
  BY <1>2 DEF Get, ReadTerminal, DeleteRow
<1>3. ASSUME NEW j \in Jobs, NEW s \in Sessions, CreateJob(j, s)
      PROVE  UNCHANGED <<passed, pc, cur>>
  BY <1>3 DEF CreateJob
<1>4. ASSUME NEW j \in Jobs, InsertCommits(j)
      PROVE  UNCHANGED <<passed, pc, cur>>
  BY <1>4 DEF InsertCommits
<1>5. CASE UNCHANGED vars
  BY <1>5 DEF vars
<1>. QED
  BY <1>1, <1>2, <1>3, <1>4, <1>5 DEF Next

\* A step of w leaves the other claims their locks, so a row that was owed stays
\* owed, unless it is the very row that w's own claim lets go.
LEMMA OwedElsewhere ==
  ASSUME Inv, Owed, [Next]_vars, NEW w \in Workers,
         \A v \in Workers \ {w} : UNCHANGED <<pc[v], cur[v]>>,
         NEW u \in Workers, NEW k \in passed[u],
         status'[k] = "pending" => k # cur[w] \/ ~At(w, "claim")
  PROVE  status'[k] # "absent" /\ (status'[k] = "pending" => Locked(k)')
<1>1. k \in Jobs /\ status[k] # "absent" /\ (status[k] = "pending" => Locked(k))
  BY DEF Owed, Inv, TypeOK, Types
<1>2. status'[k] # "absent" /\ (status'[k] = "pending" => status[k] = "pending")
  BY <1>1, RowsAge
<1>3. ASSUME status'[k] = "pending" PROVE Locked(k)'
  <2>1. PICK v \in Workers : At(v, "claim") /\ cur[v] = k
    BY <1>1, <1>2, <1>3 DEF Locked
  <2>2. v # w
    BY <1>3, <2>1
  <2>. QED
    BY <2>1, <2>2 DEF Locked, At
<1>. QED
  BY <1>2, <1>3

\* The SELECT passes over a row only because another claim has it locked.
LEMMA SelectOwes ==
  ASSUME Inv, NEW w \in Workers, NEW j \in Jobs, ClaimSelect(w, j), NEW k \in InQueueBefore(j)
  PROVE  status'[k] = "pending" /\ Locked(k)'
<1>. USE DEF Inv, TypeOK, Types
<1>1. k \in Jobs /\ status[k] = "pending" /\ ~(created[j] <= created[k])
  BY DEF InQueueBefore
<1>2. PICK v \in Workers : At(v, "claim") /\ cur[v] = k
  BY <1>1 DEF ClaimSelect, Claimable, Free, Locked
<1>3. v # w
  BY <1>2 DEF ClaimSelect, At
<1>4. pc'[v] = pc[v] /\ cur'[v] = cur[v] /\ UNCHANGED status
  BY <1>3 DEF ClaimSelect, Goto, table
<1>. QED
  BY <1>1, <1>2, <1>4 DEF Locked, At

LEMMA OwedStep == ASSUME Inv, Owed, [Next]_vars PROVE Owed'
<1>. SUFFICES ASSUME NEW u \in Workers, NEW k \in passed'[u]
     PROVE  status'[k] # "absent" /\ (status'[k] = "pending" => Locked(k)')
  BY DEF Owed, Locked, At
<1>. USE DEF Inv, TypeOK, Types
<1>1. ASSUME NEW w \in Workers, NEW j \in Jobs, ClaimSelect(w, j)
      PROVE  status'[k] # "absent" /\ (status'[k] = "pending" => Locked(k)')
  <2>1. passed' = [passed EXCEPT ![w] = InQueueBefore(j)] /\ ~At(w, "claim")
    BY <1>1 DEF ClaimSelect, At
  <2>2. CASE u = w
    BY <1>1, <2>1, <2>2, SelectOwes
  <2>3. CASE u # w
    <3>1. k \in passed[u] /\ \A v \in Workers \ {w} : UNCHANGED <<pc[v], cur[v]>>
      BY <1>1, <2>1, <2>3 DEF ClaimSelect, Goto
    <3>. QED
      BY <2>1, <3>1, OwedElsewhere
  <2>. QED
    BY <2>2, <2>3
<1>2. ASSUME NEW w \in Workers, NEW o \in Outcomes, ClaimCommit(w, o)
      PROVE  status'[k] # "absent" /\ (status'[k] = "pending" => Locked(k)')
  <2>1. cur[w] \in Jobs /\ status[cur[w]] = "pending"
    BY <1>2 DEF ClaimCommit, At, SingleOwner, HeldStatus, HoldsJob
  <2>2. \A v \in Workers \ {w} : UNCHANGED <<pc[v], cur[v]>>
    BY <1>2 DEF ClaimCommit, Goto, Drop
  <2>3. CASE o = "ok"
    <3>1. status'[cur[w]] = "running" /\ k \in passed[u]
      BY <1>2, <2>1, <2>3 DEF ClaimCommit, SetStatus, Applied, HasRow
    <3>. QED
      BY <2>2, <3>1, OwedElsewhere
  <2>4. CASE o # "ok"
    <3>1. k \in passed[u] /\ k # cur[w]
      BY <1>2, <2>4 DEF ClaimCommit, GiveUpClaim
    <3>. QED
      BY <2>2, <3>1, OwedElsewhere
  <2>. QED
    BY <2>3, <2>4
<1>3. ASSUME NEW w \in Workers, Crash(w)
      PROVE  status'[k] # "absent" /\ (status'[k] = "pending" => Locked(k)')
  <2>1. k \in passed[u] /\ k # cur[w]
    BY <1>3 DEF Crash, GiveUpClaim
  <2>2. \A v \in Workers \ {w} : UNCHANGED <<pc[v], cur[v]>>
    BY <1>3 DEF Crash, Goto, Drop
  <2>. QED
    BY <2>1, <2>2, OwedElsewhere
<1>4. CASE ~\E w \in Workers : Turns(w)
  <2>1. k \in passed[u] /\ k \in Jobs
    BY <1>4, ClaimsStay
  <2>2. status[k] # "absent" /\ (status[k] = "pending" => Locked(k))
    BY <2>1 DEF Owed
  <2>3. Locked(k) => Locked(k)'
    BY <1>4, ClaimsStay DEF Locked
  <2>. QED
    BY <2>1, <2>2, <2>3, RowsAge
<1>. QED
  BY <1>1, <1>2, <1>3, <1>4 DEF Turns

\* Oldest first, as far as SKIP LOCKED allows (imports.go:47): as long as a claim
\* has its row, another claim has each older row it left waiting, or had it and
\* started it or gave it up; whatever number of replicas claims, and whichever
\* INSERT, with whatever created_at, commits meanwhile.
THEOREM OldestFirst == Spec => []InTurn
<1>1. Init => Owed
  BY DEF Init, Owed
<1>2. Inv /\ Owed /\ [Next]_vars => Owed'
  BY OwedStep
<1>3. Owed => InTurn
  BY DEF Owed, InTurn
<1>. QED
  BY <1>1, <1>2, <1>3, InvHolds, PTL DEF Spec

-------------------------------------------------------------------------------
(* What strands a job.                                                     *)

\* A pending row is set running only by the claim that holds it.
LEMMA ClaimStarts ==
  ASSUME Inv, [Next]_vars, NEW j \in Jobs, status[j] # "running", status'[j] = "running"
  PROVE  \E w \in Workers, o \in Outcomes : ClaimCommit(w, o) /\ cur[w] = j
<1>. USE DEF Inv, TypeOK, Types, table, SetStatus, Finished
<1>1. ASSUME NEW w \in Workers, Run(w) \/ Fault(w)
      PROVE  \E o \in Outcomes : ClaimCommit(w, o) /\ cur[w] = j
  <2>1. ASSUME NEW o \in Outcomes, ClaimCommit(w, o) PROVE cur[w] = j
    BY <2>1 DEF ClaimCommit
  <2>. QED
    BY <1>1, <2>1 DEF Run, Claiming, ProcessJob, Jump, Tick, Stop, DrainCancelled, ClaimEmpty,
     ClaimError, ClaimSelect, ListOk, ListError, DownloadOk, DownloadError, SaveOk, SaveError,
     MarkFailed, SetTotal, RecordItemSuccess, RecordItemSuccessThen, RecordItemFailure, MarkComplete,
     DeleteSession, Fault, Expire, Shutdown, Crash, Restart
<1>2. ASSUME NEW p \in Pollers PROVE ~Get(p)
  BY DEF Get, ReadTerminal, DeleteRow
<1>3. \A i \in Jobs : ~InsertCommits(i) /\ \A s \in Sessions : ~CreateJob(i, s)
  BY DEF CreateJob, InsertCommits
<1>4. ~UNCHANGED vars
  BY DEF vars
<1>. QED
  BY <1>1, <1>2, <1>3, <1>4 DEF Next

\* A replica that is past MarkComplete with its row still running could not
\* send it: its context was done, and stays so until it lets go of the job.
CutShort == \A w \in Workers : At(w, "cleanup") /\ status[cur[w]] = "running" => CtxDone(w)

\* One replica moves, and not from MarkComplete to its end.
LEMMA CutElsewhere ==
  ASSUME Inv, CutShort, NEW w \in Workers,
         \A v \in Workers \ {w} : UNCHANGED <<pc[v], cur[v], expired[v], shut[v]>>,
         \/ pc'[w] # "cleanup"
         \/ UNCHANGED <<pc[w], cur[w]>> /\ (CtxDone(w) => CtxDone(w)'),
         \A j \in Jobs : status'[j] = "running" => status[j] \in {"running", "pending"}
  PROVE  CutShort'
<1>. SUFFICES ASSUME NEW v \in Workers, At(v, "cleanup")', status'[cur'[v]] = "running"
     PROVE  CtxDone(v)'
  BY DEF CutShort
<1>1. /\ At(v, "cleanup") /\ cur'[v] = cur[v]
      /\ CtxDone(v) => CtxDone(v)'
  BY DEF At, CtxDone
<1>2. cur[v] \in Jobs /\ status[cur[v]] \in {"running", "complete", "gone"}
  BY <1>1 DEF Inv, TypeOK, Types, HoldsJob, SingleOwner, HeldStatus, At, Processing
<1>. QED
  BY <1>1, <1>2 DEF CutShort

LEMMA CutShortStep == ASSUME "db" \notin Faults, Inv, CutShort, [Next]_vars PROVE CutShort'
<1>. USE DEF Inv, TypeOK, Types, Goto, table, context, SetStatus, Finished
<1>1. \A j \in Jobs : status'[j] = "running" => status[j] \in {"running", "pending"}
  BY ClaimStarts DEF ClaimCommit, SingleOwner, HeldStatus
<1>2. ASSUME NEW w \in Workers, NEW o \in Outcomes, MarkComplete(w, o) PROVE CutShort'
  <2>1. /\ pc[w] = "markComplete" /\ cur[w] \in Jobs /\ status[cur[w]] = "running"
        /\ UNCHANGED cur
        /\ \A v \in Workers : v # w => cur[v] # cur[w]
    BY <1>2 DEF MarkComplete, At, HoldsJob, SingleOwner, OneHolder, HeldStatus, Processing, Serving
  <2>2. status'[cur[w]] = "running" => CtxDone(w)
    BY <1>2, <2>1 DEF MarkComplete, Applied, HasRow, Call
  <2>3. CtxDone(w) => CtxDone(w)'
    BY <1>2 DEF MarkComplete, Cancel, Deadline, CtxDone
  <2>4. ASSUME NEW v \in Workers \ {w} PROVE UNCHANGED <<pc[v], cur[v], expired[v], shut[v]>>
    BY <1>2 DEF MarkComplete, Cancel, Deadline
  <2>5. ASSUME NEW v \in Workers \ {w}, At(v, "cleanup")', status'[cur'[v]] = "running"
        PROVE  CtxDone(v)'
    <3>1. At(v, "cleanup") /\ cur[v] \in Jobs /\ cur'[v] = cur[v]
      BY <2>4, <2>5 DEF At, HoldsJob, Processing
    <3>2. status[cur[v]] = "running"
      BY <1>1, <2>5, <3>1 DEF SingleOwner, HeldStatus
    <3>. QED
      BY <2>4, <3>1, <3>2 DEF CutShort, CtxDone
  <2>. QED
    BY <2>1, <2>2, <2>3, <2>5 DEF CutShort
<1>3. ASSUME NEW w \in Workers, Run(w) \/ Fault(w), ~\E o \in Outcomes : MarkComplete(w, o)
      PROVE  CutShort'
  <2>1. \A v \in Workers \ {w} : UNCHANGED <<pc[v], cur[v], expired[v], shut[v]>>
    BY <1>3 DEF Run, Claiming, ProcessJob, Jump, Tick, Stop, DrainCancelled, ClaimEmpty, ClaimError,
     ClaimSelect, ClaimCommit, ListOk, ListError, DownloadOk, DownloadError, SaveOk, SaveError,
     MarkFailed, SetTotal, RecordItemSuccess, RecordItemSuccessThen, RecordItemFailure,
     DeleteSession, GotoItem, Return, Drop, Cancel, Deadline, Fault, Expire, Shutdown, Crash, Restart
  <2>2. CASE Expire(w) \/ Shutdown(w)
    <3>1. UNCHANGED <<pc[w], cur[w]>> /\ (CtxDone(w) => CtxDone(w)')
      BY <2>2 DEF Expire, Shutdown, CtxDone
    <3>. QED
      BY <1>1, <2>1, <3>1, CutElsewhere
  <2>3. CASE ~(Expire(w) \/ Shutdown(w))
    <3>1. ASSUME NEW o \in Outcomes,
                 SetTotal(w, o) \/ RecordItemSuccess(w, o) \/ RecordItemFailure(w, o)
          PROVE  pc'[w] # "cleanup"
      BY <3>1 DEF SetTotal, RecordItemSuccess, RecordItemSuccessThen, RecordItemFailure, GotoItem
    <3>2. pc'[w] # "cleanup"
      BY <1>3, <2>3, <3>1 DEF Run, Claiming, ProcessJob, Jump, Tick, Stop, DrainCancelled, ClaimEmpty,
         ClaimError, ClaimSelect, ClaimCommit, ListOk, ListError, DownloadOk, DownloadError, SaveOk,
         SaveError, MarkFailed, DeleteSession, Return, Fault, Crash, Restart
    <3>. QED
      BY <1>1, <2>1, <3>2, CutElsewhere
  <2>. QED
    BY <2>2, <2>3
<1>4. ASSUME UNCHANGED <<pc, cur, expired, shut>> PROVE CutShort'
  <2>1. \A w \in Workers : At(w, "cleanup") => cur[w] \in Jobs /\ status[cur[w]] # "pending"
    BY DEF HoldsJob, SingleOwner, HeldStatus, At, Processing
  <2>. QED
    BY <1>1, <1>4, <2>1 DEF CutShort, At, CtxDone
<1>5. ASSUME \/ \E p \in Pollers : Get(p)
             \/ \E j \in Jobs : InsertCommits(j) \/ \E s \in Sessions : CreateJob(j, s)
             \/ UNCHANGED vars
      PROVE  CutShort'
  BY <1>4, <1>5 DEF Get, ReadTerminal, DeleteRow, CreateJob, InsertCommits, vars, replica
<1>. QED
  BY <1>2, <1>3, <1>5 DEF Next, Run, ProcessJob

\* Who lets go of a job, and what has become of the row then.
LEMMA LetsGo ==
  ASSUME "db" \notin Faults, Inv, CutShort, [Next]_vars,
         NEW w \in Workers, NEW j \in Jobs, cur[w] = j, cur'[w] # j,
         status[j] = "running", status'[j] = "running"
  PROVE  CtxDone(w) \/ pc'[w] = "down"
<1>. USE DEF Inv, TypeOK, Types, Goto, table, context
<1>1. pc[w] # "claim"
  BY DEF SingleOwner, HeldStatus, At
<1>2. ASSUME NEW o \in Outcomes, MarkFailed(w, o) PROVE CtxDone(w)
  BY <1>2 DEF MarkFailed, SetStatus, Applied, HasRow, Call
<1>3. CASE DeleteSession(w)
  BY <1>3 DEF DeleteSession, CutShort
<1>4. CASE Crash(w)
  BY <1>4 DEF Crash
<1>5. ASSUME NEW v \in Workers, Run(v) \/ Fault(v)
      PROVE  v = w /\ (DeleteSession(w) \/ Crash(w) \/ \E o \in Outcomes : MarkFailed(w, o))
  <2>1. v = w
    BY <1>5 DEF Run, Claiming, ProcessJob, Jump, Tick, Stop, DrainCancelled, ClaimEmpty, ClaimError,
       ClaimSelect, ClaimCommit, ListOk, ListError, DownloadOk, DownloadError, SaveOk, SaveError,
       MarkFailed, SetTotal, RecordItemSuccess, RecordItemSuccessThen, RecordItemFailure, MarkComplete,
       DeleteSession, Return, Drop, Fault, Expire, Shutdown, Crash, Restart
  <2>2. \A k \in Jobs : ~ClaimSelect(w, k)
    BY QueueAssumption DEF ClaimSelect, At, HoldsJob, Processing, Serving
  <2>3. \A o \in Outcomes : ~ClaimCommit(w, o)
    BY <1>1 DEF ClaimCommit, At
  <2>. QED
    BY <1>5, <2>1, <2>2, <2>3 DEF Run, Claiming, ProcessJob, Jump, Tick, Stop, DrainCancelled,
       ClaimEmpty, ClaimError, ListOk, ListError, DownloadOk, DownloadError, SaveOk, SaveError,
       SetTotal, RecordItemSuccess, RecordItemSuccessThen, RecordItemFailure, MarkComplete,
       Fault, Expire, Shutdown, Restart
<1>6. ASSUME NEW p \in Pollers PROVE ~Get(p)
  BY DEF Get, ReadTerminal, DeleteRow, replica
<1>7. \A i \in Jobs : ~InsertCommits(i) /\ \A s \in Sessions : ~CreateJob(i, s)
  BY DEF CreateJob, InsertCommits, replica
<1>8. ~UNCHANGED vars
  BY DEF vars, replica
<1>. QED
  BY <1>2, <1>3, <1>4, <1>5, <1>6, <1>7, <1>8 DEF Next

\* ProcessJob returns from MarkFailed and from its end.
LEMMA Drains ==
  ASSUME Inv, [Next]_vars, NEW w \in Workers, pc[w] \in Processing, pc'[w] = "drain"
  PROVE  DeleteSession(w) \/ \E o \in Outcomes : MarkFailed(w, o)
<1>. USE DEF Inv, TypeOK, Types, Goto, At, Processing, Serving
<1>1. ASSUME NEW v \in Workers, Run(v) \/ Fault(v)
      PROVE  v = w /\ (DeleteSession(w) \/ \E o \in Outcomes : MarkFailed(w, o))
  <2>1. v = w
    BY <1>1 DEF Run, Claiming, ProcessJob, Jump, Tick, Stop, DrainCancelled, ClaimEmpty, ClaimError,
       ClaimSelect, ClaimCommit, ListOk, ListError, DownloadOk, DownloadError, SaveOk, SaveError,
       MarkFailed, SetTotal, RecordItemSuccess, RecordItemSuccessThen, RecordItemFailure, MarkComplete,
       DeleteSession, GotoItem, Return, Fault, Expire, Shutdown, Crash, Restart
  <2>2. ASSUME NEW o \in Outcomes,
               SetTotal(w, o) \/ RecordItemSuccess(w, o) \/ RecordItemFailure(w, o)
        PROVE  pc'[w] # "drain"
    BY <2>2 DEF SetTotal, RecordItemSuccess, RecordItemSuccessThen, RecordItemFailure, GotoItem
  <2>. QED
    BY <1>1, <2>1, <2>2 DEF Run, Claiming, ProcessJob, Jump, Tick, Stop, DrainCancelled, ClaimEmpty,
       ClaimError, ClaimSelect, ClaimCommit, ListOk, ListError, DownloadOk, DownloadError, SaveOk,
       SaveError, MarkComplete, Fault, Expire, Shutdown, Crash, Restart
<1>2. ASSUME NEW p \in Pollers PROVE ~Get(p)
  BY DEF Get, ReadTerminal, DeleteRow, replica
<1>3. \A i \in Jobs : ~InsertCommits(i) /\ \A s \in Sessions : ~CreateJob(i, s)
  BY DEF CreateJob, InsertCommits, replica
<1>4. ~UNCHANGED vars
  BY DEF vars, replica
<1>. QED
  BY <1>1, <1>2, <1>3, <1>4 DEF Next

\* A replica that holds a job goes down only by dying.
LEMMA GoesDown ==
  ASSUME Inv, [Next]_vars, NEW w \in Workers, cur[w] # NoJob, pc'[w] = "down"
  PROVE  "crash" \in Faults
<1>. USE DEF Inv, TypeOK, Types, HoldsJob, Goto, At, Processing, Serving
<1>1. ASSUME NEW v \in Workers, Run(v) \/ Fault(v) PROVE "crash" \in Faults
  <2>1. CASE Crash(v)
    BY <2>1 DEF Crash
  <2>2. CASE Stop(v)
    BY <2>2 DEF Stop
  <2>3. ASSUME NEW o \in Outcomes,
               SetTotal(v, o) \/ RecordItemSuccess(v, o) \/ RecordItemFailure(v, o)
        PROVE  pc'[w] # "down"
    BY <2>3 DEF SetTotal, RecordItemSuccess, RecordItemSuccessThen, RecordItemFailure, GotoItem
  <2>. QED
    BY <1>1, <2>1, <2>2, <2>3 DEF Run, Claiming, ProcessJob, Jump, Tick, DrainCancelled, ClaimEmpty,
       ClaimError, ClaimSelect, ClaimCommit, ListOk, ListError, DownloadOk, DownloadError, SaveOk,
       SaveError, MarkFailed, MarkComplete, DeleteSession, Return, Fault, Expire, Shutdown, Restart
<1>2. ASSUME NEW p \in Pollers, Get(p) PROVE FALSE
  BY <1>2 DEF Get, ReadTerminal, DeleteRow, replica
<1>3. \A i \in Jobs : ~InsertCommits(i) /\ \A s \in Sessions : ~CreateJob(i, s)
  BY DEF CreateJob, InsertCommits, replica
<1>4. ~UNCHANGED vars
  BY DEF vars, replica
<1>. QED
  BY <1>1, <1>2, <1>3, <1>4 DEF Next

\* A job is never left running by an error of Google, of the sink or of an item:
\* only a replica whose context is done, or that dies, leaves one (worker.go:103).
THEOREM OnlyTheCutStrand == "db" \notin Faults => (Spec => StrandedOnlyByCut)
<1>. SUFFICES ASSUME "db" \notin Faults PROVE Spec => StrandedOnlyByCut
  OBVIOUS
<1>. DEFINE Cut == \A j \in Jobs :
              Stranded(j)' /\ ~Stranded(j)
                => \E w \in Workers : cur[w] = j /\ (CtxDone(w) \/ pc'[w] = "down")
<1>1. Init => CutShort
  BY DEF Init, CutShort, At
<1>2. Inv /\ CutShort /\ [Next]_vars => CutShort'
  BY CutShortStep
<1>3. Inv /\ CutShort /\ [Next]_vars => Cut
  <2>. SUFFICES ASSUME Inv, CutShort, [Next]_vars, NEW j \in Jobs, Stranded(j)', ~Stranded(j)
       PROVE  \E w \in Workers : cur[w] = j /\ (CtxDone(w) \/ pc'[w] = "down")
    OBVIOUS
  <2>1. CASE status[j] = "running"
    BY <2>1, LetsGo DEF Stranded
  <2>2. CASE status[j] # "running"
    <3>1. PICK w \in Workers, o \in Outcomes : ClaimCommit(w, o) /\ cur[w] = j
      BY <2>2, ClaimStarts DEF Stranded
    <3>2. CASE o = "ok"
      BY <3>1, <3>2 DEF ClaimCommit, Stranded
    <3>3. CASE o # "ok"
      BY <3>1, <3>3 DEF ClaimCommit, CtxDone
    <3>. QED
      BY <3>1, <3>2, <3>3
  <2>. QED
    BY <2>1, <2>2
<1>. QED
  BY <1>1, <1>2, <1>3, InvHolds, PTL DEF Spec, StrandedOnlyByCut

\* Without a shutdown and a deadline no replica's context is ever done.
LEMMA NeverDone ==
  ASSUME Faults \subseteq {"crash"}
  PROVE  Spec => [](\A w \in Workers : ~CtxDone(w))
<1>. DEFINE Live == \A w \in Workers : ~CtxDone(w)
<1>1. Init => Live
  BY DEF Init, CtxDone
<1>2. Inv /\ Live /\ [Next]_vars => Live'
  <2>. SUFFICES ASSUME Inv, Live, [Next]_vars PROVE Live'
    OBVIOUS
  <2>. USE DEF Inv, TypeOK, Types, CtxDone, context, replica
  <2>1. ASSUME NEW v \in Workers, Run(v) \/ Fault(v) PROVE Live'
    BY <2>1 DEF Run, Claiming, ProcessJob, Jump, Tick, Stop, DrainCancelled, ClaimEmpty, ClaimError,
     ClaimSelect, ClaimCommit, ListOk, ListError, DownloadOk, DownloadError, SaveOk, SaveError,
     MarkFailed, SetTotal, RecordItemSuccess, RecordItemSuccessThen, RecordItemFailure, MarkComplete,
     DeleteSession, GotoItem, Return, Drop, Cancel, Deadline, Call, Fault, Expire, Shutdown, Crash, Restart
  <2>2. ASSUME NEW p \in Pollers, Get(p) PROVE Live'
    BY <2>2 DEF Get, ReadTerminal, DeleteRow
  <2>3. ASSUME NEW i \in Jobs, InsertCommits(i) \/ \E s \in Sessions : CreateJob(i, s) PROVE Live'
    BY <2>3 DEF CreateJob, InsertCommits
  <2>4. CASE UNCHANGED vars
    BY <2>4 DEF vars
  <2>. QED
    BY <2>1, <2>2, <2>3, <2>4 DEF Next
<1>. QED
  BY <1>1, <1>2, InvHolds, PTL DEF Spec

\* ProcessJob does run a claimed job to its terminal state (worker.go:103) as
\* long as no statement fails, no deadline passes and Run is not cancelled: the
\* comment is wrong about these three and about nothing else.
THEOREM EndsTerminalUncut == Faults \subseteq {"crash"} => (Spec => ProcessEndsTerminal)
<1>. SUFFICES ASSUME Faults \subseteq {"crash"} PROVE Spec => ProcessEndsTerminal
  OBVIOUS
<1>. DEFINE Live == \A w \in Workers : ~CtxDone(w)
            Ends == \A w \in Workers :
              pc[w] \in Processing /\ pc'[w] = "drain"
                => status'[cur[w]] \in Finished \cup {"gone"}
<1>1. Spec => []Live
  BY NeverDone
<1>2. Spec => []CutShort
  <2>1. Init => CutShort
    BY DEF Init, CutShort, At
  <2>2. Inv /\ CutShort /\ [Next]_vars => CutShort'
    BY CutShortStep
  <2>. QED
    BY <2>1, <2>2, InvHolds, PTL DEF Spec
<1>3. Inv /\ Live /\ CutShort /\ [Next]_vars => Ends
  <2>. SUFFICES ASSUME Inv, Live, CutShort, [Next]_vars, NEW w \in Workers,
                       pc[w] \in Processing, pc'[w] = "drain"
       PROVE  status'[cur[w]] \in Finished \cup {"gone"}
    OBVIOUS
  <2>1. ASSUME NEW o \in Outcomes, MarkFailed(w, o) PROVE status'[cur[w]] = "failed"
    BY <2>1 DEF MarkFailed, SetStatus, Applied, HasRow, Call, CtxDone, Inv, TypeOK, Types, HoldsJob,
       SingleOwner, HeldStatus, At, Processing, Serving
  <2>2. CASE DeleteSession(w)
    BY <2>2 DEF DeleteSession, CutShort, table, Inv, SingleOwner, HeldStatus, Finished
  <2>3. DeleteSession(w) \/ \E o \in Outcomes : MarkFailed(w, o)
    BY Drains
  <2>. QED
    BY <2>1, <2>2, <2>3 DEF Finished
<1>. QED
  BY <1>1, <1>2, <1>3, InvHolds, PTL DEF Spec, ProcessEndsTerminal

\* With no fault at all a running job is always being worked on: the safe part
\* of "every claimed job ends", to which a run adds the replicas' fairness.
THEOREM NothingStranded == Faults = {} => (Spec => [](\A j \in Jobs : ~Stranded(j)))
<1>. SUFFICES ASSUME Faults = {} PROVE Spec => [](\A j \in Jobs : ~Stranded(j))
  OBVIOUS
<1>. DEFINE Live == \A w \in Workers : ~CtxDone(w)
            None == \A j \in Jobs : ~Stranded(j)
            Cut  == \A j \in Jobs :
              Stranded(j)' /\ ~Stranded(j)
                => \E w \in Workers : cur[w] = j /\ (CtxDone(w) \/ pc'[w] = "down")
<1>1. Spec => []Live
  BY NeverDone
<1>2. Spec => [][Cut]_vars
  BY OnlyTheCutStrand DEF StrandedOnlyByCut
<1>3. Init => None
  BY DEF Init, Stranded
<1>4. Inv /\ Live /\ None /\ [Next]_vars /\ [Cut]_vars => None'
  <2>. SUFFICES ASSUME Inv, Live, None, [Next]_vars, [Cut]_vars, NEW j \in Jobs, Stranded(j)'
       PROVE  FALSE
    OBVIOUS
  <2>1. CASE UNCHANGED vars
    BY <2>1 DEF vars, table, replica, Stranded
  <2>2. ASSUME NEW w \in Workers, cur[w] = j, pc'[w] = "down" PROVE FALSE
    BY <2>2, GoesDown, QueueAssumption
  <2>. QED
    BY <2>1, <2>2
<1>. QED
  BY <1>1, <1>2, <1>3, <1>4, InvHolds, PTL DEF Spec

===============================================================================
