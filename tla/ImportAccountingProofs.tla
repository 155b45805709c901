------------------------ MODULE ImportAccountingProofs ------------------------
(***************************************************************************)
(* That a completed row of ImportQueue accounts for every picked item when *)
(* Postgres itself does not fail, for any replicas, sessions and picks and *)
(* whatever deadlines, shutdowns and crashes cut in.                       *)
(*                                                                         *)
(* The counts of a job may lag behind its list only once its context is    *)
(* done, and then no statement that would complete the row is sent: the    *)
(* inductive invariant Accounts says what the counts are while it is not.  *)
(* And that a session is given up only after a walk of its whole list.     *)
(***************************************************************************)
EXTENDS ImportQueueProofs

Items    == {"download", "save", "recordSuccess", "recordFailure"}
Counting == Items \cup {"markComplete"}

\* What the row of w's job counts before w goes on with its list.
Counted(w) ==
  pc[w] \in Counting /\ ~CtxDone(w) =>
    /\ total[cur[w]] = Picks[session[cur[w]]]
    /\ completed[cur[w]] + failedItems[cur[w]] + 1 = item[w]
    /\ pc[w] \in Items => item[w] <= Picks[session[cur[w]]]
    /\ pc[w] = "markComplete" => item[w] = Picks[session[cur[w]]] + 1
    /\ IF pc[w] = "recordSuccess" THEN sunk[cur[w]] = Append(saved[cur[w]], item[w])
                                  ELSE sunk[cur[w]] = saved[cur[w]]

Balanced(j) ==
  /\ total[j] = Picks[session[j]]
  /\ completed[j] + failedItems[j] = total[j]
  /\ saved[j] = sunk[j]

Accounts == ExactAccounting /\ \A w \in Workers : Counted(w)

\* A replica that counts holds a running job, which no other replica holds.
LEMMA CountingHolds ==
  ASSUME Inv, NEW w \in Workers, pc[w] \in Counting
  PROVE  /\ cur[w] \in Jobs /\ status[cur[w]] = "running"
         /\ session[cur[w]] \in Sessions /\ Picks[session[cur[w]]] \in Nat
         /\ item[w] \in Nat
         /\ \A v \in Workers : v # w => cur[v] # cur[w]
BY QueueAssumption
   DEF Inv, TypeOK, Types, HoldsJob, SingleOwner, OneHolder, HeldStatus, Counting, Items,
       Processing, Serving

\* v, that stays where it is with the data of its job, counts as before.
LEMMA StaysCounted ==
  ASSUME Inv, Accounts, NEW v \in Workers,
         UNCHANGED <<pc[v], cur[v], item[v]>>, CtxDone(v) => CtxDone(v)',
         pc[v] \in Counting => Same(cur[v]) /\ UNCHANGED session[cur[v]]
  PROVE  Counted(v)'
BY DEF Accounts, Counted, Same

\* A step that touches no count, and after which its replica is outside the
\* list, or where it was.
LEMMA AsideKeeps ==
  ASSUME Inv, Accounts, NEW w \in Workers,
         UNCHANGED <<session, counts, sunk>>,
         \A v \in Workers \ {w} : UNCHANGED <<pc[v], cur[v], item[v], expired[v], shut[v]>>,
         \/ pc'[w] \notin Counting
         \/ UNCHANGED <<pc[w], cur[w], item[w]>> /\ (CtxDone(w) => CtxDone(w)'),
         \A j \in Jobs : status'[j] = "complete" => status[j] = "complete"
  PROVE  Accounts'
<1>1. ExactAccounting'
  BY DEF Accounts, ExactAccounting, counts
<1>2. ASSUME NEW v \in Workers PROVE Counted(v)'
  <2>1. CASE v = w /\ pc'[w] \notin Counting
    BY <2>1 DEF Counted
  <2>2. CASE v # w \/ pc'[w] \in Counting
    <3>1. UNCHANGED <<pc[v], cur[v], item[v]>> /\ (CtxDone(v) => CtxDone(v)')
      BY <2>2 DEF CtxDone
    <3>. QED
      BY <3>1, StaysCounted DEF Same, counts
  <2>. QED
    BY <2>1, <2>2
<1>. QED
  BY <1>1, <1>2 DEF Accounts

\* A step of w in the list of its own job.
LEMMA OwnKeeps ==
  ASSUME Inv, Accounts, NEW w \in Workers, cur[w] \in Jobs,
         \A v \in Workers : v # w => cur[v] # cur[w],
         UNCHANGED <<session, cur>>,
         \A v \in Workers \ {w} : UNCHANGED <<pc[v], cur[v], item[v], expired[v], shut[v]>>,
         \A j \in Jobs \ {cur[w]} : Same(j) /\ UNCHANGED status[j],
         status'[cur[w]] = "complete" => Balanced(cur[w])',
         Counted(w)'
  PROVE  Accounts'
<1>1. ASSUME NEW j \in Jobs, status'[j] = "complete"
      PROVE  /\ total'[j] = Picks[session'[j]]
             /\ completed'[j] + failedItems'[j] = total'[j]
             /\ saved'[j] = sunk'[j]
  <2>1. CASE j = cur[w]
    BY <1>1, <2>1 DEF Balanced
  <2>2. CASE j # cur[w]
    BY <1>1, <2>2 DEF Accounts, ExactAccounting, Same
  <2>. QED
    BY <2>1, <2>2
<1>2. ASSUME NEW v \in Workers \ {w} PROVE Counted(v)'
  <2>1. CtxDone(v) => CtxDone(v)'
    BY DEF CtxDone
  <2>2. pc[v] \in Counting => Same(cur[v])
    BY CountingHolds
  <2>. QED
    BY <2>1, <2>2, StaysCounted
<1>. QED
  BY <1>1, <1>2 DEF Accounts, ExactAccounting

-------------------------------------------------------------------------------
(* The steps of ProcessJob in the list.                                    *)

\* With no fault of Postgres a call under a live context is applied and, if
\* it reports an error, leaves the context done; under a done one it is not.
LEMMA CallApplies ==
  ASSUME "db" \notin Faults, NEW w \in Workers, NEW o \in Outcomes, Call(w, o)
  PROVE  /\ ~CtxDone(w) => o \in {"ok", "late", "cut"}
         /\ CtxDone(w) => o = "err"
BY DEF Call, Outcomes

\* The context after a call: live only if it was, and the call was "ok".
LEMMA ContextAfter ==
  ASSUME Inv, NEW w \in Workers, NEW o \in Outcomes, Call(w, o), Cancel(w, o), Deadline(w, o),
         "db" \notin Faults
  PROVE  /\ ~CtxDone(w)' => ~CtxDone(w) /\ o = "ok"
         /\ \A v \in Workers \ {w} : UNCHANGED <<expired[v], shut[v]>>
BY CallApplies DEF Inv, TypeOK, Types, Cancel, Deadline, CtxDone

LEMMA SetTotalCounts ==
  ASSUME Inv, Accounts, "db" \notin Faults, NEW w \in Workers, NEW o \in Outcomes, SetTotal(w, o)
  PROVE  Accounts'
<1>. DEFINE j == cur[w]
<1>1. /\ j \in Jobs /\ status[j] = "running" /\ session[j] \in Sessions
      /\ Picks[session[j]] \in Nat /\ Untouched(j)
      /\ \A v \in Workers : v # w => cur[v] # j
  BY QueueAssumption DEF SetTotal, At, Inv, TypeOK, Types, HoldsJob, SingleOwner, OneHolder,
     HeldStatus, Content, Ahead, Stage, Processing, Serving
<1>2. /\ UNCHANGED <<status, session, completed, failedItems, saved, cur, sunk>>
      /\ \A k \in Jobs \ {j} : Same(k)
      /\ o = "ok" => total'[j] = Picks[session[j]]
  BY <1>1 DEF SetTotal, Same, Applied, HasRow, Inv, TypeOK, Types, request, outside
<1>3. /\ pc'[w] = (IF 1 <= Picks[session[j]] THEN "download" ELSE "markComplete") /\ item'[w] = 1
      /\ \A v \in Workers \ {w} : UNCHANGED <<pc[v], cur[v], item[v], expired[v], shut[v]>>
  BY <1>2, ContextAfter DEF SetTotal, GotoItem, Goto, Inv, TypeOK, Types
<1>4. ~CtxDone(w)' => o = "ok"
  BY ContextAfter DEF SetTotal
<1>5. Counted(w)'
  BY <1>1, <1>2, <1>3, <1>4 DEF Counted, Untouched, Items
<1>. QED
  BY <1>1, <1>2, <1>3, <1>5, OwnKeeps

LEMMA SaveCounts ==
  ASSUME Inv, Accounts, NEW w \in Workers, SaveOk(w)
  PROVE  Accounts'
<1>. DEFINE j == cur[w]
<1>1. pc[w] = "save"
  BY DEF SaveOk, At
<1>2. /\ j \in Jobs /\ status[j] = "running"
      /\ \A v \in Workers : v # w => cur[v] # j
  BY <1>1, CountingHolds DEF Counting, Items
<1>3. /\ UNCHANGED <<status, session, total, completed, failedItems, saved, cur, item, expired, shut>>
      /\ sunk'[j] = Append(sunk[j], item[w])
      /\ \A k \in Jobs \ {j} : Same(k)
      /\ pc'[w] = "recordSuccess" /\ \A v \in Workers \ {w} : pc'[v] = pc[v]
  BY <1>2 DEF SaveOk, Goto, Same, table, request, counts, context, Inv, TypeOK, Types
<1>4. Counted(w)'
  BY <1>1, <1>3 DEF Accounts, Counted, Counting, Items, CtxDone
<1>. QED
  BY <1>2, <1>3, <1>4, OwnKeeps

LEMMA DownloadCounts ==
  ASSUME Inv, Accounts, NEW w \in Workers,
         DownloadOk(w) \/ DownloadError(w) \/ SaveError(w)
  PROVE  Accounts'
<1>1. /\ pc[w] \in {"download", "save"}
      /\ UNCHANGED <<table, cur, item, context, outside, polls>>
      /\ pc' = [pc EXCEPT ![w] = pc'[w]] /\ pc'[w] \in {"save", "recordFailure"}
  BY DEF DownloadOk, DownloadError, SaveError, Jump, At, Goto, Inv, TypeOK, Types
<1>2. /\ cur[w] \in Jobs /\ status[cur[w]] = "running"
      /\ \A v \in Workers : v # w => cur[v] # cur[w]
  BY <1>1, CountingHolds DEF Counting, Items
<1>3. UNCHANGED <<status, session, total, completed, failedItems, saved, sunk, cur, item, expired, shut>>
  BY <1>1 DEF table, request, counts, context, outside
<1>4. Counted(w)'
  BY <1>1, <1>3 DEF Accounts, Counted, Counting, Items, CtxDone
<1>5. \A v \in Workers \ {w} : UNCHANGED <<pc[v], cur[v], item[v], expired[v], shut[v]>>
  BY <1>1, <1>3 DEF Inv, TypeOK, Types
<1>. QED
  BY <1>2, <1>3, <1>4, <1>5, OwnKeeps DEF Same

LEMMA SuccessCounts ==
  ASSUME Inv, Accounts, "db" \notin Faults, NEW w \in Workers, NEW o \in Outcomes, RecordItemSuccess(w, o)
  PROVE  Accounts'
<1>. DEFINE j == cur[w]
<1>1. pc[w] = "recordSuccess" /\ Call(w, o) /\ Cancel(w, o) /\ Deadline(w, o)
  BY DEF RecordItemSuccess, RecordItemSuccessThen, At
<1>2. /\ j \in Jobs /\ status[j] = "running"
      /\ session[j] \in Sessions /\ Picks[session[j]] \in Nat /\ item[w] \in Nat
      /\ \A v \in Workers : v # w => cur[v] # j
  BY <1>1, CountingHolds DEF Counting, Items
<1>3. /\ UNCHANGED <<status, session, total, failedItems, cur, sunk>>
      /\ \A k \in Jobs \ {j} : Same(k)
      /\ o = "ok" => completed'[j] = completed[j] + 1 /\ saved'[j] = Append(saved[j], item[w])
  BY <1>2 DEF RecordItemSuccess, RecordItemSuccessThen, Bump, Same, Applied, HasRow, Inv, TypeOK, Types, request, outside
<1>4. /\ o = "ok" => /\ pc'[w] = (IF item[w] + 1 <= Picks[session[j]] THEN "download" ELSE "markComplete")
                     /\ item'[w] = item[w] + 1
      /\ \A v \in Workers \ {w} : UNCHANGED <<pc[v], cur[v], item[v], expired[v], shut[v]>>
  BY <1>1, <1>3, ContextAfter DEF RecordItemSuccess, RecordItemSuccessThen, GotoItem, Goto, Inv, TypeOK, Types
<1>5. ~CtxDone(w)' => ~CtxDone(w) /\ o = "ok"
  BY <1>1, ContextAfter
<1>6. completed[j] \in Nat /\ failedItems[j] \in Nat
  BY <1>2 DEF Inv, TypeOK, Types
<1>7. Counted(w)'
  <2>. SUFFICES ASSUME ~CtxDone(w)' PROVE Counted(w)'
    BY DEF Counted
  <2>1. /\ total[j] = Picks[session[j]]
        /\ completed[j] + failedItems[j] + 1 = item[w] /\ item[w] <= Picks[session[j]]
        /\ sunk[j] = Append(saved[j], item[w])
    BY <1>1, <1>5 DEF Accounts, Counted, Counting, Items
  <2>2. completed'[j] + failedItems'[j] + 1 = item'[w] /\ sunk'[j] = saved'[j]
    <3>1. o = "ok"
      BY <1>5
    <3>2. sunk'[j] = saved'[j]
      BY <1>3, <2>1, <3>1
    <3>3. /\ completed'[j] = completed[j] + 1 /\ failedItems'[j] = failedItems[j]
          /\ item'[w] = item[w] + 1
      BY <1>3, <1>4, <3>1
    <3>. QED
      BY <1>2, <1>6, <2>1, <3>2, <3>3
  <2>3. \/ pc'[w] = "download" /\ item'[w] <= Picks[session[j]]
        \/ pc'[w] = "markComplete" /\ item'[w] = Picks[session[j]] + 1
    BY <1>2, <1>4, <1>5, <2>1
  <2>. QED
    BY <1>3, <2>1, <2>2, <2>3 DEF Counted, Counting, Items
<1>. QED
  BY <1>2, <1>3, <1>4, <1>7, OwnKeeps

LEMMA FailureCounts ==
  ASSUME Inv, Accounts, "db" \notin Faults, NEW w \in Workers, NEW o \in Outcomes, RecordItemFailure(w, o)
  PROVE  Accounts'
<1>. DEFINE j == cur[w]
<1>1. pc[w] = "recordFailure" /\ Call(w, o) /\ Cancel(w, o) /\ Deadline(w, o)
  BY DEF RecordItemFailure, At
<1>2. /\ j \in Jobs /\ status[j] = "running"
      /\ session[j] \in Sessions /\ Picks[session[j]] \in Nat /\ item[w] \in Nat
      /\ \A v \in Workers : v # w => cur[v] # j
  BY <1>1, CountingHolds DEF Counting, Items
<1>3. /\ UNCHANGED <<status, session, total, completed, saved, cur, sunk>>
      /\ \A k \in Jobs \ {j} : Same(k)
      /\ o = "ok" => failedItems'[j] = failedItems[j] + 1
  BY <1>2 DEF RecordItemFailure, Bump, Same, Applied, HasRow, Inv, TypeOK, Types, request, outside
<1>4. /\ pc'[w] = (IF item[w] + 1 <= Picks[session[j]] THEN "download" ELSE "markComplete")
      /\ item'[w] = item[w] + 1
      /\ \A v \in Workers \ {w} : UNCHANGED <<pc[v], cur[v], item[v], expired[v], shut[v]>>
  BY <1>1, <1>3, ContextAfter DEF RecordItemFailure, GotoItem, Goto, Inv, TypeOK, Types
<1>5. ~CtxDone(w)' => ~CtxDone(w) /\ o = "ok"
  BY <1>1, ContextAfter
<1>6. completed[j] \in Nat /\ failedItems[j] \in Nat
  BY <1>2 DEF Inv, TypeOK, Types
<1>7. Counted(w)'
  <2>. SUFFICES ASSUME ~CtxDone(w)' PROVE Counted(w)'
    BY DEF Counted
  <2>1. /\ total[j] = Picks[session[j]]
        /\ completed[j] + failedItems[j] + 1 = item[w] /\ item[w] <= Picks[session[j]]
        /\ sunk[j] = saved[j]
    BY <1>1, <1>5 DEF Accounts, Counted, Counting, Items
  <2>2. completed'[j] + failedItems'[j] + 1 = item'[w] /\ sunk'[j] = saved'[j]
    <3>1. o = "ok"
      BY <1>5
    <3>. QED
      BY <1>2, <1>3, <1>4, <1>6, <2>1, <3>1
  <2>3. \/ pc'[w] = "download" /\ item'[w] <= Picks[session[j]]
        \/ pc'[w] = "markComplete" /\ item'[w] = Picks[session[j]] + 1
    BY <1>2, <1>4, <1>5, <2>1
  <2>. QED
    BY <1>3, <2>1, <2>2, <2>3 DEF Counted, Counting, Items
<1>. QED
  BY <1>2, <1>3, <1>4, <1>7, OwnKeeps

\* A row is completed only under a live context, when the counts are right.
LEMMA CompleteCounts ==
  ASSUME Inv, Accounts, "db" \notin Faults, NEW w \in Workers, NEW o \in Outcomes, MarkComplete(w, o)
  PROVE  Accounts'
<1>. DEFINE j == cur[w]
<1>1. pc[w] = "markComplete" /\ Call(w, o) /\ Cancel(w, o) /\ Deadline(w, o)
  BY DEF MarkComplete, At
<1>2. /\ j \in Jobs /\ status[j] = "running"
      /\ Picks[session[j]] \in Nat
      /\ \A v \in Workers : v # w => cur[v] # j
  BY <1>1, CountingHolds DEF Counting, Items
<1>3. /\ UNCHANGED <<session, total, completed, failedItems, saved, cur, item, sunk>>
      /\ \A k \in Jobs \ {j} : Same(k) /\ UNCHANGED status[k]
      /\ o = "err" => status'[j] = status[j]
  BY <1>2 DEF MarkComplete, SetStatus, Same, Applied, HasRow, Inv, TypeOK, Types, request, counts, outside
<1>4. /\ pc'[w] = "cleanup"
      /\ \A v \in Workers \ {w} : UNCHANGED <<pc[v], cur[v], item[v], expired[v], shut[v]>>
  BY <1>1, <1>3, ContextAfter DEF MarkComplete, Goto, Inv, TypeOK, Types
<1>5. Counted(w)'
  BY <1>4 DEF Counted, Counting, Items
<1>6. status'[j] = "complete" => Balanced(j)'
  <2>1. CASE CtxDone(w)
    BY <1>1, <1>2, <1>3, <2>1, CallApplies
  <2>2. CASE ~CtxDone(w)
    <3>1. /\ total[j] = Picks[session[j]] /\ sunk[j] = saved[j]
          /\ completed[j] + failedItems[j] + 1 = Picks[session[j]] + 1
      BY <1>1, <2>2 DEF Accounts, Counted, Counting, Items
    <3>2. completed[j] \in Nat /\ failedItems[j] \in Nat
      BY <1>2 DEF Inv, TypeOK, Types
    <3>. QED
      BY <1>2, <1>3, <3>1, <3>2 DEF Balanced
  <2>. QED
    BY <2>1, <2>2
<1>. QED
  BY <1>2, <1>3, <1>4, <1>5, <1>6, OwnKeeps

-------------------------------------------------------------------------------
\* What every other step of a replica has in common.
LEMMA AsideSteps ==
  ASSUME Inv, Accounts, NEW w \in Workers,
         \/ Tick(w) \/ Stop(w) \/ Claiming(w) \/ Fault(w)
         \/ ListOk(w) \/ ListError(w) \/ DeleteSession(w)
         \/ \E o \in Outcomes : MarkFailed(w, o)
  PROVE  Accounts'
<1>. USE DEF Inv, TypeOK, Types, Goto, At, Counting, Items, table, request, context, outside
<1>1. ASSUME NEW l, NEW m, Jump(w, l, m), m \notin Counting PROVE Accounts'
  BY <1>1, AsideKeeps DEF Jump
<1>2. CASE Tick(w) \/ Restart(w) \/ DrainCancelled(w) \/ ClaimEmpty(w) \/ ClaimError(w) \/ ListOk(w) \/ ListError(w)
  BY <1>1, <1>2 DEF Tick, Restart, DrainCancelled, ClaimEmpty, ClaimError, ListOk, ListError
<1>3. CASE Stop(w)
  BY <1>3, AsideKeeps DEF Stop
<1>4. ASSUME NEW j \in Jobs, ClaimSelect(w, j) PROVE Accounts'
  BY <1>4, AsideKeeps DEF ClaimSelect
<1>5. ASSUME NEW o \in Outcomes, ClaimCommit(w, o) PROVE Accounts'
  <2>1. /\ UNCHANGED <<session, counts, sunk, shut>>
        /\ \A j \in Jobs : status'[j] = "complete" => status[j] = "complete"
        /\ \/ Goto(w, "list") /\ UNCHANGED <<cur, item, expired>>
           \/ Goto(w, "wait") /\ Drop(w)
    BY <1>5 DEF ClaimCommit, SetStatus
  <2>. QED
    BY <2>1, AsideKeeps DEF Drop
<1>6. CASE DeleteSession(w)
  BY <1>6, AsideKeeps DEF DeleteSession, Return, Drop
<1>7. ASSUME NEW o \in Outcomes, MarkFailed(w, o) PROVE Accounts'
  <2>1. /\ UNCHANGED <<session, counts, sunk>> /\ Goto(w, "drain") /\ Drop(w)
        /\ shut' = [shut EXCEPT ![w] = shut'[w]]
        /\ \A j \in Jobs : status'[j] = "complete" => status[j] = "complete"
    BY <1>7 DEF MarkFailed, Return, SetStatus, Cancel
  <2>. QED
    BY <2>1, AsideKeeps DEF Drop
<1>8. CASE Expire(w) \/ Shutdown(w)
  BY <1>8, AsideKeeps DEF Expire, Shutdown, CtxDone
<1>9. CASE Crash(w)
  BY <1>9, AsideKeeps DEF Crash, Drop
<1>. QED
  BY <1>2, <1>3, <1>4, <1>5, <1>6, <1>7, <1>8, <1>9 DEF Claiming, Fault

\* Requests and polls touch no job that a replica counts.
LEMMA OthersKeep ==
  ASSUME Inv, Accounts,
         \/ \E j \in Jobs, s \in Sessions : CreateJob(j, s)
         \/ \E j \in Jobs : InsertCommits(j)
         \/ \E p \in Pollers : Get(p)
         \/ UNCHANGED vars
  PROVE  Accounts'
<1>1. ASSUME NEW j \in Jobs, NEW s \in Sessions, CreateJob(j, s) PROVE Accounts'
  <2>1. /\ UNCHANGED <<counts, pc, cur, item, expired, shut, sunk>> /\ status[j] = "absent"
        /\ status' = status /\ session' = [session EXCEPT ![j] = s]
    BY <1>1 DEF CreateJob, replica, context, outside
  <2>2. ASSUME NEW v \in Workers, pc[v] \in Counting
        PROVE  Same(cur[v]) /\ UNCHANGED session[cur[v]]
    BY <2>1, <2>2, CountingHolds DEF Same, counts, Inv, TypeOK, Types
  <2>3. \A v \in Workers : Counted(v)'
    BY <2>1, <2>2, StaysCounted DEF CtxDone
  <2>4. ExactAccounting'
    BY <2>1 DEF Accounts, ExactAccounting, counts, Inv, TypeOK, Types
  <2>. QED
    BY <2>3, <2>4 DEF Accounts
<1>2. ASSUME UNCHANGED <<session, counts, pc, cur, item, expired, shut, sunk>>,
             \A j \in Jobs : status'[j] = "complete" => status[j] = "complete"
      PROVE  Accounts'
  <2>1. \A v \in Workers : Counted(v)'
    BY <1>2, StaysCounted DEF Same, counts, CtxDone
  <2>2. ExactAccounting'
    BY <1>2 DEF Accounts, ExactAccounting, counts
  <2>. QED
    BY <2>1, <2>2 DEF Accounts
<1>3. ASSUME NEW p \in Pollers, Get(p) PROVE Accounts'
  BY <1>2, <1>3 DEF Get, ReadTerminal, DeleteRow, SetStatus, Inv, TypeOK, Types, table, request, replica, context, outside
<1>4. CASE UNCHANGED vars
  BY <1>2, <1>4 DEF vars, table, request, replica, context, outside
<1>5. ASSUME NEW j \in Jobs, InsertCommits(j) PROVE Accounts'
  BY <1>2, <1>5 DEF InsertCommits, Inv, TypeOK, Types, request, replica, context, outside
<1>. QED
  BY <1>1, <1>3, <1>4, <1>5

LEMMA AccountsStep ==
  ASSUME Inv, Accounts, "db" \notin Faults, [Next]_vars
  PROVE  Accounts'
<1>1. ASSUME NEW w \in Workers, ProcessJob(w) PROVE Accounts'
  BY <1>1, AsideSteps, SetTotalCounts, SaveCounts, DownloadCounts, SuccessCounts,
     FailureCounts, CompleteCounts DEF ProcessJob
<1>2. ASSUME NEW w \in Workers, Run(w) \/ Fault(w) PROVE Accounts'
  BY <1>1, <1>2, AsideSteps DEF Run
<1>. QED
  BY <1>2, OthersKeep DEF Next

\* A completed row has every picked item once, as saved or as failed, when no
\* statement fails but by the deadline, a shutdown or a crash (worker.go:106).
THEOREM CompleteIsExact == "db" \notin Faults => (Spec => []ExactAccounting)
<1>. SUFFICES ASSUME "db" \notin Faults PROVE Spec => []ExactAccounting
  OBVIOUS
<1>1. Init => Accounts
  BY DEF Init, Accounts, ExactAccounting, Counted, Counting, Items
<1>2. Inv /\ Accounts /\ [Next]_vars => Accounts'
  BY AccountsStep
<1>3. Accounts => ExactAccounting
  BY DEF Accounts
<1>. QED
  BY <1>1, <1>2, <1>3, InvHolds, PTL DEF Spec

-------------------------------------------------------------------------------
(* The session's end.                                                      *)

\* A replica that is past its list has walked all of it.
Ends   == {"markComplete", "cleanup"}
Walked == \A w \in Workers : pc[w] \in Ends => item[w] > Picks[session[cur[w]]]

LEMMA EndHolds ==
  ASSUME Inv, NEW w \in Workers, pc[w] \in Processing
  PROVE  /\ cur[w] \in Jobs /\ session[cur[w]] \in Sessions /\ Picks[session[cur[w]]] \in Nat
         /\ item[w] \in Nat /\ status[cur[w]] # "absent"
         /\ \A v \in Workers : v # w => cur[v] # cur[w]
BY QueueAssumption
   DEF Inv, TypeOK, Types, HoldsJob, SingleOwner, OneHolder, HeldStatus, Processing, Serving, At

\* One replica moves, to its end only with its list behind it.
LEMMA WalkKeeps ==
  ASSUME Inv, Walked, NEW w \in Workers, UNCHANGED session,
         \A v \in Workers \ {w} : UNCHANGED <<pc[v], cur[v], item[v]>>,
         pc'[w] \in Ends => cur'[w] = cur[w] /\ item'[w] > Picks[session[cur[w]]]
  PROVE  Walked'
BY DEF Walked

LEMMA WalkedStep == ASSUME Inv, Walked, [Next]_vars PROVE Walked'
<1>. USE DEF Inv, TypeOK, Types, Goto, At, Ends, table, request, context, replica
<1>1. ASSUME NEW j \in Jobs, NEW s \in Sessions, CreateJob(j, s) PROVE Walked'
  <2>1. ASSUME NEW w \in Workers, pc[w] \in Ends PROVE session'[cur[w]] = session[cur[w]]
    BY <1>1, <2>1, EndHolds DEF CreateJob, Processing, Serving
  <2>. QED
    BY <1>1, <2>1 DEF CreateJob, Walked
<1>2. ASSUME NEW w \in Workers, NEW l, NEW m, Jump(w, l, m), m \notin Ends PROVE Walked'
  BY <1>2, WalkKeeps DEF Jump
<1>3. ASSUME NEW w \in Workers,
             \/ Tick(w) \/ Restart(w) \/ DrainCancelled(w) \/ ClaimEmpty(w) \/ ClaimError(w)
             \/ ListOk(w) \/ ListError(w) \/ DownloadOk(w) \/ DownloadError(w) \/ SaveError(w)
      PROVE  Walked'
  BY <1>2, <1>3 DEF Tick, Restart, DrainCancelled, ClaimEmpty, ClaimError, ListOk, ListError,
     DownloadOk, DownloadError, SaveError
<1>4. ASSUME NEW w \in Workers, NEW i \in Nat, pc[w] \in Processing, GotoItem(w, i), UNCHANGED <<session, cur>>
      PROVE  Walked'
  <2>1. pc'[w] \in Ends => item'[w] > Picks[session[cur[w]]]
    BY <1>4, EndHolds DEF GotoItem
  <2>. QED
    BY <1>4, <2>1, WalkKeeps DEF GotoItem
<1>5. ASSUME NEW w \in Workers, NEW o \in Outcomes, SetTotal(w, o) \/ RecordItemFailure(w, o)
      PROVE  Walked'
  <2>1. pc[w] \in Processing /\ item[w] + 1 \in Nat /\ UNCHANGED <<session, cur>>
    BY <1>5 DEF SetTotal, RecordItemFailure, Processing, Serving
  <2>. QED
    BY <1>4, <1>5, <2>1 DEF SetTotal, RecordItemFailure
<1>6. ASSUME NEW w \in Workers, NEW o \in Outcomes, RecordItemSuccess(w, o) PROVE Walked'
  <2>1. pc[w] \in Processing /\ item[w] + 1 \in Nat /\ UNCHANGED <<session, cur>>
    BY <1>6 DEF RecordItemSuccess, RecordItemSuccessThen, Processing, Serving
  <2>2. CASE GotoItem(w, item[w] + 1)
    BY <1>4, <2>1, <2>2
  <2>3. CASE Goto(w, "recordFailure") /\ UNCHANGED item
    BY <2>1, <2>3, WalkKeeps
  <2>. QED
    BY <1>6, <2>2, <2>3 DEF RecordItemSuccess, RecordItemSuccessThen
<1>7. ASSUME NEW w \in Workers, NEW o \in Outcomes, MarkComplete(w, o) PROVE Walked'
  BY <1>7, WalkKeeps DEF MarkComplete, Walked
<1>8. ASSUME NEW w \in Workers, NEW o \in Outcomes, MarkFailed(w, o) PROVE Walked'
  BY <1>8, WalkKeeps DEF MarkFailed, Return, Drop
<1>9. ASSUME NEW w \in Workers, NEW o \in Outcomes, ClaimCommit(w, o) PROVE Walked'
  <2>1. /\ UNCHANGED session
        /\ \/ Goto(w, "list") /\ UNCHANGED <<cur, item>>
           \/ Goto(w, "wait") /\ Drop(w)
    BY <1>9 DEF ClaimCommit
  <2>. QED
    BY <2>1, WalkKeeps DEF Drop
<1>10. ASSUME NEW w \in Workers, NEW j \in Jobs, ClaimSelect(w, j) PROVE Walked'
  BY <1>10, WalkKeeps DEF ClaimSelect
<1>11. ASSUME NEW w \in Workers, SaveOk(w) \/ DeleteSession(w) \/ Stop(w) \/ Crash(w) PROVE Walked'
  BY <1>11, WalkKeeps DEF SaveOk, DeleteSession, Stop, Crash, Return, Drop
<1>12. ASSUME UNCHANGED <<session, pc, cur, item>> PROVE Walked'
  BY <1>12 DEF Walked
<1>13. ASSUME NEW w \in Workers, Expire(w) \/ Shutdown(w) PROVE Walked'
  BY <1>12, <1>13 DEF Expire, Shutdown
<1>14. ASSUME NEW p \in Pollers, Get(p) PROVE Walked'
  BY <1>12, <1>14 DEF Get, ReadTerminal, DeleteRow
<1>15. CASE UNCHANGED vars
  BY <1>12, <1>15 DEF vars
<1>16. ASSUME NEW j \in Jobs, InsertCommits(j) PROVE Walked'
  BY <1>12, <1>16 DEF InsertCommits
<1>. QED
  BY <1>1, <1>3, <1>5, <1>6, <1>7, <1>8, <1>9, <1>10, <1>11, <1>13, <1>14, <1>15, <1>16
     DEF Next, Run, Fault, Claiming, ProcessJob

\* Only DeleteSession takes a session away.
LEMMA GivenUp ==
  ASSUME Inv, [Next]_vars, NEW s \in sessions \ sessions'
  PROVE  \E w \in Workers : DeleteSession(w) /\ session[cur[w]] = s
<1>. USE DEF outside
<1>1. ASSUME NEW w \in Workers, DeleteSession(w) PROVE session[cur[w]] = s
  BY <1>1 DEF DeleteSession
<1>2. ASSUME NEW w \in Workers, Run(w) PROVE DeleteSession(w)
  BY <1>2 DEF Run, Claiming, ProcessJob, Jump, Tick, Stop, DrainCancelled, ClaimEmpty, ClaimError,
     ClaimSelect, ClaimCommit, ListOk, ListError, DownloadOk, DownloadError, SaveOk, SaveError,
     MarkFailed, SetTotal, RecordItemSuccess, RecordItemSuccessThen, RecordItemFailure, MarkComplete
<1>3. ASSUME NEW w \in Workers PROVE ~Fault(w)
  BY DEF Fault, Expire, Shutdown, Crash, Restart, Jump
<1>4. ASSUME NEW p \in Pollers PROVE ~Get(p)
  BY DEF Get, ReadTerminal, DeleteRow
<1>5. /\ ~\E j \in Jobs, r \in Sessions : CreateJob(j, r)
      /\ ~\E j \in Jobs : InsertCommits(j)
  BY DEF CreateJob, InsertCommits
<1>6. ~UNCHANGED vars
  BY DEF vars
<1>. QED
  BY <1>1, <1>2, <1>3, <1>4, <1>5, <1>6 DEF Next

\* DeletePickerSession follows a whole walk of the session's items, by the very
\* replica that deletes it (worker.go:131): a selection whose listing failed, or
\* whose walk was cut, stays with Google, whatever other jobs of it have come to.
THEOREM SessionOutlivesJob == Spec => SessionKept
<1>. DEFINE Kept == \A s \in sessions \ sessions' :
              \E w \in Workers :
                /\ cur[w] # NoJob /\ cur'[w] = NoJob
                /\ session[cur[w]] = s
                /\ item[w] > Picks[s]
<1>1. Init => Walked
  BY DEF Init, Walked, Ends
<1>2. Inv /\ Walked /\ [Next]_vars => Walked'
  BY WalkedStep
<1>3. Inv /\ Walked /\ [Next]_vars => Kept
  <2>. SUFFICES ASSUME Inv, Walked, [Next]_vars, NEW s \in sessions \ sessions'
       PROVE  \E w \in Workers :
                /\ cur[w] # NoJob /\ cur'[w] = NoJob
                /\ session[cur[w]] = s
                /\ item[w] > Picks[s]
    OBVIOUS
  <2>1. PICK w \in Workers : DeleteSession(w) /\ session[cur[w]] = s
    BY GivenUp
  <2>2. pc[w] = "cleanup" /\ cur[w] \in Jobs
    BY <2>1, EndHolds DEF DeleteSession, At, Processing
  <2>3. cur'[w] = NoJob
    BY <2>1 DEF DeleteSession, Return, Drop, Inv, TypeOK, Types
  <2>4. item[w] > Picks[s]
    BY <2>1, <2>2 DEF Walked, Ends
  <2>. QED
    BY <2>1, <2>2, <2>3, <2>4, QueueAssumption
<1>. QED
  BY <1>1, <1>2, <1>3, InvHolds, PTL DEF Spec, SessionKept

===============================================================================
