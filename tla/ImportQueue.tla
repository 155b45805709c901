----------------------------- MODULE ImportQueue ------------------------------
(***************************************************************************)
(* The import queue: the photopicker_imports table of postgres/imports.go, *)
(* the worker replicas of worker.go that claim and process its rows, and   *)
(* the GetImport polls of handlers.go that read and remove them.           *)
(*                                                                         *)
(* Every call that leaves the process (a SQL statement, a Google request,  *)
(* PhotoSink.SavePhoto) is one step, so that the steps of other replicas   *)
(* and of polls, a deadline, a shutdown and a crash fall between any two   *)
(* of them. Claiming takes two steps, because a second replica's SELECT    *)
(* ... FOR UPDATE SKIP LOCKED runs while the first one's row is locked.    *)
(***************************************************************************)
EXTENDS Naturals, Sequences, FiniteSets

CONSTANTS
  Jobs,        \* the UUIDs CreateJob may draw
  Workers,     \* worker replicas (Worker.Run loops)
  Pollers,     \* GetImport requests that may be in flight together
  Sessions,    \* Google picker sessions
  Picks,       \* how many items the user picked in each session
  Faults,      \* which of "db", "timeout", "shutdown", "crash" may happen
  MaxAnswers,  \* bound: how often a job's terminal status is read
  NoJob,
  NoSession

ASSUME QueueAssumption ==
  /\ NoJob \notin Jobs
  /\ NoSession \notin Sessions
  /\ Picks \in [Sessions -> Nat]
  /\ Faults \subseteq {"db", "timeout", "shutdown", "crash"}
  /\ MaxAnswers \in Nat

VARIABLES
  (* the table: one column each; status "absent"/"gone" is no row *)
  status, session, created, total, completed, failedItems, saved,
  clock,       \* what NOW() last was
  (* the replicas *)
  pc, cur,     \* where each worker is, and the job it holds
  item,        \* the item of its list it is at
  expired,     \* its jobCtx passed JobTimeout
  shut,        \* the context given to Run is cancelled
  (* outside *)
  sessions,    \* sessions Google still knows
  sunk,        \* the items of each job SavePhoto accepted, in order
  (* the polls *)
  reading,     \* the terminal job a poll has read and not yet deleted
  (* history *)
  answers,     \* how often a job's terminal status was read
  passed       \* the older rows a claim left waiting, less those whose own
               \* claim was given up since

request == <<session, created, clock>>
counts  == <<total, completed, failedItems, saved>>
table   == <<status, request, counts>>
context == <<expired, shut>>
replica == <<pc, cur, item, context>>
outside == <<sessions, sunk>>
history == <<answers, passed>>
polls   == <<reading, history>>
vars    == <<table, replica, outside, polls>>

Finished  == {"complete", "failed"}
Statuses  == {"absent", "pending", "running", "gone"} \cup Finished
HasRow(j) == status[j] \notin {"absent", "gone"}

\* The program points of Run and DrainOnce, of a claim in flight, and of
\* ProcessJob and importOne. "down" is a replica whose Run has ended.
Serving    == {"list", "markFailed", "setTotal", "download", "save",
               "recordSuccess", "recordFailure", "markComplete"}
Processing == Serving \cup {"cleanup"}
Points     == {"down", "wait", "drain", "claim"} \cup Processing

Types ==
  /\ status      \in [Jobs -> Statuses]
  /\ session     \in [Jobs -> Sessions \cup {NoSession}]
  /\ created     \in [Jobs -> Nat]
  /\ total       \in [Jobs -> Nat]
  /\ completed   \in [Jobs -> Nat]
  /\ failedItems \in [Jobs -> Nat]
  /\ saved       \in [Jobs -> Seq(Nat)]
  /\ clock       \in Nat
  /\ pc          \in [Workers -> Points]
  /\ cur         \in [Workers -> Jobs \cup {NoJob}]
  /\ item        \in [Workers -> Nat]
  /\ expired     \in [Workers -> BOOLEAN]
  /\ shut        \in [Workers -> BOOLEAN]
  /\ sessions    \subseteq Sessions
  /\ sunk        \in [Jobs -> Seq(Nat)]
  /\ reading     \in [Pollers -> Jobs \cup {NoJob}]
  /\ answers     \in [Jobs -> Nat]
  /\ passed      \in [Workers -> SUBSET Jobs]

HoldsJob ==
  /\ \A j \in Jobs : status[j] # "absent" => session[j] \in Sessions
  /\ \A w \in Workers :
       /\ cur[w] # NoJob <=> pc[w] \in Processing \cup {"claim"}
       /\ cur[w] # NoJob => session[cur[w]] \in Sessions
       /\ expired[w] => pc[w] \in Processing

\* The types, and that a replica holds a job, one that was requested, exactly
\* while it claims or processes it: nothing of a job outlives ProcessJob or a
\* failed claim.
TypeOK == Types /\ HoldsJob

Init ==
  /\ status      = [j \in Jobs |-> "absent"]
  /\ session     = [j \in Jobs |-> NoSession]
  /\ created     = [j \in Jobs |-> 0]
  /\ total       = [j \in Jobs |-> 0]
  /\ completed   = [j \in Jobs |-> 0]
  /\ failedItems = [j \in Jobs |-> 0]
  /\ saved       = [j \in Jobs |-> <<>>]
  /\ clock       = 0
  /\ pc          = [w \in Workers |-> "wait"]
  /\ cur         = [w \in Workers |-> NoJob]
  /\ item        = [w \in Workers |-> 0]
  /\ expired     = [w \in Workers |-> FALSE]
  /\ shut        = [w \in Workers |-> FALSE]
  /\ sessions    = Sessions
  /\ sunk        = [j \in Jobs |-> <<>>]
  /\ reading     = [p \in Pollers |-> NoJob]
  /\ answers     = [j \in Jobs |-> 0]
  /\ passed      = [w \in Workers |-> {}]

-------------------------------------------------------------------------------
(* A statement sent to Postgres ends "ok"; or "err", it was not applied;   *)
(* or it was applied and yet the caller gets an error: the answer is       *)
(* "lost" with the connection, "late" when the deadline passes while it is *)
(* awaited, "cut" when the shutdown comes meanwhile. Under a context that  *)
(* is already done database/sql sends nothing.                             *)
Outcomes == {"ok", "err", "lost", "late", "cut"}

CtxDone(w) == shut[w] \/ expired[w]

Call(w, o) ==
  \/ o = "ok"   /\ ~CtxDone(w)
  \/ o = "err"  /\ (CtxDone(w) \/ "db" \in Faults)
  \/ o = "lost" /\ ~CtxDone(w) /\ "db" \in Faults
  \/ o = "late" /\ ~CtxDone(w) /\ "timeout" \in Faults
  \/ o = "cut"  /\ ~CtxDone(w) /\ "shutdown" \in Faults

\* What the call leaves of Run's context and of the job's deadline.
Cancel(w, o)   == shut' = [shut EXCEPT ![w] = @ \/ o = "cut"]
Deadline(w, o) == expired' = [expired EXCEPT ![w] = @ \/ o = "late"]

\* An UPDATE ... WHERE id = j changes something: it is applied, to a row.
Applied(j, o) == o # "err" /\ HasRow(j)

Bump(f, j, o) == IF Applied(j, o) THEN [f EXCEPT ![j] = @ + 1] ELSE f

SetStatus(j, s, o) ==
  status' = IF Applied(j, o) THEN [status EXCEPT ![j] = s] ELSE status

Goto(w, l) == pc' = [pc EXCEPT ![w] = l]

\* The replica lets go of its job, and of jobCtx and the list with it.
Drop(w) ==
  /\ cur'     = [cur EXCEPT ![w] = NoJob]
  /\ item'    = [item EXCEPT ![w] = 0]
  /\ expired' = [expired EXCEPT ![w] = FALSE]

\* ProcessJob returns to DrainOnce's loop.
Return(w) == Goto(w, "drain") /\ Drop(w)

\* Head of the loop over the listed items: item i, or past the last one.
GotoItem(w, i) ==
  /\ Goto(w, IF i <= Picks[session[cur[w]]] THEN "download" ELSE "markComplete")
  /\ item' = [item EXCEPT ![w] = i]

At(w, l) == pc[w] = l

\* The replica goes from one point to another and nothing else happens.
Jump(w, from, to) ==
  /\ At(w, from)
  /\ Goto(w, to)
  /\ UNCHANGED <<table, cur, item, context, outside, polls>>

-------------------------------------------------------------------------------
(* CreateJob: one INSERT under a fresh UUID. created_at is NOW(), which is *)
(* when the INSERT began; others see the row when it commits, if it does,  *)
(* so that older rows may appear after younger ones.                       *)
CreateJob(j, s) ==
  /\ status[j] = "absent" /\ session[j] = NoSession
  /\ session' = [session EXCEPT ![j] = s]
  /\ clock' \in {clock, clock + 1}
  /\ created' = [created EXCEPT ![j] = clock']
  /\ UNCHANGED <<status, counts, replica, outside, polls>>

InsertCommits(j) ==
  /\ status[j] = "absent" /\ session[j] # NoSession
  /\ status' = [status EXCEPT ![j] = "pending"]
  /\ UNCHANGED <<request, counts, replica, outside, polls>>

-------------------------------------------------------------------------------
(* Run's select: a tick or the end of its context; both may be ready.      *)
Tick(w) == Jump(w, "wait", "drain")

\* Variant: Run ranges over the ticker and never looks at its context.
StopNever(w) == FALSE /\ At(w, "wait") /\ UNCHANGED vars

Stop(w) ==
  /\ At(w, "wait")
  /\ shut[w]
  /\ Goto(w, "down")
  /\ shut' = [shut EXCEPT ![w] = FALSE]
  /\ UNCHANGED <<table, cur, item, expired, outside, polls>>

(* DrainOnce's loop leaves on a done context, on an error of the claim and *)
(* on an empty queue.                                                      *)
DrainCancelled(w) ==
  /\ shut[w]
  /\ Jump(w, "drain", "wait")

\* Variant: the subquery without FOR UPDATE SKIP LOCKED.
LockedNever(j) == FALSE

Locked(j) == \E w \in Workers : At(w, "claim") /\ cur[w] = j

\* Variants: a claim that takes running rows over, a newest-first queue.
FreeOrRunning == {j \in Jobs : status[j] \in {"pending", "running"} /\ ~Locked(j)}

\* The rows the subquery of ClaimNextPending can return: FOR UPDATE SKIP
\* LOCKED takes the oldest pending row that no other claim has locked.
Free == {j \in Jobs : status[j] = "pending" /\ ~Locked(j)}
ClaimableNewest ==
  {j \in Free : \A k \in Free : created[k] <= created[j]}
Claimable == {j \in Free : \A k \in Free : created[j] <= created[k]}

InQueueBefore(j) == {k \in Jobs : status[k] = "pending" /\ created[k] < created[j]}

ClaimSelect(w, j) ==
  /\ At(w, "drain")
  /\ ~shut[w]
  /\ j \in Claimable
  /\ Goto(w, "claim")
  /\ cur' = [cur EXCEPT ![w] = j]
  /\ passed' = [passed EXCEPT ![w] = InQueueBefore(j)]
  /\ UNCHANGED <<table, item, context, outside, reading, answers>>

\* The replica's claim, if it has one, comes to nothing: its row is unlocked and
\* waits again, and those who passed it over owe it nothing.
GiveUpClaim(w) ==
  passed' = [v \in Workers |-> IF v = w THEN {} ELSE passed[v] \ {cur[w]}]

ClaimEmpty(w) ==
  /\ ~shut[w]
  /\ Free = {}
  /\ Jump(w, "drain", "wait")

ClaimError(w) ==
  /\ ~shut[w]
  /\ "db" \in Faults
  /\ Jump(w, "drain", "wait")

\* Variant: a claim that failed keeps its job.
ClaimCommitKeeps(w, o) ==
  /\ At(w, "claim")
  /\ o = "ok" \/ (o \in {"err", "lost"} /\ (shut[w] \/ "db" \in Faults))
  /\ SetStatus(cur[w], "running", o)
  /\ Goto(w, IF o = "ok" THEN "list" ELSE "wait")
  /\ UNCHANGED <<request, counts, cur, item, expired, shut, outside, polls>>

(* The UPDATE of the claim ends and its lock is released; a shutdown may   *)
(* have come while it was under way. A "lost" claim leaves the row running *)
(* under no worker. "ok" enters ProcessJob, which arms a deadline.         *)
ClaimCommit(w, o) ==
  /\ At(w, "claim")
  /\ SetStatus(cur[w], "running", o)
  /\ \/ /\ o = "ok"
        /\ Goto(w, "list")
        /\ passed' = [passed EXCEPT ![w] = {}]
        /\ UNCHANGED <<cur, item, expired>>
     \/ /\ o \in {"err", "lost"}
        /\ shut[w] \/ "db" \in Faults
        /\ Goto(w, "wait") /\ Drop(w) /\ GiveUpClaim(w)
  /\ UNCHANGED <<request, counts, shut, outside, reading, answers>>

-------------------------------------------------------------------------------
(* ProcessJob. Google may refuse any call, and refuses every call under a  *)
(* done context; the items of a session it has forgotten are not found.    *)
ListOk(w) ==
  /\ Jump(w, "list", "setTotal")
  /\ ~CtxDone(w)
  /\ session[cur[w]] \in sessions

\* Variant: a failed listing returns without MarkFailed.
ListErrorReturns(w) ==
  /\ At(w, "list")
  /\ Return(w)
  /\ UNCHANGED <<table, shut, outside, polls>>

ListError(w) == Jump(w, "list", "markFailed")

\* Variant: the session cleanup is deferred, so a failed listing does it too.
MarkFailedCleansUp(w, o) ==
  /\ At(w, "markFailed")
  /\ Call(w, o)
  /\ SetStatus(cur[w], "failed", o)
  /\ sessions' = sessions \ {session[cur[w]]}
  /\ Return(w)
  /\ Cancel(w, o)
  /\ UNCHANGED <<request, counts, sunk, polls>>

MarkFailed(w, o) ==
  /\ At(w, "markFailed")
  /\ Call(w, o)
  /\ SetStatus(cur[w], "failed", o)
  /\ Return(w)
  /\ Cancel(w, o)
  /\ UNCHANGED <<request, counts, outside, polls>>

\* An error of SetTotal is only logged.
SetTotal(w, o) ==
  /\ At(w, "setTotal")
  /\ Call(w, o)
  /\ total' = IF Applied(cur[w], o)
              THEN [total EXCEPT ![cur[w]] = Picks[session[cur[w]]]] ELSE total
  /\ GotoItem(w, 1)
  /\ Cancel(w, o) /\ Deadline(w, o)
  /\ UNCHANGED <<status, request, completed, failedItems, saved, cur,
                 outside, polls>>

DownloadOk(w) ==
  /\ ~CtxDone(w)
  /\ Jump(w, "download", "save")

DownloadError(w) == Jump(w, "download", "recordFailure")

\* The sink is the host's code and may not look at the context.
SaveOk(w) ==
  /\ At(w, "save")
  /\ sunk' = [sunk EXCEPT ![cur[w]] = Append(@, item[w])]
  /\ Goto(w, "recordSuccess")
  /\ UNCHANGED <<table, cur, item, context, sessions, polls>>

SaveError(w) == Jump(w, "save", "recordFailure")

\* importOne records the item; after an error l comes next.
RecordItemSuccessThen(w, o, l) ==
  LET j == cur[w] IN
  /\ At(w, "recordSuccess")
  /\ Call(w, o)
  /\ completed' = Bump(completed, j, o)
  /\ saved' = IF Applied(j, o) THEN [saved EXCEPT ![j] = Append(@, item[w])]
                               ELSE saved
  /\ \/ o = "ok" /\ GotoItem(w, item[w] + 1)
     \/ o # "ok" /\ Goto(w, l) /\ UNCHANGED item
  /\ Cancel(w, o) /\ Deadline(w, o)
  /\ UNCHANGED <<status, request, total, failedItems, cur, outside, polls>>

\* Variants: the whole item, or only the statement, is tried again.
SaveAgain(w, o)   == RecordItemSuccessThen(w, o, "save")
RecordAgain(w, o) == RecordItemSuccessThen(w, o, "recordSuccess")

\* An error makes importOne fail: the item is then recorded as failed.
RecordItemSuccess(w, o) == RecordItemSuccessThen(w, o, "recordFailure")

\* Variant: a failed item fails the job.
RecordItemFailureEndsJob(w, o) ==
  /\ At(w, "recordFailure")
  /\ Call(w, o)
  /\ failedItems' = Bump(failedItems, cur[w], o)
  /\ Goto(w, "markFailed")
  /\ Cancel(w, o) /\ Deadline(w, o)
  /\ UNCHANGED <<status, request, total, completed, saved, cur, item, outside, polls>>

RecordItemFailure(w, o) ==
  /\ At(w, "recordFailure")
  /\ Call(w, o)
  /\ failedItems' = Bump(failedItems, cur[w], o)
  /\ GotoItem(w, item[w] + 1)
  /\ Cancel(w, o) /\ Deadline(w, o)
  /\ UNCHANGED <<status, request, total, completed, saved, cur, outside, polls>>

\* Variant: the last statement runs under a context of its own, so that a job
\* whose deadline passed still ends.
MarkCompleteDetached(w, o) ==
  /\ At(w, "markComplete")
  /\ o = "ok"
  /\ SetStatus(cur[w], "complete", o)
  /\ Goto(w, "cleanup")
  /\ UNCHANGED <<request, counts, cur, item, context, outside, polls>>

MarkComplete(w, o) ==
  /\ At(w, "markComplete")
  /\ Call(w, o)
  /\ SetStatus(cur[w], "complete", o)
  /\ Goto(w, "cleanup")
  /\ Cancel(w, o) /\ Deadline(w, o)
  /\ UNCHANGED <<request, counts, cur, item, outside, polls>>

\* Best effort: the session may survive, and does under a done context.
DeleteSession(w) ==
  /\ At(w, "cleanup")
  /\ \/ UNCHANGED sessions
     \/ ~CtxDone(w) /\ sessions' = sessions \ {session[cur[w]]}
  /\ Return(w)
  /\ UNCHANGED <<table, shut, sunk, polls>>

-------------------------------------------------------------------------------
(* What happens to a replica: its job's deadline passes, the context given *)
(* to Run is cancelled, the process dies (a claim in flight is rolled back *)
(* or was "lost" before), a new process starts.                            *)
Expire(w) ==
  /\ "timeout" \in Faults
  /\ pc[w] \in Processing
  /\ ~expired[w]
  /\ expired' = [expired EXCEPT ![w] = TRUE]
  /\ UNCHANGED <<table, pc, cur, item, shut, outside, polls>>

Shutdown(w) ==
  /\ "shutdown" \in Faults
  /\ ~At(w, "down")
  /\ ~shut[w]
  /\ shut' = [shut EXCEPT ![w] = TRUE]
  /\ UNCHANGED <<table, pc, cur, item, expired, outside, polls>>

Crash(w) ==
  /\ "crash" \in Faults
  /\ ~At(w, "down")
  /\ Goto(w, "down")
  /\ Drop(w) /\ GiveUpClaim(w)
  /\ shut' = [shut EXCEPT ![w] = FALSE]
  /\ UNCHANGED <<table, outside, reading, answers>>

Restart(w) == Jump(w, "down", "wait")

-------------------------------------------------------------------------------
(* Get, called by the job's owner (another user's poll finds no row). Only *)
(* a terminal row makes it change anything: it is read, then deleted by a  *)
(* second statement whose error is ignored.                                *)
ReadTerminal(p, j) ==
  /\ reading[p] = NoJob
  /\ status[j] \in Finished
  /\ answers[j] < MaxAnswers
  /\ reading' = [reading EXCEPT ![p] = j]
  /\ answers' = [answers EXCEPT ![j] = @ + 1]
  /\ UNCHANGED <<table, replica, outside, passed>>

DeleteRow(p) ==
  /\ reading[p] # NoJob
  /\ \E o \in {"ok", "err"} : SetStatus(reading[p], "gone", o)
  /\ reading' = [reading EXCEPT ![p] = NoJob]
  /\ UNCHANGED <<request, counts, replica, outside, history>>

-------------------------------------------------------------------------------
Claiming(w) ==
  \/ DrainCancelled(w) \/ ClaimEmpty(w) \/ ClaimError(w)
  \/ \E j \in Jobs : ClaimSelect(w, j)
  \/ \E o \in Outcomes : ClaimCommit(w, o)

ProcessJob(w) ==
  \/ ListOk(w) \/ ListError(w) \/ DownloadOk(w) \/ DownloadError(w)
  \/ SaveOk(w) \/ SaveError(w) \/ DeleteSession(w)
  \/ \E o \in Outcomes :
       \/ MarkFailed(w, o) \/ SetTotal(w, o) \/ RecordItemSuccess(w, o)
       \/ RecordItemFailure(w, o) \/ MarkComplete(w, o)

Run(w)   == Tick(w) \/ Stop(w) \/ Claiming(w) \/ ProcessJob(w)
Fault(w) == Expire(w) \/ Shutdown(w) \/ Crash(w) \/ Restart(w)
Get(p)   == DeleteRow(p) \/ \E j \in Jobs : ReadTerminal(p, j)

Next ==
  \/ \E j \in Jobs, s \in Sessions : CreateJob(j, s)
  \/ \E j \in Jobs : InsertCommits(j)
  \/ \E w \in Workers : Run(w) \/ Fault(w)
  \/ \E p \in Pollers : Get(p)

Spec == Init /\ [][Next]_vars

\* A replica's goroutine is scheduled, and Go's select takes each ready case
\* with the same probability. Faults, requests and restarts owe nothing.
FairSpec ==
  /\ Spec
  /\ \A w \in Workers : WF_vars(Run(w)) /\ SF_vars(Stop(w))

-------------------------------------------------------------------------------
Increasing(q)  == \A a, b \in 1..Len(q) : a < b => q[a] < q[b]
Elements(q)    == {q[i] : i \in 1..Len(q)}
Untouched(j)   == /\ sunk[j] = <<>> /\ saved[j] = <<>>
                  /\ total[j] = 0 /\ completed[j] = 0 /\ failedItems[j] = 0

OneHolder ==
  \A v, w \in Workers : v # w /\ cur[v] # NoJob => cur[v] # cur[w]

HeldStatus ==
  \A w \in Workers :
    /\ At(w, "claim")     => status[cur[w]] = "pending"
    /\ pc[w] \in Serving  => status[cur[w]] = "running"
    /\ At(w, "cleanup")   => status[cur[w]] \in {"running", "complete", "gone"}

\* FOR UPDATE SKIP LOCKED lets "multiple replicas run safely" (worker.go:33):
\* no two replicas hold one job, a claim in flight holds a pending row, and the
\* row of a job being processed stays "running" until its own replica ends it,
\* whatever polls, crashes and lost answers do meanwhile.
SingleOwner == OneHolder /\ HeldStatus

\* Within one job the sink is handed each picked item at most once, in the
\* picker's order: no retry, second claim or restart repeats a SavePhoto.
SinkOnce == \A j \in Jobs : Increasing(sunk[j])

\* What a poll reports as saved really was: completed_items is the length of
\* saved_ids, no id is there twice, and each was accepted by the sink.
SavedFaithful ==
  \A j \in Jobs :
    /\ completed[j] = Len(saved[j])
    /\ Increasing(saved[j])
    /\ Elements(saved[j]) \subseteq Elements(sunk[j])

\* "failed" means nothing was imported: an item's failure never fails the job,
\* and a failed job can be started again without a photo arriving twice.
FailedUntouched == \A j \in Jobs : status[j] = "failed" => Untouched(j)

\* The picker session is given up only by a replica that lets go of a job of
\* that session whose whole list it has walked: a job whose listing failed, or
\* whose walk was cut, leaves the session, so the pick is not lost to it.
SessionKept ==
  [][\A s \in sessions \ sessions' :
       \E w \in Workers :
         /\ cur[w] # NoJob /\ cur'[w] = NoJob
         /\ session[cur[w]] = s
         /\ item[w] > Picks[s]]_vars

\* "the oldest pending job" (imports.go:47), as far as SKIP LOCKED allows: while
\* a claim has its row, every older row that it left waiting is under another
\* claim, or was under one that started it or was given up. No INSERT that
\* commits late, no other claim, poll or restart lets a job start out of turn.
InTurn ==
  \A w \in Workers :
    \A k \in passed[w] : status[k] = "pending" => Locked(k)

\* When Postgres itself does not fail, a row says complete only with all its
\* items accounted for, each once: a deadline or a shutdown in the middle of a
\* job, even in the middle of a statement, never leaves a half-counted row that
\* still gets completed.
ExactAccounting ==
  \A j \in Jobs :
    status[j] = "complete" =>
      /\ total[j] = Picks[session[j]]
      /\ completed[j] + failedItems[j] = total[j]
      /\ saved[j] = sunk[j]

\* A row that says running and that no replica works on: nothing in the code
\* ever claims it again.
Stranded(j) == status[j] = "running" /\ \A w \in Workers : cur[w] # j

\* Who leaves a job running for ever, as long as Postgres itself does not fail:
\* its own replica, under a context that was done already, or when it dies. No
\* other error of Google, of the sink or of an item, no second replica, poll or
\* restart and no step of a replica whose context is live strands a job.
StrandedOnlyByCut ==
  [][\A j \in Jobs :
       Stranded(j)' /\ ~Stranded(j)
         => \E w \in Workers : cur[w] = j /\ (CtxDone(w) \/ pc'[w] = "down")]_vars

\* Every queued job reaches a final status, unless a shutdown or a deadline
\* cuts into the work of some replica.
JobsFinish ==
  \A j \in Jobs :
    status[j] = "pending" ~>
      \/ status[j] \in Finished \cup {"gone"}
      \/ \E w \in Workers : CtxDone(w) \/ At(w, "down")

\* "until ctx is done" (worker.go:67): a cancelled Run returns, whatever the
\* queue still holds and wherever in a job the cancellation meets it.
ShutdownEnds == \A w \in Workers : shut[w] ~> At(w, "down")

\* ImportStore as its callers see it: each job follows JobLifecycle.
Lifecycle == INSTANCE JobLifecycle
  WITH phase    <- status,
       tally    <- [j \in Jobs |-> completed[j] + failedItems[j]],
       answered <- {j \in Jobs : answers[j] > 0}
ImplementsLifecycle == Lifecycle!LifecycleSpec

\* worker.go:103: "ProcessJob runs a single claimed job to terminal state,
\* applying the per-job timeout". Violated: see the findings.
ProcessEndsTerminal ==
  [][\A w \in Workers :
       pc[w] \in Processing /\ pc'[w] = "drain"
         => status'[cur[w]] \in Finished \cup {"gone"}]_vars
===============================================================================
