---------------------------- MODULE EndToEndProofs ----------------------------
(***************************************************************************)
(* Proofs about EndToEnd, for any starts, sessions, picks, bodies, page    *)
(* size, caps and retries, and whenever host code calls: that its browser  *)
(* is PickerFlow's, and its safety properties.                             *)
(***************************************************************************)
EXTENDS EndToEnd, PickerFlowProofs

-------------------------------------------------------------------------------
(* The browser of the system is that of PickerFlow, whose requests may     *)
(* bring anything: here they bring what the service answers.               *)

LEMMA DeliverIsRequested ==
  ASSUME NEW c \in Calls, Deliver(c)
  PROVE  Requested(c)
<1>1. PICK a : Resumes(c, a)
  BY DEF Deliver
<1>2. CASE SessionAnswer(c, a)
  <2>1. a \in {"ok", "failed"}
    BY <1>2 DEF SessionAnswer, Fetched
  <2>. QED
    BY <1>2, <2>1 DEF Requested
<1>3. CASE ImportAnswer(c, a)
  <2>1. a \in {"ok", "failed"}
    BY <1>3 DEF ImportAnswer, Fetched
  <2>. QED
    BY <1>3, <2>1 DEF Requested
<1>4. CASE pollSession(c, a)
  <2>1. \/ pollSession(c, a) /\ a \in {"pending", "ready", "expired", "failed"}
        \/ pollSession(c, "ready")
    BY <1>4 DEF pollSession
  <2>. QED
    BY <2>1 DEF Requested
<1>5. CASE pollJob(c, a)
  <2>1. \/ pollJob(c, a) /\ a \in {"running", "complete", "aborted", "failed"}
        \/ pollJob(c, "running")
    BY <1>5 DEF pollJob, JobAnswered
  <2>. QED
    BY <2>1 DEF Requested
<1>. QED
  BY <1>1, <1>2, <1>3, <1>4, <1>5 DEF Resumes

LEMMA LocalIsNext == Local => Next
BY DEF Local, Next

LEMMA ServeLeavesFlow == ASSUME NEW c \in Calls, Serve(c) PROVE UNCHANGED vars
BY DEF Serve, Unserved, CreateSession, PollSession, TellPhase, StartImport, GetImport, Erase

LEMMA OutsideLeavesFlow ==
  ASSUME (\E s \in Sessions : Confirm(s) \/ Lapse(s)) \/ Works \/ Abandon
  PROVE  UNCHANGED <<vars, wire>>
BY DEF Confirm, Lapse, Works, Abandon, Claim, ListPage, ListFails, ImportItem, MarkComplete, DeleteSession

LEMMA StepIsFlowStep == [SystemNext]_system => [Next]_vars
<1>. SUFFICES ASSUME [SystemNext]_system PROVE [Next]_vars
  OBVIOUS
<1>1. ASSUME NEW c \in Calls, Serve(c) PROVE UNCHANGED vars
  BY <1>1, ServeLeavesFlow
<1>2. ASSUME NEW c \in Calls, Deliver(c) PROVE Next
  BY <1>2, DeliverIsRequested DEF Next
<1>3. CASE Local
  BY <1>3, LocalIsNext
<1>4. CASE (\E s \in Sessions : Confirm(s) \/ Lapse(s)) \/ Works \/ Abandon
  BY <1>4, OutsideLeavesFlow
<1>5. CASE UNCHANGED system
  BY <1>5 DEF system
<1>. QED
  BY <1>1, <1>2, <1>3, <1>4, <1>5 DEF SystemNext

\* Whatever the service, Google and the network do, the browser behaves as
\* PickerFlow says, so its theorems hold of the whole system.
THEOREM BrowserIsFlow == SystemSpec => Spec
<1>1. SystemInit => Init
  BY DEF SystemInit
<1>2. [SystemNext]_system => [Next]_vars
  BY StepIsFlowStep
<1>. QED
  BY <1>1, <1>2, PTL DEF SystemSpec, Spec

-------------------------------------------------------------------------------
(* What a step of the browser does to the calls, as far as the service can *)
(* tell. A call was told its session at every point after the first fetch, *)
(* and its job at those that follow the import.                            *)
Following == {"pollJob", "waitJob", "retryJob", "complete"}
Told      == Following \cup {"pollSession", "waitSession", "retrySession", "picked", "import"}

\* c stays, or goes where a step without an answer can take it.
LocalMove(c) ==
  /\ pc[c] \in Requests => pc'[c] = pc[c]
  /\ pc'[c] \in Told => pc[c] \in Told
  /\ pc'[c] \in Following \ {"complete"} => pc[c] \in Following \ {"complete"}
  /\ pc'[c] = "complete" => pc[c] = "complete"
  /\ err'[c] = "expired" => err[c] = "expired"
  /\ expired' /\ current' = c => (expired /\ current = c) \/ err[c] = "expired"

DoneMove ==
  phase' = "done" =>
    \/ phase = "done" /\ result' = result /\ (pc[result] = "idle" => pc'[result] = "idle")
    \/ pc[result'] = "complete" /\ pc'[result'] = "idle"

LEMMA HostMoves ==
  ASSUME Inv, Host
  PROVE  DoneMove /\ \A c \in Calls : LocalMove(c)
<1>. USE DEF Inv, TypeOK, Types
<1>1. ASSUME NEW d \in Calls, HostCalls(d), phase' # "done",
             \/ UNCHANGED <<pc, err, failures>> /\ ~expired'
             \/ ~expired' /\ (\E p \in {"consent", "session"} : Goto(d, p))
      PROVE  DoneMove /\ \A c \in Calls : LocalMove(c)
  <2>1. UNCHANGED err /\ ~expired'
    BY <1>1 DEF Goto
  <2>2. \A c \in Calls : pc'[c] = pc[c] \/ (pc[c] = "idle" /\ pc'[c] \in {"consent", "session"})
    BY <1>1 DEF Goto, HostCalls
  <2>. QED
    BY <1>1, <2>1, <2>2 DEF DoneMove, LocalMove, Requests, Told, Following
<1>2. ASSUME NEW d \in Connects, connect(d)
      PROVE  DoneMove /\ \A c \in Calls : LocalMove(c)
  BY <1>1, <1>2 DEF connect, Begin, FailAtOnce, Calls
<1>3. ASSUME NEW d \in Starts, start(d)
      PROVE  DoneMove /\ \A c \in Calls : LocalMove(c)
  BY <1>1, <1>3 DEF start, Begin, FailAtOnce, Calls
<1>4. CASE cancel
  <2>1. /\ current' = NoCall /\ UNCHANGED <<expired, result>>
        /\ phase' = IF phase \in {"done", "error"} THEN phase ELSE "idle"
    BY <1>4 DEF cancel, CancelTo
  <2>2. \A c \in Calls : \/ pc'[c] = pc[c] /\ err'[c] = err[c]
                         \/ pc[c] \in Delays /\ pc'[c] = "throw" /\ err'[c] = "cancelled"
    BY <1>4 DEF cancel, CancelTo, clearTimers
  <2>3. result \in Calls \/ phase # "done"
    BY DEF Apart, Calls
  <2>. QED
    BY <2>1, <2>2, <2>3, FlowAssumption DEF DoneMove, LocalMove, Requests, Told, Following, Delays
<1>. QED
  BY <1>2, <1>3, <1>4 DEF Host

\* One call moves and the others stay.
LEMMA OneMoves ==
  ASSUME Inv, NEW c \in Calls, LocalMove(c), UNCHANGED current,
         \A d \in Calls : d # c => pc'[d] = pc[d] /\ err'[d] = err[d],
         expired' => expired \/ current = c
  PROVE  \A d \in Calls : LocalMove(d)
BY DEF LocalMove

LEMMA ContinuationMoves ==
  ASSUME Inv, NEW c \in Calls, Continuation(c)
  PROVE  DoneMove /\ \A d \in Calls : LocalMove(d)
<1>. USE DEF Inv, TypeOK, Types
<1>1. CASE Granted(c)
  <2>1. /\ pc[c] = "granted" /\ pc' = [pc EXCEPT ![c] = "idle"] /\ err' = [err EXCEPT ![c] = "none"]
        /\ UNCHANGED <<current, expired, result>> /\ phase' = "idle"
    BY <1>1 DEF Granted, Continue, Settle
  <2>. QED
    BY <2>1, OneMoves DEF LocalMove, DoneMove, Requests, Told, Following
<1>2. CASE Picked(c)
  <2>1. /\ pc[c] = "picked" /\ pc' = [pc EXCEPT ![c] = "import"] /\ UNCHANGED err
        /\ UNCHANGED <<current, expired, result>> /\ phase' = "importing"
    BY <1>2 DEF Picked, Continue, Goto
  <2>. QED
    BY <2>1, OneMoves DEF LocalMove, DoneMove, Requests, Told, Following
<1>3. CASE Complete(c)
  <2>1. /\ pc[c] = "complete" /\ pc' = [pc EXCEPT ![c] = "idle"] /\ err' = [err EXCEPT ![c] = "none"]
        /\ UNCHANGED <<current, expired>> /\ result' = c
    BY <1>3 DEF Complete, Continue, Settle
  <2>. QED
    BY <2>1, OneMoves DEF LocalMove, DoneMove, Requests, Told, Following
<1>4. CASE Catch(c)
  <2>1. /\ pc[c] = "throw" /\ pc' = [pc EXCEPT ![c] = "idle"] /\ err' = [err EXCEPT ![c] = "none"]
        /\ UNCHANGED <<current, result>>
        /\ \/ UNCHANGED <<phase, expired>>
           \/ current = c /\ phase' = "error" /\ expired' = (err[c] = "expired")
    BY <1>4 DEF Catch, Continue, Fail, Settle, handleError
  <2>2. phase = "done" /\ pc[result] = "idle" => pc'[result] = "idle"
    BY <2>1 DEF Apart, Calls
  <2>. QED
    BY <2>1, <2>2, OneMoves DEF LocalMove, DoneMove, Requests, Told, Following
<1>. QED
  BY <1>1, <1>2, <1>3, <1>4 DEF Continuation

LEMMA TimerMoves ==
  ASSUME Inv, NEW c \in Calls, Timer(c)
  PROVE  DoneMove /\ \A d \in Calls : LocalMove(d)
<1>. USE DEF Inv, TypeOK, Types
<1>1. UNCHANGED <<current, phase, expired, result>>
  BY DEF Timer, DelayEnds, OAuthTick, OAuthTimeout, flow
<1>2. \/ pc[c] \in Delays /\ pc' = [pc EXCEPT ![c] = AfterDelay(pc[c])] /\ UNCHANGED err
      \/ /\ pc[c] \in Delays \cup {"oauth"} /\ pc' = [pc EXCEPT ![c] = "throw"]
         /\ \E e \in {"error", "cancelled"} : err' = [err EXCEPT ![c] = e]
  BY DEF Timer, DelayEnds, OAuthTick, OAuthTimeout, Task, Throw, Goto
<1>3. LocalMove(c)
  BY <1>1, <1>2 DEF LocalMove, Delays, AfterDelay, Requests, Told, Following
<1>4. DoneMove
  BY <1>1, <1>2 DEF DoneMove, Apart, Calls, Delays
<1>. QED
  BY <1>1, <1>2, <1>3, <1>4, OneMoves

LEMMA LocalMoves ==
  ASSUME Inv, Local
  PROVE  DoneMove /\ \A c \in Calls : LocalMove(c)
<1>1. ASSUME NEW n \in Windows, UserCloses(n)
      PROVE  DoneMove /\ \A c \in Calls : LocalMove(c)
  BY <1>1 DEF UserCloses, DoneMove, LocalMove
<1>. QED
  BY <1>1, HostMoves, ContinuationMoves, TimerMoves DEF Local

\* c, whose fetch is answered, goes where the answer takes it.
AnsweredMove(c) ==
  /\ pc[c] \in Requests
  /\ \A d \in Calls : d # c => pc'[d] = pc[d] /\ err'[d] = err[d]
  /\ UNCHANGED <<current, result>>
  /\ expired' => expired
  /\ phase' = "done" => phase = "done"
  /\ err'[c] = "expired" => reply[c] = "expired"
  /\ pc'[c] \in Told => pc[c] \in Told \/ reply[c] = "ok"
  /\ pc'[c] \in Following => pc[c] = "pollJob" \/ (pc[c] = "import" /\ reply[c] = "ok")
  /\ pc'[c] = "complete" => reply[c] = "complete"
  /\ pc'[c] \in Following \ {"complete"} /\ pc[c] = "pollJob" =>
       reply[c] \in {"running", "failed", "missing"}

LEMMA FetchedMoves ==
  ASSUME Inv, NEW c \in Calls, NEW l, NEW a, NEW m, NEW p, p = phase \/ p \in Busy,
         Fetched(c, l, a, TRUE, m, p) \/ Fetched(c, l, a, FALSE, m, p)
  PROVE  /\ pc[c] = l
         /\ \A d \in Calls : d # c => pc'[d] = pc[d] /\ err'[d] = err[d]
         /\ UNCHANGED <<current, result>>
         /\ expired' => expired
         /\ phase' = "done" => phase = "done"
         /\ err'[c] # "expired"
         /\ pc'[c] = "idle" \/ (a = "ok" /\ pc'[c] = m)
<1>. USE DEF Inv, TypeOK, Types
<1>1. pc[c] = l /\ UNCHANGED <<current, result>>
  BY DEF Fetched, Task
<1>2. ASSUME NEW e \in {"error", "cancelled"}, Fail(c, e)
      PROVE  /\ pc' = [pc EXCEPT ![c] = "idle"] /\ err' = [err EXCEPT ![c] = "none"]
             /\ UNCHANGED <<phase, expired>> \/ (phase' = "error" /\ ~expired')
  BY <1>2 DEF Fail, Settle, handleError
<1>3. CASE Fail(c, "error") \/ Fail(c, "cancelled")
  BY <1>1, <1>2, <1>3
<1>4. CASE a = "ok" /\ Goto(c, m) /\ phase' = p /\ UNCHANGED expired
  <2>1. pc' = [pc EXCEPT ![c] = m] /\ UNCHANGED err
    BY <1>4 DEF Goto
  <2>2. pc[c] # "throw"
    BY <1>1, <1>3 DEF Fetched, Task, Quiet, Ready
  <2>. QED
    BY <1>1, <1>4, <2>1, <2>2, PointsByPhase
<1>. QED
  BY <1>3, <1>4 DEF Fetched

LEMMA PolledMoves ==
  ASSUME Inv, NEW c \in Calls, NEW a,
         \/ pollSession(c, a) /\ pc[c] = "pollSession"
         \/ pollJob(c, a) /\ pc[c] = "pollJob"
  PROVE  /\ \A d \in Calls : d # c => pc'[d] = pc[d] /\ err'[d] = err[d]
         /\ UNCHANGED flow
         /\ err'[c] = "expired" => a = "expired"
         /\ pc[c] = "pollSession" => pc'[c] \in {"throw", "retrySession", "waitSession", "picked"}
         /\ pc[c] = "pollJob" => pc'[c] \in {"throw", "retryJob", "waitJob", "complete"}
         /\ pc'[c] = "complete" => a = "complete"
         /\ pc'[c] \in {"retryJob", "waitJob"} => a \in {"failed", "running"}
<1>. USE DEF Inv, TypeOK, Types
<1>1. UNCHANGED flow
  BY DEF pollSession, pollJob, JobAnswered, PollFails, Bail, PollAnswered, PollThrows
<1>2. pc[c] # "throw" /\ err[c] = "none"
  OBVIOUS
<1>3. \/ /\ pc' = [pc EXCEPT ![c] = "throw"]
         /\ \E e \in {"error", "cancelled"} : err' = [err EXCEPT ![c] = e]
      \/ /\ a = "expired" /\ pc' = [pc EXCEPT ![c] = "throw"] /\ err' = [err EXCEPT ![c] = "expired"]
      \/ /\ UNCHANGED err
         /\ \/ pc[c] = "pollSession" /\ \E l \in {"retrySession", "waitSession", "picked"} : pc' = [pc EXCEPT ![c] = l]
            \/ a = "failed" /\ pc' = [pc EXCEPT ![c] = "retryJob"] /\ pc[c] = "pollJob"
            \/ a = "running" /\ pc' = [pc EXCEPT ![c] = "waitJob"] /\ pc[c] = "pollJob"
            \/ a = "complete" /\ pc' = [pc EXCEPT ![c] = "complete"] /\ pc[c] = "pollJob"
  <2>1. CASE pollSession(c, a) /\ pc[c] = "pollSession"
    BY <2>1 DEF pollSession, PollFails, Bail, PollAnswered, PollThrows, Throw
  <2>2. CASE pollJob(c, a) /\ pc[c] = "pollJob"
    BY <2>2 DEF pollJob, JobAnswered, PollFails, Bail, PollAnswered, PollThrows, Throw
  <2>. QED
    BY <2>1, <2>2
<1>. QED
  BY <1>1, <1>2, <1>3

LEMMA DeliverMoves ==
  ASSUME Inv, NEW c \in Calls, Deliver(c)
  PROVE  AnsweredMove(c)
<1>. DEFINE a == IF reply[c] = "missing" THEN "failed" ELSE reply[c]
<1>1. Resumes(c, a)
  BY DEF Deliver
<1>2. "picking" \in Busy
  BY PointsByPhase
<1>. HIDE DEF a
<1>3. CASE SessionAnswer(c, a)
  <2>1. Fetched(c, "session", a, TRUE, "pollSession", "picking")
    BY <1>3 DEF SessionAnswer
  <2>2. /\ pc[c] = "session" /\ err'[c] # "expired"
        /\ \A d \in Calls : d # c => pc'[d] = pc[d] /\ err'[d] = err[d]
        /\ UNCHANGED <<current, result>>
        /\ expired' => expired
        /\ phase' = "done" => phase = "done"
        /\ pc'[c] = "idle" \/ (a = "ok" /\ pc'[c] = "pollSession")
    BY <1>2, <2>1, FetchedMoves
  <2>. QED
    BY <2>2 DEF a, AnsweredMove, Told, Following, Requests
<1>4. CASE ImportAnswer(c, a)
  <2>1. Fetched(c, "import", a, FALSE, "pollJob", phase)
    BY <1>4 DEF ImportAnswer
  <2>2. /\ pc[c] = "import" /\ err'[c] # "expired"
        /\ \A d \in Calls : d # c => pc'[d] = pc[d] /\ err'[d] = err[d]
        /\ UNCHANGED <<current, result>>
        /\ expired' => expired
        /\ phase' = "done" => phase = "done"
        /\ pc'[c] = "idle" \/ (a = "ok" /\ pc'[c] = "pollJob")
    BY <2>1, FetchedMoves
  <2>. QED
    BY <2>2 DEF a, AnsweredMove, Told, Following, Requests
<1>5. CASE pollSession(c, a)
  <2>1. pc[c] = "pollSession"
    BY <1>5 DEF pollSession, PollFails, Bail, PollAnswered, PollThrows, Task
  <2>. QED
    BY <1>5, <2>1, PolledMoves DEF a, AnsweredMove, Told, Following, Requests, flow
<1>6. CASE pollJob(c, a)
  <2>1. pc[c] = "pollJob"
    BY <1>6 DEF pollJob, JobAnswered, PollFails, Bail, PollAnswered, PollThrows, Task
  <2>. QED
    BY <1>6, <2>1, PolledMoves DEF a, AnsweredMove, Told, Following, Requests, flow
<1>. QED
  BY <1>1, <1>3, <1>4, <1>5, <1>6 DEF Resumes

-------------------------------------------------------------------------------
(* The inductive invariant of the system, part by part.                    *)

\* A reply is one to the fetch under way; a call was told the session it asks
\* about, which is its own.
Wiring ==
  /\ reply = [c \in Calls |-> reply[c]]
  /\ \A c \in Calls :
       /\ reply[c] \in Replies(pc[c]) \cup {NoReply}
       /\ pc[c] \in Told \/ reply[c] = "ok" => asks[c] \in Sessions
       /\ asks[c] # NoSession => google[asks[c]] # "unused"
       /\ \A d \in Calls : asks[c] # NoSession /\ asks[d] = asks[c] => d = c

\* Where the worker is in its job, and what the rows of the others count.
Walking ==
  /\ work = NoSession => stage = "list" /\ at = 0 /\ listed = 0
  /\ work # NoSession =>
       /\ at <= listed /\ listed <= Len(Picks[work])
       /\ stage # "cleanup" => job[work] = "running" /\ tally[work] = at
       /\ stage = "list" => at = 0
       /\ stage # "list" => /\ google[work] \in {"confirmed", "deleted"}
                            /\ listed = Len(Picks[work])
  /\ \A s \in Sessions : /\ job[s] \in {"absent", "pending"} => tally[s] = 0
                         /\ job[s] = "complete" => tally[s] = Len(Picks[s])

\* The photos of a job that has not begun, and of the worker's.
Sinking ==
  /\ \A s \in Sessions :
       /\ job[s] \in {"absent", "pending"} => sunk[s] = <<>>
       /\ \A n \in 1..Len(sunk[s]) : sunk[s][n].item \in 1..Len(Picks[s])
  /\ work # NoSession =>
       /\ stage = "list" => sunk[work] = <<>>
       /\ \A n \in 1..Len(sunk[work]) : sunk[work][n].item <= at

Imported(s) == job[s] \in {"complete", "gone"} /\ tally[s] = Len(Picks[s])

\* What a call that follows its job was told of it, and will be.
FollowedBy(c) ==
  /\ pc[c] \in Following => job[asks[c]] # "absent"
  /\ pc[c] = "import" /\ reply[c] = "ok" => job[asks[c]] \notin {"absent", "gone"}
  /\ reply[c] = "erasing" => job[asks[c]] \in Job!Finished /\ asks[c] \in answered
  /\ reply[c] = "complete" \/ pc[c] = "complete" => Imported(asks[c])
  /\ pc[c] \in Following \ {"complete"} /\ job[asks[c]] = "gone" =>
       asks[c] \in lost \/ reply[c] \in {"complete", "aborted"}
  /\ reply[c] = "missing" => asks[c] \in lost

Followed == \A c \in Calls : FollowedBy(c)

DoneShown ==
  phase = "done" =>
    /\ pc[result] = "idle"
    /\ asks[result] \in Sessions /\ Imported(asks[result])

SystemInv ==
  /\ Inv /\ Shapes
  /\ Wiring /\ Walking /\ Sinking /\ WholeAndBounded /\ Followed /\ DoneShown

-------------------------------------------------------------------------------
(* The initial states.                                                     *)

LEMMA SystemInitInv == SystemInit => SystemInv
<1>. SUFFICES ASSUME SystemInit PROVE SystemInv
  OBVIOUS
<1>. USE DEF SystemInit, Job!LifecycleInit
<1>1. Inv
  BY InitInv
<1>2. Shapes
  <2>1. NoBody \in Bodies \cup {NoBody}
    OBVIOUS
  <2>. QED
    BY <2>1 DEF Shapes, Job!Phases, Stages
<1>3. \A c \in Calls : pc[c] = "idle" /\ reply[c] = NoReply /\ err[c] = "none"
  BY DEF Init
<1>4. Wiring
  BY <1>3, EndAssumption DEF Wiring, Told, Following
<1>5. Walking /\ Sinking
  BY EndAssumption DEF Walking, Sinking
<1>6. WholeAndBounded
  BY CapAssumption DEF WholeAndBounded, Whole, NoBody
<1>7. Followed /\ DoneShown
  BY <1>3, EndAssumption DEF Followed, FollowedBy, DoneShown, Following, Init
<1>. QED
  BY <1>1, <1>2, <1>4, <1>5, <1>6, <1>7 DEF SystemInv

-------------------------------------------------------------------------------
(* The worker: it touches its own job and session, and nobody else touches *)
(* a job that runs.                                                        *)

LEMMA WorkingJob ==
  ASSUME SystemInv, work # NoSession
  PROVE  /\ work \in Sessions /\ at \in Nat /\ listed \in Nat
         /\ Picks[work] \in Seq(Item) /\ Len(Picks[work]) \in Nat
BY EndAssumption DEF SystemInv, Shapes

\* A photo that arrives is whole and within both caps.
LEMMA ArrivedWhole ==
  ASSUME NEW i \in Item, Downloads(i)
  PROVE  /\ Arrived(i) = i.bytes /\ Arrived(i) \in Nat /\ Arrived(i) <= DownloadCap
         /\ MaxDecodedBytes > 0 => 4 * i.pixels <= MaxDecodedBytes
<1>1. i.bytes \in Nat
  BY DEF Item
<1>2. OneMore(DownloadCap) = DownloadCap + 1 /\ DownloadCap \in Nat /\ DownloadCap > 0
  BY CapAssumption DEF OneMore
<1>3. Arrived(i) \in {i.bytes, DownloadCap + 1} /\ (Arrived(i) = i.bytes \/ Arrived(i) > DownloadCap)
  BY <1>1, <1>2 DEF Arrived, ReadUpTo
<1>. QED
  BY <1>1, <1>2, <1>3 DEF Downloads

\* A body that decodes is within its limits.
LEMMA DecodedBounded ==
  ASSUME NEW b \in Bodies, Decodes(b)
  PROVE  b.bytes <= MaxMetadataBytes /\ b.keys <= MaxMetadataKeys
<1>1. b.bytes \in Nat /\ (b.bytes = 0 => b.keys = 0)
  BY EndAssumption DEF Body
<1>2. OneMore(MaxMetadataBytes) = MaxMetadataBytes + 1 /\ MaxMetadataBytes \in Nat /\ MaxMetadataBytes > 0
  BY CapAssumption DEF OneMore
<1>. QED
  BY <1>1, <1>2, CapAssumption DEF Decodes, ReadUpTo

\* What every step of the service and of Google leaves true of a session.
Onward ==
  \A s \in Sessions :
    /\ google[s] # "unused" => google'[s] # "unused"
    /\ job[s] # "absent" => job'[s] # "absent"
    /\ Imported(s) => Imported(s)'

\* The row of s is not taken away.
RowStays(s) ==
  /\ job[s] \in Job!Finished => job'[s] = job[s]
  /\ s \in answered => s \in answered'
  /\ job'[s] = "gone" => job[s] = "gone"

ServiceInv == Shapes /\ Walking /\ Sinking /\ WholeAndBounded

LEMMA ClaimKeeps ==
  ASSUME SystemInv, NEW s \in Sessions, Claim(s)
  PROVE  ServiceInv' /\ Onward /\ \A r \in Sessions : RowStays(r)
<1>. USE DEF SystemInv
<1>1. /\ work = NoSession /\ work' = s /\ job[s] = "pending"
      /\ job' = [job EXCEPT ![s] = "running"]
      /\ UNCHANGED <<asks, lost, tally, answered, body, stage, at, listed, sunk, google, lapsed>>
  BY DEF Claim, Job!Claim, Job!Move, wire, session
<1>2. Shapes'
  BY <1>1 DEF Shapes, Job!Phases
<1>3. stage = "list" /\ at = 0 /\ listed = 0 /\ tally[s] = 0 /\ sunk[s] = <<>>
  BY <1>1 DEF Walking, Sinking
<1>4. Walking'
  <2>1. Len(Picks[s]) >= 0
    BY EndAssumption
  <2>. QED
    BY <1>1, <1>3, <2>1 DEF Walking, Shapes
<1>5. Sinking' /\ WholeAndBounded'
  <2>1. WholeAndBounded'
    BY <1>1 DEF WholeAndBounded, Whole
  <2>2. 1..Len(sunk[s]) = {}
    BY <1>3
  <2>. QED
    BY <1>1, <1>3, <2>1, <2>2 DEF Sinking, Shapes
<1>6. Onward /\ \A r \in Sessions : RowStays(r)
  BY <1>1 DEF Onward, RowStays, Imported, Shapes, Job!Finished
<1>. QED
  BY <1>2, <1>4, <1>5, <1>6 DEF ServiceInv

LEMMA ListPageKeeps ==
  ASSUME SystemInv, ListPage
  PROVE  ServiceInv' /\ Onward /\ \A r \in Sessions : RowStays(r)
<1>. USE DEF SystemInv
<1>. DEFINE all  == Len(Picks[work])
            next == listed + PageSize
<1>1. /\ work # NoSession /\ stage = "list" /\ google[work] = "confirmed"
      /\ listed' = IF next < all THEN next ELSE all
      /\ stage'  = IF next < all THEN "list" ELSE "items"
      /\ UNCHANGED <<asks, lost, job, tally, answered, body, work, at, sunk, google, lapsed>>
  BY DEF ListPage, At, wire, table, session
<1>2. work \in Sessions /\ at \in Nat /\ listed \in Nat /\ all \in Nat /\ next \in Nat
  BY <1>1, WorkingJob, EndAssumption
<1>3. Shapes'
  BY <1>1, <1>2 DEF Shapes, Stages
<1>4. at = 0 /\ job[work] = "running" /\ tally[work] = at
  BY <1>1 DEF Walking
<1>5. Walking'
  <2>1. listed' \in Nat /\ listed' <= all /\ (stage' # "list" => listed' = all /\ stage' = "items")
    BY <1>1, <1>2
  <2>. QED
    BY <1>1, <1>2, <1>4, <2>1 DEF Walking
<1>6. Sinking' /\ WholeAndBounded'
  BY <1>1 DEF Sinking, WholeAndBounded, Whole
<1>7. Onward /\ \A r \in Sessions : RowStays(r)
  BY <1>1 DEF Onward, RowStays, Imported
<1>. QED
  BY <1>3, <1>5, <1>6, <1>7 DEF ServiceInv

\* The worker lets go of its job; its row and its photos are in order.
LEMMA DropKeeps ==
  ASSUME SystemInv, Drop
  PROVE  /\ work' \in Sessions \cup {NoSession} /\ stage' \in Stages /\ at' \in Nat /\ listed' \in Nat
         /\ work' = NoSession /\ stage' = "list" /\ at' = 0 /\ listed' = 0
BY DEF Drop, Stages

LEMMA ListFailsKeeps ==
  ASSUME SystemInv, ListFails
  PROVE  ServiceInv' /\ Onward /\ \A r \in Sessions : RowStays(r)
<1>. USE DEF SystemInv
<1>1. /\ work # NoSession /\ Drop /\ job[work] = "running"
      /\ job' = [job EXCEPT ![work] = "failed"]
      /\ UNCHANGED <<asks, lost, tally, answered, body, sunk, google, lapsed>>
  BY DEF ListFails, At, wire, session, Job!Fail, Job!Move
<1>2. Shapes'
  BY <1>1, DropKeeps DEF Shapes, Job!Phases, Job!Finished
<1>3. Walking' /\ Sinking'
  BY <1>1, DropKeeps DEF Walking, Sinking, Shapes
<1>4. WholeAndBounded'
  BY <1>1 DEF WholeAndBounded, Whole
<1>5. Onward /\ \A r \in Sessions : RowStays(r)
  BY <1>1 DEF Onward, RowStays, Imported, Shapes, Job!Finished
<1>. QED
  BY <1>2, <1>3, <1>4, <1>5 DEF ServiceInv

LEMMA ImportItemKeeps ==
  ASSUME SystemInv, ImportItem
  PROVE  ServiceInv' /\ Onward /\ \A r \in Sessions : RowStays(r)
<1>. USE DEF SystemInv
<1>. DEFINE i == Picks[work][at + 1]
            p == [item |-> at + 1, size |-> Arrived(i)]
<1>1. /\ work # NoSession /\ stage = "items" /\ at < listed /\ at' = at + 1
      /\ job[work] = "running" /\ tally' = [tally EXCEPT ![work] = @ + 1]
      /\ UNCHANGED <<asks, lost, job, answered, body, work, stage, listed, google, lapsed>>
  BY DEF ImportItem, At, wire, session, Job!CountItem
<1>2. UNCHANGED sunk \/ (Downloads(i) /\ sunk' = [sunk EXCEPT ![work] = Append(@, p)])
  BY DEF ImportItem
<1>3. /\ work \in Sessions /\ at \in Nat /\ listed \in Nat
      /\ Len(Picks[work]) \in Nat /\ at + 1 \in 1..Len(Picks[work]) /\ i \in Item
      /\ tally[work] = at /\ listed = Len(Picks[work]) /\ google[work] \in {"confirmed", "deleted"}
  BY <1>1, WorkingJob DEF Walking
<1>4. Walking'
  BY <1>1, <1>3 DEF Walking, Shapes
<1>5. ASSUME UNCHANGED sunk
      PROVE  Shapes' /\ Sinking' /\ WholeAndBounded'
  <2>1. Shapes'
    BY <1>1, <1>3, <1>5 DEF Shapes
  <2>2. WholeAndBounded'
    BY <1>1, <1>5 DEF WholeAndBounded, Whole
  <2>3. \A n \in 1..Len(sunk[work]) : sunk[work][n].item \in Nat /\ sunk[work][n].item <= at + 1
    BY <1>1, <1>3 DEF Sinking
  <2>4. Sinking'
    BY <1>1, <1>5, <2>3 DEF Sinking
  <2>. QED
    BY <2>1, <2>2, <2>4
<1>6. ASSUME Downloads(i), sunk' = [sunk EXCEPT ![work] = Append(@, p)]
      PROVE  Shapes' /\ Sinking' /\ WholeAndBounded'
  <2>1. /\ Arrived(i) = i.bytes /\ Arrived(i) \in Nat /\ Arrived(i) <= DownloadCap
        /\ MaxDecodedBytes > 0 => 4 * i.pixels <= MaxDecodedBytes
    BY <1>3, <1>6, ArrivedWhole
  <2>2. p \in Photo /\ p.item = at + 1 /\ p.size = Arrived(i)
    BY <1>3, <2>1 DEF Photo
  <2>. HIDE DEF p
  <2>. DEFINE q == sunk[work]
  <2>3. q \in Seq(Photo) /\ Len(q) \in Nat
    BY <1>3 DEF Shapes
  <2>. HIDE DEF q
  <2>4. /\ Append(q, p) \in Seq(Photo) /\ Len(Append(q, p)) = Len(q) + 1
        /\ \A n \in 1..Len(q) : Append(q, p)[n] = q[n]
        /\ Append(q, p)[Len(q) + 1] = p
    BY <2>2, <2>3
  <2>5. sunk \in [Sessions -> Seq(Photo)] /\ sunk' = [sunk EXCEPT ![work] = Append(q, p)]
    BY <1>6 DEF Shapes, q
  <2>6. Shapes'
    BY <1>1, <1>3, <2>4, <2>5 DEF Shapes
  <2>7. sunk'[work] = Append(q, p) /\ \A s \in Sessions : s # work => sunk'[s] = sunk[s]
    BY <1>3, <2>5
  <2>8. \A n \in 1..Len(q) : q[n].item \in 1..Len(Picks[work]) /\ q[n].item <= at
    BY <1>1, <1>3 DEF Sinking, q
  <2>9. Sinking'
    <3>1. \A n \in 1..Len(sunk'[work]) : sunk'[work][n].item \in 1..Len(Picks[work]) /\ sunk'[work][n].item <= at + 1
      BY <1>3, <2>2, <2>3, <2>4, <2>7, <2>8
    <3>. QED
      BY <1>1, <1>3, <2>7, <3>1 DEF Sinking
  <2>10. WholeAndBounded'
    <3>1. ASSUME NEW n \in 1..Len(q)
          PROVE  /\ n > 1 => q[n - 1].item < q[n].item
                 /\ q[n].size = Picks[work][q[n].item].bytes
                 /\ q[n].size <= DownloadCap
                 /\ MaxDecodedBytes > 0 => 4 * Picks[work][q[n].item].pixels <= MaxDecodedBytes
      BY <1>3 DEF WholeAndBounded, Whole, q
    <3>2. ASSUME NEW n \in 1..Len(Append(q, p)),
                 LET r == Append(q, p)[n] IN
                 ~ /\ n > 1 => Append(q, p)[n - 1].item < r.item
                   /\ r.size = Picks[work][r.item].bytes
                   /\ r.size <= DownloadCap
                   /\ MaxDecodedBytes > 0 => 4 * Picks[work][r.item].pixels <= MaxDecodedBytes
          PROVE  FALSE
      <4>1. CASE n \in 1..Len(q)
        <5>1. Append(q, p)[n] = q[n] /\ (n > 1 => Append(q, p)[n - 1] = q[n - 1])
          BY <2>3, <2>4, <4>1
        <5>. QED
          BY <3>1, <3>2, <4>1, <5>1
      <4>2. CASE n = Len(q) + 1
        <5>1. Append(q, p)[n] = p /\ (n > 1 => Append(q, p)[n - 1] = q[n - 1] /\ q[n - 1].item <= at
                                                 /\ q[n - 1].item \in Nat)
          BY <1>3, <2>3, <2>4, <2>8, <4>2
        <5>2. n > 1 => Append(q, p)[n - 1].item < p.item
          BY <1>3, <2>2, <5>1
        <5>. QED
          BY <2>1, <2>2, <3>2, <5>1, <5>2
      <4>. QED
        BY <2>3, <2>4, <3>2, <4>1, <4>2
    <3>3. google[work] \in {"confirmed", "deleted"}
      BY <1>3
    <3>4. Whole(work)'
      BY <1>1, <2>7, <3>2 DEF Whole
    <3>5. ASSUME NEW s \in Sessions, s # work PROVE Whole(s)'
      BY <2>7, <3>5 DEF WholeAndBounded, Whole
    <3>. QED
      BY <1>1, <1>3, <2>7, <3>3, <3>4, <3>5 DEF WholeAndBounded
  <2>. QED
    BY <2>6, <2>9, <2>10
<1>7. Onward /\ \A r \in Sessions : RowStays(r)
  BY <1>1 DEF Onward, RowStays, Imported, Shapes
<1>. QED
  BY <1>2, <1>4, <1>5, <1>6, <1>7 DEF ServiceInv

LEMMA MarkCompleteKeeps ==
  ASSUME SystemInv, MarkComplete
  PROVE  ServiceInv' /\ Onward /\ \A r \in Sessions : RowStays(r)
<1>. USE DEF SystemInv
<1>1. /\ work # NoSession /\ stage = "items" /\ at = listed /\ stage' = "cleanup"
      /\ job[work] = "running" /\ job' = [job EXCEPT ![work] = "complete"]
      /\ UNCHANGED <<asks, lost, tally, answered, body, work, at, listed, sunk, google, lapsed>>
  BY DEF MarkComplete, At, wire, session, Job!Complete, Job!Move
<1>2. work \in Sessions /\ tally[work] = Len(Picks[work])
  BY <1>1, WorkingJob DEF Walking
<1>3. Shapes'
  BY <1>1 DEF Shapes, Job!Phases, Job!Finished, Stages
<1>4. Walking' /\ Sinking'
  BY <1>1, <1>2 DEF Walking, Sinking, Shapes
<1>5. WholeAndBounded'
  BY <1>1 DEF WholeAndBounded, Whole
<1>6. Onward /\ \A r \in Sessions : RowStays(r)
  BY <1>1 DEF Onward, RowStays, Imported, Shapes, Job!Finished
<1>. QED
  BY <1>3, <1>4, <1>5, <1>6 DEF ServiceInv

LEMMA DeleteSessionKeeps ==
  ASSUME SystemInv, DeleteSession
  PROVE  ServiceInv' /\ Onward /\ \A r \in Sessions : RowStays(r)
<1>. USE DEF SystemInv
<1>1. /\ work # NoSession /\ stage = "cleanup" /\ Drop
      /\ google' \in {google, [google EXCEPT ![work] = "deleted"]}
      /\ UNCHANGED <<asks, lost, job, tally, answered, body, sunk, lapsed>>
  BY DEF DeleteSession, At, wire, table
<1>2. work \in Sessions /\ google[work] \in {"confirmed", "deleted"}
  BY <1>1, WorkingJob DEF Walking
<1>3. \A s \in Sessions : google'[s] = google[s] \/ (s = work /\ google'[s] = "deleted")
  BY <1>1, <1>2 DEF Shapes
<1>4. Shapes'
  BY <1>1, <1>2, DropKeeps DEF Shapes
<1>5. Walking' /\ Sinking'
  BY <1>1, DropKeeps DEF Walking, Sinking
<1>6. WholeAndBounded'
  BY <1>1, <1>2, <1>3 DEF WholeAndBounded, Whole
<1>7. Onward /\ \A r \in Sessions : RowStays(r)
  BY <1>1, <1>2, <1>3 DEF Onward, RowStays, Imported
<1>. QED
  BY <1>4, <1>5, <1>6, <1>7 DEF ServiceInv

LEMMA AbandonKeeps ==
  ASSUME SystemInv, Abandon
  PROVE  ServiceInv' /\ Onward /\ \A r \in Sessions : RowStays(r)
<1>. USE DEF SystemInv
<1>1. Drop /\ UNCHANGED <<asks, lost, job, tally, answered, body, sunk, google, lapsed>>
  BY DEF Abandon, wire, table, session
<1>2. Shapes' /\ Walking' /\ Sinking' /\ WholeAndBounded'
  BY <1>1, DropKeeps DEF Shapes, Walking, Sinking, WholeAndBounded, Whole
<1>3. Onward /\ \A r \in Sessions : RowStays(r)
  BY <1>1 DEF Onward, RowStays, Imported
<1>. QED
  BY <1>2, <1>3 DEF ServiceInv

LEMMA GoogleKeeps ==
  ASSUME SystemInv, NEW s \in Sessions, Confirm(s) \/ Lapse(s)
  PROVE  ServiceInv' /\ Onward /\ \A r \in Sessions : RowStays(r)
<1>. USE DEF SystemInv
<1>1. /\ UNCHANGED <<asks, lost, job, tally, answered, body, work, stage, at, listed, sunk>>
      /\ \/ /\ google[s] = "open" /\ UNCHANGED lapsed
            /\ google' = [google EXCEPT ![s] = "confirmed"]
         \/ lapsed' = lapsed \cup {s} /\ UNCHANGED google
  BY DEF Confirm, Lapse, wire, table, worker
<1>2. Shapes'
  BY <1>1 DEF Shapes
<1>3. Walking' /\ Sinking'
  BY <1>1, WorkingJob DEF Walking, Sinking, Shapes
<1>4. WholeAndBounded'
  BY <1>1 DEF WholeAndBounded, Whole, Shapes
<1>5. Onward /\ \A r \in Sessions : RowStays(r)
  BY <1>1 DEF Onward, RowStays, Imported, Shapes
<1>. QED
  BY <1>2, <1>3, <1>4, <1>5 DEF ServiceInv

-------------------------------------------------------------------------------
(* What the calls know.                                                    *)

\* A call at these points, or with these replies, was told its session.
LEMMA ToldOf ==
  ASSUME SystemInv, NEW c \in Calls,
         pc[c] \in Told \/ (reply[c] # NoReply /\ pc[c] # "session") \/ reply[c] = "ok"
  PROVE  asks[c] \in Sessions
BY DEF SystemInv, Wiring, Replies, Told, Following

\* The fetch a reply is to.
LEMMA ReplyTo ==
  ASSUME SystemInv, NEW c \in Calls
  PROVE  /\ reply[c] = "ok" => pc[c] \in {"session", "import"}
         /\ reply[c] \in {"set", "unset", "pending", "ready", "expired"} => pc[c] = "pollSession"
         /\ reply[c] \in {"running", "complete", "aborted", "missing", "erasing"} => pc[c] = "pollJob"
         /\ reply[c] # NoReply => pc[c] \in Requests
BY EndAssumption DEF SystemInv, Wiring, Replies, Requests

\* What a call knows stays true when it does not move and its row stays.
LEMMA StillKnows ==
  ASSUME SystemInv, Onward, NEW c \in Calls,
         pc'[c] = pc[c], reply'[c] = reply[c], asks'[c] = asks[c], lost \subseteq lost',
         asks[c] \in Sessions => RowStays(asks[c])
  PROVE  FollowedBy(c)'
<1>. USE DEF SystemInv
<1>2. CASE asks[c] \in Sessions
  <2>1. /\ job[asks[c]] # "absent" => job'[asks[c]] # "absent"
        /\ Imported(asks[c]) => Imported(asks[c])'
        /\ RowStays(asks[c])
    BY <1>2 DEF Onward, Imported
  <2>2. FollowedBy(c)
    BY DEF Followed
  <2>3. asks'[c] = asks[c] /\ (job'[asks[c]] = "gone" => job[asks[c]] = "gone")
        /\ (job[asks[c]] \in Job!Finished => job'[asks[c]] = job[asks[c]])
        /\ (asks[c] \in answered => asks[c] \in answered')
        /\ (asks[c] \in lost => asks[c] \in lost')
    BY <2>1 DEF RowStays
  <2>4. Imported(asks[c]) => job'[asks'[c]] \in {"complete", "gone"} /\ tally'[asks'[c]] = Len(Picks[asks'[c]])
    BY <2>1, <2>3 DEF Imported
  <2>. HIDE DEF SystemInv
  <2>. QED
    BY <2>1, <2>2, <2>3, <2>4 DEF FollowedBy, Imported
<1>3. CASE asks[c] \notin Sessions
  <2>1. pc[c] \notin Told /\ (reply[c] = NoReply \/ pc[c] = "session") /\ reply[c] # "ok"
    BY <1>3, ToldOf
  <2>2. /\ pc[c] \notin Following /\ pc[c] # "import"
        /\ reply[c] \notin {"erasing", "complete", "missing"}
    BY <2>1, ReplyTo, EndAssumption DEF Told, Following
  <2>. HIDE DEF SystemInv
  <2>. QED
    BY <2>1, <2>2 DEF FollowedBy, Following
<1>. QED
  BY <1>2, <1>3

LEMMA DoneStays ==
  ASSUME SystemInv, Onward, UNCHANGED <<phase, result>>, asks'[result] = asks[result],
         pc'[result] = pc[result]
  PROVE  DoneShown'
BY DEF SystemInv, DoneShown, Onward, Imported

\* Google and the worker change neither the browser nor what is between it and
\* the service; what a call was told stays true.
LEMMA OutsideKeeps ==
  ASSUME SystemInv,
         (\E s \in Sessions : Confirm(s) \/ Lapse(s)) \/ Works \/ Abandon
  PROVE  SystemInv'
<1>1. ServiceInv' /\ Onward /\ \A r \in Sessions : RowStays(r)
  BY GoogleKeeps, ClaimKeeps, ListPageKeeps, ListFailsKeeps, ImportItemKeeps,
     MarkCompleteKeeps, DeleteSessionKeeps, AbandonKeeps DEF Works
<1>2. UNCHANGED <<vars, wire>>
  BY OutsideLeavesFlow
<1>. USE DEF SystemInv
<1>3. Inv'
  BY <1>2, NextKeepsInv
<1>4. UNCHANGED <<current, phase, expired, result, pc, err, asks, reply, lost>>
  BY <1>2 DEF vars, flow, calls, wire
<1>5. Wiring'
  BY <1>1, <1>4 DEF Wiring, Onward, Shapes
<1>6. Followed'
  BY <1>1, <1>4, StillKnows DEF Followed
<1>8. DoneShown'
  BY <1>1, <1>4, DoneStays
<1>. QED
  BY <1>1, <1>3, <1>5, <1>6, <1>8 DEF ServiceInv

-------------------------------------------------------------------------------
(* The handlers: each touches the row of its call's session, no other.     *)

\* What the service keeps when c is served.
Kept(c) ==
  /\ ServiceInv' /\ Onward
  /\ \A s \in Sessions : s # asks[c] => RowStays(s)

\* What c knows of its session after an answer.
LEMMA AnswerKnows ==
  ASSUME SystemInv, Onward, NEW c \in Calls, UNCHANGED vars, pc[c] \in Requests,
         asks'[c] = asks[c], lost \subseteq lost',
         pc[c] # "session" =>
           /\ reply'[c] = "ok" => job'[asks[c]] \notin {"absent", "gone"}
           /\ reply'[c] = "erasing" => job'[asks[c]] \in Job!Finished /\ asks[c] \in answered'
           /\ reply'[c] = "complete" => job'[asks[c]] \in {"complete", "gone"} /\ tally'[asks[c]] = Len(Picks[asks[c]])
           /\ pc[c] = "pollJob" => job'[asks[c]] # "absent"
           /\ pc[c] = "pollJob" /\ job'[asks[c]] = "gone" => asks[c] \in lost' \/ reply'[c] \in {"complete", "aborted"}
           /\ reply'[c] = "missing" => asks[c] \in lost',
         reply'[c] \in Replies(pc[c])
  PROVE  FollowedBy(c)'
<1>1. pc' = pc /\ err' = err /\ expired' = expired /\ current' = current
  BY DEF vars, flow, calls
<1>2. pc[c] = "session" => reply'[c] \in {"ok", "failed"}
  BY DEF Replies
<1>. QED
  BY <1>1, <1>2 DEF FollowedBy, Imported, Following, Requests

\* A handler that changes nothing of the service.
LEMMA IdleKept ==
  ASSUME SystemInv, NEW c \in Calls, UNCHANGED service, UNCHANGED asks,
         lost' \in SUBSET Sessions
  PROVE  Kept(c)
<1>. USE DEF SystemInv
<1>1. UNCHANGED <<google, lapsed, job, tally, answered, body, work, stage, at, listed, sunk>>
  BY DEF service, table, worker, session
<1>2. Shapes'
  BY <1>1 DEF Shapes
<1>3. Walking' /\ Sinking'
  BY <1>1 DEF Walking, Sinking
<1>4. WholeAndBounded'
  BY <1>1 DEF WholeAndBounded, Whole
<1>5. Onward /\ \A s \in Sessions : RowStays(s)
  BY <1>1 DEF Onward, RowStays, Imported
<1>. QED
  BY <1>2, <1>3, <1>4, <1>5 DEF Kept, ServiceInv

\* What serving c does: all that SystemInv says of the service, of what c knows,
\* and of who asks what.
Served(c) ==
  /\ Kept(c)
  /\ UNCHANGED vars
  /\ lost \subseteq lost'
  /\ reply' = [reply EXCEPT ![c] = reply'[c]]
  /\ reply'[c] \in Replies(pc[c])
  /\ pc[c] \in Requests
  /\ \/ UNCHANGED asks /\ (reply'[c] = "ok" => asks[c] \in Sessions)
     \/ /\ pc[c] = "session"
        /\ \E s \in Sessions : /\ google[s] = "unused" /\ google'[s] # "unused"
                               /\ asks' = [asks EXCEPT ![c] = s]
  /\ FollowedBy(c)'

LEMMA ServedKeeps ==
  ASSUME SystemInv, NEW c \in Calls, Served(c)
  PROVE  SystemInv'
<1>. USE DEF SystemInv
<1>1. UNCHANGED <<current, phase, expired, result, pc, err>> /\ lost \subseteq lost'
  BY DEF Served, vars, flow, calls
<1>2. Inv'
  BY NextKeepsInv DEF Served
<1>3. Shapes' /\ Walking' /\ Sinking' /\ WholeAndBounded' /\ Onward
  BY DEF Served, Kept, ServiceInv
<1>4. ASSUME NEW d \in Calls, d # c
      PROVE  reply'[d] = reply[d] /\ asks'[d] = asks[d]
  BY <1>4 DEF Served, Shapes, Wiring
<1>5. reply'[c] \in Replies(pc[c]) /\ pc[c] \in Requests /\ reply' = [d \in Calls |-> reply'[d]]
  BY DEF Served, Wiring
<1>6. \/ asks' = asks /\ (reply'[c] = "ok" => asks[c] \in Sessions)
      \/ /\ pc[c] = "session" /\ asks'[c] \in Sessions /\ google[asks'[c]] = "unused"
         /\ google'[asks'[c]] # "unused"
  BY DEF Served, Shapes
<1>7. Wiring'
  <2>1. ASSUME NEW d \in Calls
        PROVE  /\ reply'[d] \in Replies(pc'[d]) \cup {NoReply}
               /\ pc'[d] \in Told \/ reply'[d] = "ok" => asks'[d] \in Sessions
               /\ asks'[d] # NoSession => google'[asks'[d]] # "unused"
    <3>1. CASE d = c
      BY <1>1, <1>3, <1>5, <1>6, <3>1 DEF Wiring, Onward, Shapes
    <3>2. CASE d # c
      BY <1>1, <1>3, <1>4, <3>2 DEF Wiring, Onward, Shapes
    <3>. QED
      BY <3>1, <3>2
  <2>2. ASSUME NEW d \in Calls, NEW e \in Calls, asks'[d] # NoSession, asks'[e] = asks'[d], e # d
        PROVE  FALSE
    <3>1. ~(asks' = asks)
      BY <2>2 DEF Wiring
    <3>2. \A f \in Calls : f # c => asks'[f] # asks'[c]
      BY <1>4, <1>6, <3>1, EndAssumption DEF Wiring
    <3>. QED
      BY <1>4, <2>2, <3>2 DEF Wiring
  <2>. QED
    BY <1>5, <2>1, <2>2 DEF Wiring
<1>8. Followed'
  <2>1. ASSUME NEW d \in Calls, d # c PROVE FollowedBy(d)'
    <3>1. asks[d] \in Sessions => RowStays(asks[d])
      <4>1. CASE asks[d] # asks[c]
        BY <4>1 DEF Served, Kept
      <4>2. CASE asks[d] = asks[c]
        BY <2>1, <4>2, EndAssumption DEF Wiring
      <4>. QED
        BY <4>1, <4>2
    <3>. QED
      BY <1>1, <1>3, <1>4, <2>1, <3>1, StillKnows
  <2>. QED
    BY <2>1 DEF Followed, Served
<1>9. DoneShown'
  <2>1. CASE phase = "done"
    <3>1. pc[result] = "idle" /\ asks'[result] = asks[result]
      <4>1. pc[result] = "idle" /\ result # c
        BY <1>5, <2>1 DEF DoneShown, Requests
      <4>2. result \in Calls
        BY <2>1 DEF Inv, Apart, Calls
      <4>. QED
        BY <1>4, <4>1, <4>2
    <3>. QED
      BY <1>1, <1>3, <3>1, DoneStays
  <2>2. CASE phase # "done"
    BY <1>1, <2>2 DEF DoneShown
  <2>. QED
    BY <2>1, <2>2
<1>. QED
  BY <1>2, <1>3, <1>7, <1>8, <1>9

\* The pieces of Served that all handlers have in common.
LEMMA ServeShape ==
  ASSUME SystemInv, NEW c \in Calls, Serve(c)
  PROVE  /\ UNCHANGED vars
         /\ pc[c] \in Requests
         /\ pc[c] # "session" => asks[c] \in Sessions
         /\ reply' = [reply EXCEPT ![c] = reply'[c]]
<1>. USE DEF SystemInv
<1>1. UNCHANGED vars
  BY ServeLeavesFlow
<1>2. pc[c] \in Requests
  BY ReplyTo, EndAssumption DEF Serve, Unserved, CreateSession, PollSession, TellPhase, StartImport, GetImport, Erase, Awaits, Requests
<1>3. pc[c] # "session" => asks[c] \in Sessions
  BY <1>2, ToldOf DEF Requests, Told, Following
<1>4. \E r : Answer(c, r)
  BY DEF Serve, Unserved, CreateSession, PollSession, TellPhase, StartImport, GetImport, Erase, Send
<1>5. reply' = [reply EXCEPT ![c] = reply'[c]]
  BY <1>4 DEF Answer, Wiring
<1>. QED
  BY <1>1, <1>2, <1>3, <1>5

LEMMA UnservedServes == ASSUME SystemInv, NEW c \in Calls, Unserved(c) PROVE Served(c)
<1>. USE DEF SystemInv
<1>1. /\ UNCHANGED <<asks, lost, service>> /\ reply[c] = NoReply /\ reply'[c] = "failed"
  BY DEF Unserved, Awaits, Answer, Wiring
<1>2. Kept(c)
  BY <1>1, IdleKept DEF Shapes
<1>3. /\ UNCHANGED vars /\ pc[c] \in Requests /\ reply' = [reply EXCEPT ![c] = reply'[c]]
  BY ServeShape DEF Serve
<1>4. reply'[c] \in Replies(pc[c])
  BY <1>1, <1>3 DEF Replies, Requests
<1>5. pc[c] = "pollJob" => job[asks[c]] # "absent" /\ (job[asks[c]] = "gone" => asks[c] \in lost)
  BY <1>1, EndAssumption DEF Followed, FollowedBy, Following
<1>6. FollowedBy(c)'
  BY <1>1, <1>2, <1>3, <1>4, <1>5, AnswerKnows DEF Kept, service, table, worker, session
<1>. QED
  BY <1>1, <1>2, <1>3, <1>4, <1>6 DEF Served

\* Asking Google changes nothing, nor does telling the phase.
LEMMA PollSessionServes ==
  ASSUME SystemInv, NEW c \in Calls, PollSession(c) \/ TellPhase(c)
  PROVE  Served(c)
<1>. USE DEF SystemInv
<1>1. /\ UNCHANGED <<asks, lost, service>> /\ pc[c] = "pollSession"
      /\ reply'[c] \in {"set", "unset", "pending", "ready", "expired", "failed"}
  <2>1. CASE PollSession(c)
    BY <2>1 DEF PollSession, Awaits, Answer, Wiring
  <2>2. CASE TellPhase(c)
    BY <2>2, ReplyTo DEF TellPhase, Send, Answer, Wiring, sessionPhase
  <2>. QED
    BY <2>1, <2>2
<1>2. Kept(c)
  BY <1>1, IdleKept DEF Shapes
<1>3. /\ UNCHANGED vars /\ reply' = [reply EXCEPT ![c] = reply'[c]]
  BY ServeShape DEF Serve
<1>4. reply'[c] \in Replies(pc[c]) /\ pc[c] \in Requests
  BY <1>1 DEF Replies, Requests
<1>5. FollowedBy(c)'
  BY <1>1, <1>2, <1>3, <1>4, AnswerKnows DEF Kept
<1>. QED
  BY <1>1, <1>2, <1>3, <1>4, <1>5 DEF Served

\* A new session is no other call's, and nothing was said of it yet.
LEMMA CreateSessionServes == ASSUME SystemInv, NEW c \in Calls, CreateSession(c) PROVE Served(c)
<1>. USE DEF SystemInv
<1>1. /\ pc[c] = "session" /\ UNCHANGED <<lost, table, worker, lapsed>>
  BY DEF CreateSession, Awaits
<1>2. PICK s \in Sessions :
        /\ google[s] = "unused"
        /\ google' = [google EXCEPT ![s] = "open"]
        /\ \/ reply'[c] = "ok" /\ asks' = [asks EXCEPT ![c] = s]
           \/ reply'[c] = "failed" /\ UNCHANGED asks
  BY DEF CreateSession, Answer, Wiring
<1>3. /\ UNCHANGED vars /\ reply' = [reply EXCEPT ![c] = reply'[c]]
  BY ServeShape DEF Serve
<1>4. UNCHANGED <<lost, job, tally, answered, body, work, stage, at, listed, sunk, lapsed>>
  BY <1>1 DEF table, worker
<1>5. \A r \in Sessions : r # s => google'[r] = google[r]
  BY <1>2 DEF Shapes
<1>6. google'[s] = "open"
  BY <1>2 DEF Shapes
<1>7. Shapes'
  BY <1>2, <1>4 DEF Shapes
<1>8. Walking' /\ Sinking'
  BY <1>2, <1>4, <1>5, WorkingJob DEF Walking, Sinking
<1>9. WholeAndBounded'
  BY <1>2, <1>4, <1>5 DEF WholeAndBounded, Whole
<1>10. Onward /\ \A r \in Sessions : RowStays(r)
  BY <1>2, <1>4, <1>5, <1>6 DEF Onward, RowStays, Imported
<1>11. Kept(c)
  BY <1>7, <1>8, <1>9, <1>10 DEF Kept, ServiceInv
<1>13. pc' = pc
  BY <1>3 DEF vars, calls
<1>14. FollowedBy(c)'
  BY <1>1, <1>2, <1>13 DEF FollowedBy, Following
<1>16. reply'[c] \in Replies(pc[c]) /\ pc[c] \in Requests
  BY <1>1, <1>2 DEF Replies, Requests
<1>. QED
  BY <1>1, <1>2, <1>3, <1>6, <1>11, <1>14, <1>16 DEF Served

LEMMA StartImportServes == ASSUME SystemInv, NEW c \in Calls, StartImport(c) PROVE Served(c)
<1>. USE DEF SystemInv
<1>. DEFINE s == asks[c]
<1>1. /\ pc[c] = "import" /\ reply'[c] \in {"ok", "failed"}
      /\ job[s] = "absent" /\ job' = [job EXCEPT ![s] = "pending"]
      /\ UNCHANGED <<asks, lost, tally, answered, work, stage, at, listed, sunk, google, lapsed>>
  BY DEF StartImport, Awaits, Send, Answer, Wiring, Job!Create, Job!Move, worker, session
<1>2. PICK b \in Bodies : Decodes(b) /\ body' = [body EXCEPT ![s] = b]
  BY DEF StartImport
<1>3. /\ UNCHANGED vars /\ s \in Sessions /\ reply' = [reply EXCEPT ![c] = reply'[c]]
  BY <1>1, ServeShape DEF Serve
<1>4. Shapes'
  BY <1>1, <1>2, <1>3 DEF Shapes, Job!Phases
<1>5. Walking' /\ Sinking'
  BY <1>1, <1>3, WorkingJob DEF Walking, Sinking, Shapes
<1>6. WholeAndBounded'
  <2>1. \A r \in Sessions : body'[r].bytes <= MaxMetadataBytes /\ body'[r].keys <= MaxMetadataKeys
    BY <1>2, <1>3, DecodedBounded DEF WholeAndBounded, Shapes
  <2>. QED
    BY <1>1, <2>1 DEF WholeAndBounded, Whole
<1>7. Onward /\ \A r \in Sessions : RowStays(r)
  BY <1>1, <1>3 DEF Onward, RowStays, Imported, Shapes, Job!Finished
<1>8. Kept(c)
  BY <1>4, <1>5, <1>6, <1>7 DEF Kept, ServiceInv
<1>9. job'[s] = "pending"
  BY <1>1, <1>3 DEF Shapes
<1>10. reply'[c] \in Replies(pc[c]) /\ pc[c] \in Requests
  BY <1>1 DEF Replies, Requests
<1>11. FollowedBy(c)'
  BY <1>1, <1>3, <1>7, <1>9, <1>10, AnswerKnows
<1>. QED
  BY <1>1, <1>3, <1>8, <1>10, <1>11 DEF Served

\* Reading the row changes nothing but that it was read.
LEMMA GetImportServes == ASSUME SystemInv, NEW c \in Calls, GetImport(c) PROVE Served(c)
<1>. USE DEF SystemInv
<1>. DEFINE s == asks[c]
<1>1. /\ pc[c] = "pollJob" /\ reply[c] = NoReply
      /\ UNCHANGED <<asks, lost, job, tally, body, work, stage, at, listed, sunk, google, lapsed>>
      /\ \/ job[s] \in {"absent", "gone"} /\ reply'[c] = "missing" /\ UNCHANGED answered
         \/ job[s] \in {"pending", "running"} /\ reply'[c] = "running" /\ UNCHANGED answered
         \/ /\ job[s] \in Job!Finished /\ reply'[c] = "erasing"
            /\ answered' = answered \cup {s}
  BY DEF GetImport, Awaits, Answer, Wiring, Job!Answer, worker, session, table
<1>2. /\ UNCHANGED vars /\ s \in Sessions /\ reply' = [reply EXCEPT ![c] = reply'[c]]
  BY <1>1, ServeShape DEF Serve
<1>3. Shapes'
  BY <1>1, <1>2 DEF Shapes
<1>4. Walking' /\ Sinking'
  BY <1>1 DEF Walking, Sinking
<1>5. WholeAndBounded'
  BY <1>1 DEF WholeAndBounded, Whole
<1>6. Onward /\ \A r \in Sessions : RowStays(r)
  BY <1>1 DEF Onward, RowStays, Imported
<1>7. Kept(c)
  BY <1>3, <1>4, <1>5, <1>6 DEF Kept, ServiceInv
<1>8. job[s] # "absent" /\ (job[s] = "gone" => s \in lost)
  BY <1>1, EndAssumption DEF Followed, FollowedBy, Following
<1>9. reply'[c] \in {"missing", "running", "erasing"}
  BY <1>1
<1>10. reply'[c] \in Replies(pc[c]) /\ pc[c] \in Requests
  BY <1>1, <1>9 DEF Replies, Requests
<1>11. /\ job' = job /\ lost' = lost /\ asks' = asks
       /\ reply'[c] = "missing" => s \in lost
       /\ reply'[c] = "erasing" => job[s] \in Job!Finished /\ s \in answered'
  BY <1>1, <1>8
<1>12. FollowedBy(c)'
  BY <1>1, <1>2, <1>6, <1>8, <1>9, <1>10, <1>11, AnswerKnows
<1>. QED
  BY <1>1, <1>2, <1>7, <1>9, <1>10, <1>12 DEF Served

\* The one step that takes a row away: its call, and no other, asks for it.
LEMMA EraseServes == ASSUME SystemInv, NEW c \in Calls, Erase(c) PROVE Served(c)
<1>. USE DEF SystemInv
<1>. DEFINE s == asks[c]
<1>1. /\ reply[c] = "erasing" /\ pc[c] = "pollJob"
      /\ UNCHANGED <<asks, tally, answered, body, work, stage, at, listed, sunk, google, lapsed>>
      /\ UNCHANGED job \/ (job[s] \in Job!Finished /\ job' = [job EXCEPT ![s] = "gone"])
  BY ReplyTo DEF Erase, Job!Remove, worker, session
<1>2. job[s] \in {"complete", "failed"}
  BY <1>1 DEF Followed, FollowedBy, Job!Finished
<1>3. \/ job[s] = "complete" /\ reply'[c] = "complete" /\ UNCHANGED lost
      \/ job[s] = "failed" /\ reply'[c] = "aborted" /\ UNCHANGED lost
      \/ reply'[c] = "failed" /\ lost' = lost \cup {s}
  BY <1>2 DEF Erase, Answer, Wiring
<1>4. /\ UNCHANGED vars /\ s \in Sessions /\ reply' = [reply EXCEPT ![c] = reply'[c]]
  BY <1>1, ServeShape DEF Serve
<1>5. job'[s] \in {job[s], "gone"} /\ \A r \in Sessions : r # s => job'[r] = job[r]
  BY <1>1, <1>4 DEF Shapes
<1>6. Shapes'
  BY <1>1, <1>3, <1>4 DEF Shapes, Job!Phases
<1>7. Walking' /\ Sinking'
  <2>1. work = s /\ work # NoSession => stage = "cleanup"
    BY <1>2 DEF Walking
  <2>2. work = NoSession \/ work \in Sessions
    BY DEF Shapes
  <2>3. \A r \in Sessions : \/ job'[r] = job[r]
                            \/ r = s /\ job'[r] = "gone"
    BY <1>5
  <2>4. Walking'
    BY <1>1, <2>1, <2>2, <2>3 DEF Walking
  <2>5. Sinking'
    BY <1>1, <2>1, <2>2, <2>3 DEF Sinking
  <2>. QED
    BY <2>4, <2>5
<1>8. WholeAndBounded'
  BY <1>1 DEF WholeAndBounded, Whole
<1>9. Onward
  BY <1>1, <1>2, <1>4, <1>5 DEF Onward, Imported, Walking
<1>10. \A r \in Sessions : r # s => RowStays(r)
  BY <1>1, <1>5 DEF RowStays
<1>11. Kept(c)
  BY <1>6, <1>7, <1>8, <1>9, <1>10 DEF Kept, ServiceInv
<1>12. reply'[c] \in {"complete", "aborted", "failed"} /\ lost \subseteq lost'
  BY <1>3
<1>13. reply'[c] \in Replies(pc[c]) /\ pc[c] \in Requests
  BY <1>1, <1>12 DEF Replies, Requests
<1>14. reply'[c] = "complete" => job'[s] \in {"complete", "gone"} /\ tally'[s] = Len(Picks[s])
  BY <1>1, <1>3, <1>4, <1>5 DEF Walking
<1>15. job'[s] # "absent" /\ (job'[s] = "gone" => s \in lost' \/ reply'[c] \in {"complete", "aborted"})
  BY <1>2, <1>3, <1>5
<1>16. FollowedBy(c)'
  BY <1>1, <1>4, <1>9, <1>12, <1>13, <1>14, <1>15, AnswerKnows
<1>. QED
  BY <1>1, <1>4, <1>11, <1>12, <1>13, <1>16 DEF Served

LEMMA ServeKeeps == ASSUME SystemInv, NEW c \in Calls, Serve(c) PROVE SystemInv'
<1>1. Served(c)
  BY UnservedServes, CreateSessionServes, PollSessionServes, StartImportServes,
     GetImportServes, EraseServes DEF Serve
<1>. QED
  BY <1>1, ServedKeeps

-------------------------------------------------------------------------------
(* The browser: what it is told, it knows; the service stays as it is.     *)

LEMMA BrowserLeavesService ==
  ASSUME SystemInv, UNCHANGED <<asks, lost, service>>
  PROVE  /\ Shapes' /\ Walking' /\ Sinking' /\ WholeAndBounded'
         /\ UNCHANGED <<google, lapsed, job, tally, answered>>
<1>. USE DEF SystemInv
<1>1. UNCHANGED <<google, lapsed, job, tally, answered, body, work, stage, at, listed, sunk>>
  BY DEF service, table, worker, session
<1>2. Shapes' /\ Walking' /\ Sinking'
  BY <1>1 DEF Shapes, Walking, Sinking
<1>3. WholeAndBounded'
  BY <1>1 DEF WholeAndBounded, Whole
<1>. QED
  BY <1>1, <1>2, <1>3

LEMMA LocalKeeps ==
  ASSUME SystemInv, Local
  PROVE  SystemInv'
<1>. USE DEF SystemInv
<1>1. UNCHANGED <<asks, reply, lost, service>>
  BY DEF Local, wire
<1>2. Inv'
  BY LocalIsNext, NextKeepsInv
<1>3. /\ Shapes' /\ Walking' /\ Sinking' /\ WholeAndBounded'
      /\ UNCHANGED <<google, lapsed, job, tally, answered>>
  BY <1>1, BrowserLeavesService
<1>4. DoneMove /\ \A c \in Calls : LocalMove(c)
  BY LocalMoves
<1>5. ASSUME NEW c \in Calls
      PROVE  /\ pc[c] \in Requests => pc'[c] = pc[c]
             /\ pc[c] \notin Requests => reply[c] = NoReply
  BY <1>4, ReplyTo DEF LocalMove
<1>6. Wiring'
  <2>1. ASSUME NEW c \in Calls
        PROVE  /\ reply[c] \in Replies(pc'[c]) \cup {NoReply}
               /\ pc'[c] \in Told \/ reply[c] = "ok" => asks[c] \in Sessions
    BY <1>4, <1>5 DEF Wiring, LocalMove
  <2>. QED
    BY <1>1, <1>3, <2>1 DEF Wiring
<1>7. ASSUME NEW c \in Calls PROVE FollowedBy(c)'
  <2>1. FollowedBy(c) /\ LocalMove(c)
    BY <1>4 DEF Followed
  <2>2. reply[c] = "ok" /\ pc'[c] = "import" => pc[c] = "import"
    BY <1>5, EndAssumption
  <2>. QED
    BY <1>1, <1>3, <2>1, <2>2 DEF FollowedBy, LocalMove, Imported, Following
<1>8. DoneShown'
  <2>1. ASSUME phase' = "done", pc[result'] = "complete", pc'[result'] = "idle" PROVE DoneShown'
    <3>1. result' \in Calls
      BY <1>2, <2>1 DEF Inv, Apart, Calls
    <3>2. asks[result'] \in Sessions /\ Imported(asks[result'])
      BY <2>1, <3>1, ToldOf DEF Told, Following, Followed, FollowedBy
    <3>. QED
      BY <1>1, <1>3, <2>1, <3>2 DEF DoneShown, Imported
  <2>2. ASSUME phase' = "done", phase = "done", result' = result, pc[result] = "idle" => pc'[result] = "idle"
        PROVE  DoneShown'
    BY <1>1, <1>3, <2>2 DEF DoneShown, Imported
  <2>3. CASE phase' # "done"
    BY <2>3 DEF DoneShown
  <2>. QED
    BY <1>4, <2>1, <2>2, <2>3 DEF DoneMove
<1>. QED
  BY <1>2, <1>3, <1>6, <1>7, <1>8 DEF Followed

LEMMA DeliverKeepsInv ==
  ASSUME SystemInv, NEW c \in Calls, Deliver(c)
  PROVE  SystemInv'
<1>. USE DEF SystemInv
<1>1. /\ UNCHANGED <<asks, lost, service>> /\ reply[c] \notin Unsent \cup {NoReply}
      /\ reply' = [reply EXCEPT ![c] = NoReply]
  BY DEF Deliver, Answer
<1>2. Inv'
  <2>1. Next
    BY DeliverIsRequested DEF Next
  <2>. QED
    BY <2>1, NextKeepsInv
<1>3. /\ Shapes' /\ Walking' /\ Sinking' /\ WholeAndBounded'
      /\ UNCHANGED <<google, lapsed, job, tally, answered>>
  BY <1>1, BrowserLeavesService
<1>4. AnsweredMove(c)
  BY DeliverMoves
<1>5. /\ reply' = [d \in Calls |-> reply'[d]] /\ reply'[c] = NoReply
      /\ \A d \in Calls : d # c => reply'[d] = reply[d] /\ pc'[d] = pc[d] /\ err'[d] = err[d]
  BY <1>1, <1>4 DEF Wiring, AnsweredMove
<1>6. UNCHANGED <<current, result>> /\ (expired' => expired) /\ (phase' = "done" => phase = "done")
  BY <1>4 DEF AnsweredMove
<1>7. Wiring'
  <2>1. pc'[c] \in Told => asks[c] \in Sessions
    BY <1>4 DEF AnsweredMove, Wiring
  <2>2. ASSUME NEW d \in Calls
        PROVE  /\ reply'[d] \in Replies(pc'[d]) \cup {NoReply}
               /\ pc'[d] \in Told \/ reply'[d] = "ok" => asks[d] \in Sessions
    <3>1. CASE d = c
      BY <1>5, <2>1, <3>1, EndAssumption
    <3>2. CASE d # c
      BY <1>5, <3>2 DEF Wiring
    <3>. QED
      BY <3>1, <3>2
  <2>. QED
    BY <1>1, <1>3, <1>5, <2>2 DEF Wiring
<1>8. FollowedBy(c)'
  <2>1. FollowedBy(c)
    BY DEF Followed
  <2>2. pc'[c] \in Following => job[asks[c]] # "absent"
    BY <1>4, <2>1 DEF AnsweredMove, FollowedBy, Following
  <2>3. pc'[c] = "complete" => Imported(asks[c])
    BY <1>4, <2>1 DEF AnsweredMove, FollowedBy
  <2>4. pc'[c] \in Following \ {"complete"} /\ job[asks[c]] = "gone" => asks[c] \in lost
    BY <1>4, <2>1 DEF AnsweredMove, FollowedBy, Following
  <2>. QED
    BY <1>1, <1>3, <1>5, <2>2, <2>3, <2>4, EndAssumption DEF FollowedBy, Imported
<1>10. ASSUME NEW d \in Calls, d # c PROVE FollowedBy(d)'
  <2>1. Onward /\ \A s \in Sessions : RowStays(s)
    BY <1>3 DEF Onward, RowStays, Imported
  <2>. QED
    BY <1>1, <1>5, <1>6, <1>10, <2>1, StillKnows
<1>11. DoneShown'
  <2>1. pc[c] # "idle"
    BY <1>4 DEF AnsweredMove, Requests
  <2>2. CASE phase' = "done"
    <3>1. result \in Calls
      BY <1>6, <2>2 DEF Inv, Apart, Calls
    <3>. QED
      BY <1>1, <1>3, <1>5, <1>6, <2>1, <2>2, <3>1 DEF DoneShown, Imported
  <2>3. CASE phase' # "done"
    BY <2>3 DEF DoneShown
  <2>. QED
    BY <2>2, <2>3
<1>. QED
  BY <1>2, <1>3, <1>7, <1>8, <1>10, <1>11 DEF Followed

-------------------------------------------------------------------------------
(* A selection that Google has.                                            *)

\* Google has the picks of s, and c, if it asks for s, was told nothing else.
Taken(c, s) ==
  /\ google[s] \in {"confirmed", "deleted"}
  /\ asks[c] = s => reply[c] # "unset" /\ ~ToldExpired(c)

\* Google takes no selection back and gives no session's name a second time.
LEMMA StillGoogles ==
  ASSUME SystemInv, [SystemNext]_system, NEW s \in Sessions, google[s] \in {"confirmed", "deleted"}
  PROVE  /\ google'[s] \in {"confirmed", "deleted"}
         /\ \A c \in Calls : asks'[c] = s => asks[c] = s
<1>. USE DEF SystemInv, Shapes
<1>1. ASSUME NEW d \in Calls, CreateSession(d)
      PROVE  /\ google'[s] \in {"confirmed", "deleted"}
             /\ \A c \in Calls : asks'[c] = s => asks[c] = s
  BY <1>1 DEF CreateSession
<1>2. ASSUME NEW d \in Calls, Serve(d), ~CreateSession(d)
      PROVE  UNCHANGED <<google, asks>>
  BY <1>2 DEF Serve, Unserved, PollSession, TellPhase, StartImport, GetImport, Erase, service, session
<1>3. ASSUME Local \/ (\E d \in Calls : Deliver(d)) \/ Abandon \/ UNCHANGED system
      PROVE  UNCHANGED <<google, asks>>
  BY <1>3 DEF Local, Deliver, Abandon, system, service, session, wire
<1>4. ASSUME Works
      PROVE  google'[s] \in {"confirmed", "deleted"} /\ UNCHANGED asks
  BY <1>4 DEF Works, Claim, ListPage, ListFails, ImportItem, MarkComplete, DeleteSession, session, wire
<1>5. ASSUME NEW r \in Sessions, Confirm(r) \/ Lapse(r)
      PROVE  google'[s] \in {"confirmed", "deleted"} /\ UNCHANGED asks
  BY <1>5 DEF Confirm, Lapse, wire
<1>. QED
  BY <1>1, <1>2, <1>3, <1>4, <1>5 DEF SystemNext

\* What the browser, Google and the worker do makes no answer.
LEMMA NobodyTells ==
  ASSUME SystemInv, [SystemNext]_system, NEW c \in Calls, ~Serve(c)
  PROVE  /\ reply'[c] = "unset" => reply[c] = "unset"
         /\ ToldExpired(c)' => ToldExpired(c)
<1>. USE DEF SystemInv, Wiring, ToldExpired
<1>1. ASSUME NEW d \in Calls, Serve(d), d # c
      PROVE  UNCHANGED <<reply[c], err, expired, current>>
  BY <1>1, ServeShape DEF vars, flow, calls
<1>2. ASSUME NEW d \in Calls, Deliver(d)
      PROVE  /\ reply'[c] = "unset" => reply[c] = "unset"
             /\ ToldExpired(c)' => ToldExpired(c)
  <2>1. reply' = [reply EXCEPT ![d] = NoReply]
    BY <1>2 DEF Deliver, Answer
  <2>2. AnsweredMove(d)
    BY <1>2, DeliverMoves
  <2>. QED
    BY <2>1, <2>2, EndAssumption DEF AnsweredMove
<1>3. CASE Local
  <2>1. LocalMove(c) /\ UNCHANGED reply
    BY <1>3, LocalMoves DEF Local, wire
  <2>. QED
    BY <2>1 DEF LocalMove
<1>4. ASSUME (\E s \in Sessions : Confirm(s) \/ Lapse(s)) \/ Works \/ Abandon \/ UNCHANGED system
      PROVE  UNCHANGED <<reply, err, expired, current>>
  BY <1>4, OutsideLeavesFlow DEF system, vars, flow, calls, wire
<1>. QED
  BY <1>1, <1>2, <1>3, <1>4 DEF SystemNext

\* Of a session that Google has picks for, the service tells nothing else.
LEMMA ServiceTells ==
  ASSUME SystemInv, NEW c \in Calls, Serve(c), asks'[c] = asks[c],
         google[asks[c]] = "confirmed" \/ google[asks[c]] = "deleted",
         reply[c] # "unset", ~ToldExpired(c)
  PROVE  reply'[c] # "unset" /\ ~ToldExpired(c)'
<1>. USE DEF SystemInv, Wiring
<1>1. UNCHANGED <<err, expired, current>>
  BY ServeShape DEF vars, flow, calls
<1>2. reply'[c] \notin {"unset", "expired"}
  <2>1. CASE Unserved(c) \/ CreateSession(c)
    BY <2>1 DEF Unserved, CreateSession, Answer
  <2>2. CASE PollSession(c)
    BY <2>2 DEF PollSession, Answer
  <2>3. CASE TellPhase(c)
    <3>1. reply[c] = "set"
      BY <2>3 DEF TellPhase
    <3>2. sessionPhase(Resource(c)) = "ready"
      BY <3>1 DEF sessionPhase, Resource
    <3>. QED
      BY <2>3, <3>2 DEF TellPhase, Send, Answer
  <2>4. CASE StartImport(c) \/ GetImport(c)
    BY <2>4 DEF StartImport, GetImport, Send, Answer
  <2>5. CASE Erase(c)
    <3>1. job[asks[c]] \in {"complete", "failed"}
      BY <2>5 DEF Erase, Followed, FollowedBy, Job!Finished
    <3>. QED
      BY <2>5, <3>1 DEF Erase, Answer
  <2>. QED
    BY <2>1, <2>2, <2>3, <2>4, <2>5 DEF Serve
<1>. QED
  BY <1>1, <1>2 DEF ToldExpired

LEMMA TakenStays ==
  ASSUME SystemInv, [SystemNext]_system, NEW c \in Calls, NEW s \in Sessions, Taken(c, s)
  PROVE  Taken(c, s)'
<1>1. google'[s] \in {"confirmed", "deleted"} /\ (asks'[c] = s => asks[c] = s)
  BY StillGoogles DEF Taken
<1>2. ASSUME asks'[c] = s PROVE reply'[c] # "unset" /\ ~ToldExpired(c)'
  <2>1. /\ asks[c] = s /\ google[s] \in {"confirmed", "deleted"}
        /\ reply[c] # "unset" /\ ~ToldExpired(c)
    BY <1>1, <1>2 DEF Taken
  <2>2. CASE Serve(c)
    BY <1>2, <2>1, <2>2, ServiceTells
  <2>3. CASE ~Serve(c)
    BY <2>1, <2>3, NobodyTells
  <2>. QED
    BY <2>2, <2>3
<1>. QED
  BY <1>1, <1>2 DEF Taken

-------------------------------------------------------------------------------
(* The theorems.                                                           *)

LEMMA SystemStepInv == SystemInv /\ [SystemNext]_system => SystemInv'
<1>. SUFFICES ASSUME SystemInv, [SystemNext]_system PROVE SystemInv'
  OBVIOUS
<1>1. ASSUME NEW c \in Calls, Serve(c) PROVE SystemInv'
  BY <1>1, ServeKeeps
<1>2. ASSUME NEW c \in Calls, Deliver(c) PROVE SystemInv'
  BY <1>2, DeliverKeepsInv
<1>3. CASE Local
  BY <1>3, LocalKeeps
<1>4. CASE (\E s \in Sessions : Confirm(s) \/ Lapse(s)) \/ Works \/ Abandon
  BY <1>4, OutsideKeeps
<1>5. CASE UNCHANGED system
  <2>1. /\ UNCHANGED <<vars, service, wire, asks, lost, reply>>
        /\ UNCHANGED <<current, phase, expired, result, pc, err>>
    BY <1>5 DEF system, wire, vars, flow, calls
  <2>2. Inv'
    BY <2>1, NextKeepsInv DEF SystemInv
  <2>3. /\ Shapes' /\ Walking' /\ Sinking' /\ WholeAndBounded'
        /\ UNCHANGED <<google, lapsed, job, tally, answered>>
    BY <2>1, BrowserLeavesService
  <2>4. Wiring' /\ Followed' /\ DoneShown'
    BY <2>1, <2>3 DEF SystemInv, Wiring, Followed, FollowedBy, DoneShown, Imported
  <2>. QED
    BY <2>2, <2>3, <2>4 DEF SystemInv
<1>. QED
  BY <1>1, <1>2, <1>3, <1>4, <1>5 DEF SystemNext

\* The inductive invariant of the browser, the handlers, Google and the worker
\* together.
THEOREM SystemInvariant == SystemSpec => []SystemInv
<1>1. SystemInit => SystemInv
  BY SystemInitInv
<1>2. SystemInv /\ [SystemNext]_system => SystemInv'
  BY SystemStepInv
<1>. QED
  BY <1>1, <1>2, PTL DEF SystemSpec

\* Every variable keeps its type, a reply is one to the fetch under way, no two
\* starts share a session, and the worker's job is running (worker.go, Get).
THEOREM SystemTypeCorrect == SystemSpec => []SystemTypeOK
<1>1. SystemInv => SystemTypeOK
  <2>. SUFFICES ASSUME SystemInv PROVE SystemTypeOK
    OBVIOUS
  <2>1. TypeOK /\ Shapes
    BY DEF SystemInv, Inv
  <2>2. ASSUME NEW c \in Calls
        PROVE  /\ reply[c] \in Replies(pc[c]) \cup {NoReply}
               /\ pc[c] \in Requests \ {"session"} => asks[c] # NoSession
               /\ asks[c] # NoSession => google[asks[c]] # "unused" /\ Asked(asks[c]) = {c}
    <3>1. pc[c] \in Requests \ {"session"} => asks[c] # NoSession
      BY ToldOf, EndAssumption DEF Requests, Told, Following
    <3>2. asks[c] # NoSession => Asked(asks[c]) = {c}
      BY DEF SystemInv, Wiring, Asked
    <3>. QED
      BY <3>1, <3>2 DEF SystemInv, Wiring
  <2>3. work # NoSession /\ stage # "cleanup" => job[work] = "running"
    BY DEF SystemInv, Walking
  <2>. QED
    BY <2>1, <2>2, <2>3 DEF SystemTypeOK
<1>. QED
  BY <1>1, SystemInvariant, PTL

\* "done" on the page means that every picked item was walked and the row said
\* so, whatever was lost, retried, cancelled or restarted on the way.
THEOREM DoneMeansImported == SystemSpec => []DoneIsImported
<1>1. SystemInv => DoneIsImported
  BY DEF SystemInv, DoneShown, DoneIsImported, Shown, Imported
<1>. QED
  BY <1>1, SystemInvariant, PTL

\* GetImport says "not found" only when an answer of it was lost before.
THEOREM MissingMeansLost == SystemSpec => []NotFoundMeansLost
<1>1. SystemInv => NotFoundMeansLost
  BY DEF SystemInv, Followed, FollowedBy, NotFoundMeansLost
<1>. QED
  BY <1>1, SystemInvariant, PTL

\* A confirmed selection wins over the deadline (client.go:289): once Google has
\* it, only an answer made without it, and under way by then, can hide it.
THEOREM ConfirmedPicksWin == SystemSpec => PicksWin
<1>. SUFFICES ASSUME NEW c \in Calls, NEW s \in Sessions
     PROVE  SystemSpec =>
              [](asks[c] = s /\ google[s] = "confirmed" /\ reply[c] # "unset" /\ ~ToldExpired(c)
                   => [](asks[c] = s => ~ToldExpired(c)))
  BY DEF PicksWin
<1>1. asks[c] = s /\ google[s] = "confirmed" /\ reply[c] # "unset" /\ ~ToldExpired(c) => Taken(c, s)
  BY DEF Taken
<1>2. Taken(c, s) => (asks[c] = s => ~ToldExpired(c))
  BY DEF Taken
<1>3. SystemInv /\ Taken(c, s) /\ [SystemNext]_system => Taken(c, s)'
  BY TakenStays
<1>. QED
  BY <1>1, <1>2, <1>3, SystemInvariant, PTL DEF SystemSpec
\* What the sink gets is whole, within the caps and in order; what a row keeps
\* of a request is within its limits.
THEOREM SinkWholeAndBounded == SystemSpec => []WholeAndBounded
<1>1. SystemInv => WholeAndBounded
  BY DEF SystemInv
<1>. QED
  BY <1>1, SystemInvariant, PTL

-------------------------------------------------------------------------------
\* The decisions of PickerAPI are exact, in spite of their reading one byte more
\* than they allow: a download is accepted if and only if it is within both caps,
\* and then it is whole; a body if and only if it is empty or within its limits.
THEOREM CapsAreExact ==
  /\ \A i \in Item :
       /\ Downloads(i) <=> /\ i.bytes <= DownloadCap
                           /\ MaxDecodedBytes > 0 => 4 * i.pixels <= MaxDecodedBytes
       /\ Downloads(i) => Arrived(i) = i.bytes
  /\ \A b \in Body :
       Decodes(b) <=> \/ b.bytes = 0
                      \/ /\ b.bytes <= MaxMetadataBytes
                         /\ b.parses /\ b.keys <= MaxMetadataKeys
<1>1. ASSUME NEW cap \in 1..(MaxInt64 - 1), NEW n \in Nat
      PROVE  /\ n <= cap => ReadUpTo(OneMore(cap), n) = n
             /\ n > cap  => ReadUpTo(OneMore(cap), n) = cap + 1
  <2>1. OneMore(cap) = cap + 1 /\ cap \in Nat
    BY CapAssumption DEF OneMore
  <2>. QED
    BY <2>1 DEF ReadUpTo
<1>2. ASSUME NEW i \in Item
      PROVE  /\ Downloads(i) <=> /\ i.bytes <= DownloadCap
                                 /\ MaxDecodedBytes > 0 => 4 * i.pixels <= MaxDecodedBytes
             /\ Downloads(i) => Arrived(i) = i.bytes
  <2>1. i.bytes \in Nat /\ DownloadCap \in 1..(MaxInt64 - 1) /\ DownloadCap \in Int
    BY CapAssumption DEF Item
  <2>2. /\ i.bytes <= DownloadCap => Arrived(i) = i.bytes
        /\ i.bytes > DownloadCap  => Arrived(i) = DownloadCap + 1
    BY <1>1, <2>1 DEF Arrived
  <2>3. Arrived(i) <= DownloadCap <=> i.bytes <= DownloadCap
    <3>1. DownloadCap \in Nat /\ ~(DownloadCap + 1 <= DownloadCap)
      BY <2>1
    <3>2. i.bytes <= DownloadCap \/ i.bytes > DownloadCap
      BY <2>1
    <3>. QED
      BY <2>1, <2>2, <3>1, <3>2
  <2>4. i.bytes <= DownloadCap => Arrived(i) = i.bytes
    BY <2>2
  <2>. QED
    BY <2>3, <2>4 DEF Downloads
<1>3. ASSUME NEW b \in Body
      PROVE  Decodes(b) <=> \/ b.bytes = 0
                            \/ /\ b.bytes <= MaxMetadataBytes
                               /\ b.parses /\ b.keys <= MaxMetadataKeys
  <2>. DEFINE n == ReadUpTo(OneMore(MaxMetadataBytes), b.bytes)
  <2>1. /\ b.bytes \in Nat /\ MaxMetadataBytes \in 1..(MaxInt64 - 1)
        /\ MaxMetadataBytes \in Nat
    BY CapAssumption DEF Body
  <2>2. /\ b.bytes <= MaxMetadataBytes => n = b.bytes
        /\ b.bytes > MaxMetadataBytes  => n = MaxMetadataBytes + 1
    BY <1>1, <2>1
  <2>3. Decodes(b) <=> \/ n = 0
                       \/ n <= MaxMetadataBytes /\ b.parses /\ b.keys <= MaxMetadataKeys
    BY DEF Decodes
  <2>. HIDE DEF n
  <2>. QED
    BY <2>1, <2>2, <2>3
<1>. QED
  BY <1>2, <1>3

===============================================================================
