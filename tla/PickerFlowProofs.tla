--------------------------- MODULE PickerFlowProofs ---------------------------
(***************************************************************************)
(* Proofs about PickerFlow, for any calls and any number of retries. What  *)
(* is in Inv holds of any host code, WellShown of host code that calls from*)
(* click handlers only. A lemma about an action shows both: that it keeps  *)
(* Inv, and that it keeps WellShown as well if that held.                  *)
(***************************************************************************)
EXTENDS PickerFlow, TLAPS

Passing == {"granted", "picked", "complete"}

\* A connect is at points of its own, and only a start completes.
Apart ==
  /\ \A c \in Connects : pc[c] \in {"idle", "throw"} \cup PointsIn["connecting"]
  /\ phase = "done" => result \in Starts

\* The flow shows no expiry while its current call is under way; and no call
\* that has resolved waits for its continuation when one is shown, or about to be.
NoneExpired ==
  \A c \in Calls :
    /\ current = c /\ pc[c] # "idle" => ~expired
    /\ pc[c] \in Passing => ~expired /\ \A d \in Calls : err[d] # "expired"

Inv == TypeOK /\ Apart /\ NoneExpired /\ ExpiredIsError

\* A call whose inner function has resolved is still the current one, for no
\* click handler comes before its continuation; and the current call was not
\* cancelled.
ReadyIsCurrent ==
  \A c \in Calls :
    /\ pc[c] \in Passing => current = c /\ ~handling
    /\ pc[c] = "throw" /\ current = c => err[c] # "cancelled"

WellShown == ReadyIsCurrent /\ PhaseMatches /\ DoneIsCurrent

\* What a step has to show of both.
Keeps == Inv' /\ (WellShown => WellShown')

\* The points by phase, spelled out.
LEMMA PointsByPhase ==
  /\ Busy = {"connecting", "creating", "picking", "importing"}
  /\ PointsIn["connecting"] = {"consent", "oauth", "granted"}
  /\ PointsIn["creating"] = {"session"}
  /\ PointsIn["picking"] = {"pollSession", "waitSession", "retrySession", "picked"}
  /\ PointsIn["importing"] = {"import", "pollJob", "waitJob", "retryJob", "complete"}
BY DEF Busy, PointsIn

LEMMA PointsList ==
  Points = {"idle", "throw", "consent", "oauth", "granted", "session",
            "pollSession", "waitSession", "retrySession", "picked",
            "import", "pollJob", "waitJob", "retryJob", "complete"}
<1>1. UNION {PointsIn[p] : p \in Busy} =
        PointsIn["connecting"] \cup PointsIn["creating"]
          \cup PointsIn["picking"] \cup PointsIn["importing"]
  BY PointsByPhase
<1>. QED
  BY <1>1, PointsByPhase DEF Points

\* Every behaviour starts in both.
LEMMA InitInv == Init => Inv /\ WellShown
<1>. SUFFICES ASSUME Init PROVE Inv /\ WellShown
  OBVIOUS
<1>1. Types
  <2>1. pc \in [Calls -> Points]
    BY PointsList DEF Init
  <2>2. err \in [Calls -> Errors]
    BY DEF Init, Errors
  <2>3. failures \in [Calls -> 0..MaxPollFailures]
    BY FlowAssumption DEF Init
  <2>. QED
    BY <2>1, <2>2, <2>3 DEF Init, Types
<1>2. TypeOK
  BY <1>1 DEF Init, TypeOK
<1>3. \A c \in Connects : c \in Calls
  BY DEF Calls
<1>4. Apart /\ NoneExpired /\ ExpiredIsError
  BY <1>3 DEF Init, Apart, NoneExpired, ExpiredIsError, Passing
<1>5. WellShown
  BY PointsByPhase, FlowAssumption
     DEF Init, WellShown, ReadyIsCurrent, PhaseMatches, DoneIsCurrent, Passing
<1>. QED
  BY <1>2, <1>4, <1>5 DEF Inv

-------------------------------------------------------------------------------
(* The pieces that several actions are made of keep the types.             *)

LEMMA GotoTypes ==
  ASSUME TypeOK, NEW c \in Calls, NEW l \in Points, Goto(c, l)
  PROVE  /\ pc' \in [Calls -> Points]
         /\ err' \in [Calls -> Errors]
         /\ failures' \in [Calls -> 0..MaxPollFailures]
         /\ pc'[c] = l
         /\ \A d \in Calls : d # c => pc'[d] = pc[d]
         /\ UNCHANGED <<err, failures>>
BY DEF TypeOK, Types, Goto

LEMMA ThrowTypes ==
  ASSUME TypeOK, NEW c \in Calls, NEW e \in Errors \ {"none"}, Throw(c, e)
  PROVE  /\ pc' \in [Calls -> Points]
         /\ err' \in [Calls -> Errors]
         /\ failures' \in [Calls -> 0..MaxPollFailures]
         /\ pc'[c] = "throw" /\ err'[c] = e /\ failures'[c] = 0
         /\ \A d \in Calls : d # c => /\ pc'[d] = pc[d]
                                      /\ err'[d] = err[d]
                                      /\ failures'[d] = failures[d]
BY PointsList, FlowAssumption DEF TypeOK, Types, Throw

LEMMA SettleTypes ==
  ASSUME TypeOK, NEW c \in Calls, Settle(c)
  PROVE  /\ pc' \in [Calls -> Points]
         /\ err' \in [Calls -> Errors]
         /\ failures' \in [Calls -> 0..MaxPollFailures]
         /\ pc'[c] = "idle" /\ err'[c] = "none"
         /\ \A d \in Calls : d # c => pc'[d] = pc[d] /\ err'[d] = err[d]
         /\ UNCHANGED failures
BY PointsList DEF TypeOK, Types, Settle, Errors

\* The windows: what TypeOK says of them.
WindowsOK ==
  /\ popup \in Windows \cup {NoWindow}
  /\ open \subseteq Windows
  /\ mine \in [Calls -> BOOLEAN]
  /\ \A c \in Calls : mine[c] => Name(c) \in open
  /\ popup # NoWindow => popup \in open

LEMMA ClosePopupWindows == TypeOK /\ closePopup => WindowsOK'
BY DEF TypeOK, Types, closePopup, Gone, WindowsOK

LEMMA OpenWindows ==
  ASSUME TypeOK, NEW c \in Calls, openBlank(c)
  PROVE  WindowsOK'
<1>1. Name(c) \in Windows
  BY DEF Name, Windows
<1>. QED
  BY <1>1 DEF TypeOK, Types, openBlank, WindowsOK

LEMMA SameWindows == TypeOK /\ UNCHANGED <<popup, open, mine>> => WindowsOK'
BY DEF TypeOK, Types, WindowsOK
\* The calls, and the state the host sees: what TypeOK says of them.
CallsOK ==
  /\ pc \in [Calls -> Points]
  /\ err \in [Calls -> Errors]
  /\ failures \in [Calls -> 0..MaxPollFailures]
  /\ \A c \in Calls : /\ err[c] # "none" <=> pc[c] = "throw"
                      /\ failures[c] # 0 => pc[c] \in Polling

FlowOK ==
  /\ current \in Calls \cup {NoCall}
  /\ phase \in Busy \cup {"idle", "done", "error"}
  /\ expired \in BOOLEAN
  /\ refused \in BOOLEAN
  /\ result \in Starts \cup {NoCall}
  /\ handling \in BOOLEAN

LEMMA TypeParts == TypeOK <=> CallsOK /\ WindowsOK /\ FlowOK
BY DEF TypeOK, Types, CallsOK, WindowsOK, FlowOK

\* One call moves, as any does.
Moves(c) ==
  /\ pc[c] # "idle"
  /\ \A d \in Calls : d # c => pc'[d] = pc[d] /\ err'[d] = err[d]
  /\ UNCHANGED current
  /\ c \in Connects => pc'[c] \in {"idle", "throw"} \cup PointsIn["connecting"]
  /\ pc'[c] \in Passing =>
       /\ current = c
       /\ err'[c] # "expired" /\ \A d \in Calls : pc[d] # "throw"
  /\ err'[c] = "expired" => \A d \in Calls : pc[d] \notin Passing
  /\ phase' = "done" => UNCHANGED <<phase, result>> \/ result' \in Starts
  /\ expired' =>
       \/ expired /\ phase' = phase /\ pc'[c] \in {pc[c], "idle", "throw"}
       \/ /\ phase' = "error" /\ pc'[c] = "idle"
          /\ current = c /\ err[c] = "expired"

\* And as it does when what is shown is about it.
Fits(c) ==
  /\ handling' \in {handling, FALSE}
  /\ pc'[c] \in Passing => current = c /\ ~handling'
  /\ pc'[c] = "throw" /\ current = c => err'[c] # "cancelled"
  /\ current # c => UNCHANGED <<phase, result>>
  /\ current = c =>
       \/ pc'[c] = "idle" /\ phase' \notin Busy
       \/ phase' \in Busy /\ pc'[c] \in (PointsIn[phase'] \cup {"throw"}) \ {"idle"}
  /\ phase' = "done" => UNCHANGED <<phase, result>> \/ (current = c /\ result' = c)

LEMMA OneCallMoves ==
  ASSUME Inv, NEW c \in Calls, Moves(c), CallsOK', WindowsOK', FlowOK',
         WellShown => Fits(c)
  PROVE  Keeps
<1>1. TypeOK'
  BY DEF TypeOK, Types, CallsOK, WindowsOK, FlowOK
<1>2. Apart'
  <2>1. Connects \subseteq Calls
    BY DEF Calls
  <2>. QED
    BY <2>1 DEF Inv, Apart, Moves
<1>3. NoneExpired'
  <2>. SUFFICES ASSUME NEW d \in Calls
       PROVE  /\ current' = d /\ pc'[d] # "idle" => ~expired'
              /\ pc'[d] \in Passing => ~expired' /\ \A e \in Calls : err'[e] # "expired"
    BY DEF NoneExpired
  <2>. USE DEF Inv, NoneExpired
  <2>1. current' = d /\ pc'[d] # "idle" => ~expired'
    BY DEF Moves
  <2>2. CASE pc'[d] \in Passing /\ d = c
    <3>1. \A e \in Calls : err[e] # "expired"
      BY <2>2 DEF Moves, TypeOK
    <3>. QED
      BY <2>1, <2>2, <3>1 DEF Moves, Passing
  <2>3. CASE pc'[d] \in Passing /\ d # c
    BY <2>3 DEF Moves
  <2>. QED
    BY <2>1, <2>2, <2>3
<1>4. ExpiredIsError'
  BY DEF Inv, ExpiredIsError, Moves
<1>5. ASSUME WellShown PROVE WellShown'
  <2>. USE <1>5 DEF WellShown
  <2>1. ReadyIsCurrent'
    BY DEF ReadyIsCurrent, Fits, Moves
  <2>2. PhaseMatches'
    <3>1. CASE current = c
      BY <3>1, FlowAssumption DEF PhaseMatches, Fits, Moves
    <3>2. CASE current # c
      BY <3>2, FlowAssumption DEF PhaseMatches, Fits, Moves, Inv, TypeOK, Types
    <3>. QED
      BY <3>1, <3>2
  <2>3. DoneIsCurrent'
    BY FlowAssumption DEF DoneIsCurrent, Fits, Moves, Calls
  <2>. QED
    BY <2>1, <2>2, <2>3
<1>. QED
  BY <1>1, <1>2, <1>3, <1>4, <1>5 DEF Keeps, Inv

\* A call under way is at a point of the phase shown, if it is the current one.
LEMMA CurrentPoint ==
  ASSUME WellShown, NEW c \in Calls, current = c, pc[c] # "idle"
  PROVE  phase \in Busy /\ pc[c] \in PointsIn[phase] \cup {"throw"}
BY DEF WellShown, PhaseMatches

-------------------------------------------------------------------------------
(* Steps of one call.                                                      *)

\* The catch block.
LEMMA FailKeeps ==
  ASSUME Inv, NEW c \in Calls, NEW e \in Errors \ {"none"}, Fail(c, e),
         pc[c] # "idle", e = "expired" => err[c] = "expired",
         failures[c] = 0 \/ pc[c] \notin Polling,
         WellShown => (current = c => e # "cancelled"),
         handling' = FALSE, UNCHANGED <<current, refused, result>>
  PROVE  Keeps
<1>. USE DEF Inv
<1>1. WindowsOK'
  BY ClosePopupWindows DEF Fail
<1>2. Settle(c) /\ handleError(c, e)
  BY DEF Fail
<1>3. /\ pc' \in [Calls -> Points] /\ err' \in [Calls -> Errors]
      /\ failures' \in [Calls -> 0..MaxPollFailures]
      /\ pc'[c] = "idle" /\ err'[c] = "none"
      /\ \A d \in Calls : d # c => pc'[d] = pc[d] /\ err'[d] = err[d]
      /\ UNCHANGED failures
  BY <1>2, SettleTypes
<1>4. CallsOK'
  BY <1>3 DEF TypeOK, CallsOK
<1>5. FlowOK'
  BY <1>2 DEF TypeOK, Types, FlowOK, handleError
<1>6. Moves(c)
  BY <1>2, <1>3 DEF Moves, handleError, Passing
<1>7. WellShown => Fits(c)
  BY <1>2, <1>3, PointsByPhase DEF Fits, handleError, Passing
<1>. QED
  BY <1>1, <1>4, <1>5, <1>6, <1>7, OneCallMoves

LEMMA FetchedKeeps ==
  ASSUME Inv, NEW c \in Calls, NEW l \in {"consent", "session", "import"},
         NEW a \in {"ok", "failed"}, NEW w \in BOOLEAN,
         NEW m \in {"oauth", "pollSession", "pollJob"}, NEW p,
         \/ p \in Busy /\ m \in PointsIn[p]
         \/ p = phase /\ \A q \in Busy : l \in PointsIn[q] => m \in PointsIn[q],
         l = "consent" => m = "oauth", Fetched(c, l, a, w, m, p)
  PROVE  Keeps
<1>. USE DEF Inv
<1>1. pc[c] = l /\ handling' = FALSE /\ UNCHANGED <<current, refused, result>>
  BY DEF Fetched, Task
<1>2. pc[c] \notin Polling
  BY <1>1 DEF Polling
<1>3. CASE Fail(c, "error")
  BY <1>1, <1>2, <1>3, FailKeeps DEF Errors
<1>4. CASE current # c /\ Fail(c, "cancelled")
  BY <1>1, <1>2, <1>4, FailKeeps DEF Errors
<1>5. CASE current = c /\ Goto(c, m) /\ phase' = p /\ UNCHANGED <<expired, popup, open, mine>>
  <2>1. m \in Points
    BY PointsList
  <2>2. /\ pc' \in [Calls -> Points] /\ err' \in [Calls -> Errors]
        /\ failures' \in [Calls -> 0..MaxPollFailures]
        /\ pc'[c] = m
        /\ \A d \in Calls : d # c => pc'[d] = pc[d]
        /\ UNCHANGED <<err, failures>>
    BY <1>5, <2>1, GotoTypes
  <2>3. CallsOK' /\ WindowsOK'
    BY <1>1, <1>2, <1>5, <2>2, SameWindows DEF CallsOK, TypeOK
  <2>4. ~expired /\ err[c] = "none"
    BY <1>1, <1>5 DEF NoneExpired, TypeOK
  <2>5. p = phase \/ (p # "done" /\ p \in Busy)
    <3>1. "done" \notin Busy
      BY PointsByPhase
    <3>. QED
      BY <3>1
  <2>6. Moves(c)
    BY <1>1, <1>5, <2>2, <2>4, <2>5, PointsByPhase DEF Moves, Apart, Passing
  <2>7. WellShown => Fits(c)
    <3>1. WellShown => p \in Busy /\ m \in PointsIn[p]
      BY <1>1, <1>5 DEF WellShown, PhaseMatches
    <3>. QED
      BY <1>1, <1>5, <2>2, <3>1, PointsByPhase DEF Fits, Passing
  <2>8. FlowOK'
    BY <1>1, <1>5, <2>5 DEF FlowOK, TypeOK, Types
  <2>. QED
    BY <2>3, <2>6, <2>7, <2>8, OneCallMoves
<1>. QED
  BY <1>3, <1>4, <1>5 DEF Fetched

\* A call throws from an inner function while no other is about to go on.
LEMMA ThrowKeeps ==
  ASSUME Inv, NEW c \in Calls, pc[c] # "idle", NEW e \in Errors \ {"none"}, Throw(c, e),
         Quiet, current = c => e # "cancelled", handling' = FALSE,
         UNCHANGED <<flow, mine, open>>
  PROVE  Keeps
<1>. USE DEF Inv, flow
<1>1. /\ pc' \in [Calls -> Points] /\ err' \in [Calls -> Errors]
      /\ failures' \in [Calls -> 0..MaxPollFailures]
      /\ pc'[c] = "throw" /\ err'[c] = e /\ failures'[c] = 0
      /\ \A d \in Calls : d # c => /\ pc'[d] = pc[d]
                                   /\ err'[d] = err[d]
                                   /\ failures'[d] = failures[d]
  BY ThrowTypes
<1>2. CallsOK'
  <2>1. ASSUME NEW d \in Calls
        PROVE  (err'[d] # "none" <=> pc'[d] = "throw") /\ (failures'[d] # 0 => pc'[d] \in Polling)
    BY <1>1 DEF TypeOK
  <2>. QED
    BY <1>1, <2>1 DEF CallsOK
<1>3. Moves(c)
  BY <1>1 DEF Moves, Passing, Quiet, Ready
<1>4. WellShown => Fits(c)
  BY <1>1, CurrentPoint DEF Fits, Passing
<1>5. FlowOK' /\ WindowsOK'
  BY SameWindows DEF FlowOK, TypeOK, Types
<1>. QED
  BY <1>2, <1>3, <1>4, <1>5, OneCallMoves

\* The current call goes on to another point of its phase.
LEMMA OnwardKeeps ==
  ASSUME Inv, NEW c \in Calls, NEW m \in Points \ {"idle", "throw"}, NEW n \in 0..MaxPollFailures,
         current = c, pc[c] \notin {"idle", "throw"}, c \notin Connects, Quiet,
         WellShown => m \in PointsIn[phase],
         pc' = [pc EXCEPT ![c] = m], failures' = [failures EXCEPT ![c] = n],
         n # 0 => m \in Polling,
         handling' = FALSE, UNCHANGED <<flow, err, mine, open>>
  PROVE  Keeps
<1>. USE DEF Inv, flow
<1>1. CallsOK'
  BY DEF CallsOK, TypeOK, Types
<1>2. ~expired /\ err[c] = "none" /\ \A d \in Calls : pc[d] # "throw"
  BY DEF NoneExpired, TypeOK, Quiet, Ready
<1>3. Moves(c)
  BY <1>2 DEF Moves, TypeOK, Types
<1>4. WellShown => Fits(c)
  BY CurrentPoint DEF Fits, TypeOK, Types
<1>5. FlowOK' /\ WindowsOK'
  BY SameWindows DEF FlowOK, TypeOK, Types
<1>. QED
  BY <1>1, <1>3, <1>4, <1>5, OneCallMoves

-------------------------------------------------------------------------------
(* One lemma for each group of actions.                                    *)

\* A call that polls is a start.
LEMMA PollsAreStarts ==
  ASSUME Inv, NEW c \in Calls, pc[c] \in Delays \cup {"pollSession", "pollJob", "complete"}
  PROVE  c \notin Connects
BY PointsByPhase DEF Inv, Apart, Delays

LEMMA PollFailsKeeps ==
  ASSUME Inv, NEW c \in Calls,
         NEW l \in {"pollSession", "pollJob"}, NEW r \in {"retrySession", "retryJob"},
         l = "pollSession" <=> r = "retrySession", PollFails(c, l, r)
  PROVE  Keeps
<1>1. pc[c] = l /\ Quiet /\ handling' = FALSE /\ UNCHANGED <<flow, mine, open>>
  BY DEF PollFails, Task
<1>2. CASE current # c /\ Throw(c, "cancelled")
  BY <1>1, <1>2, ThrowKeeps DEF Errors
<1>3. CASE Throw(c, "error")
  BY <1>1, <1>3, ThrowKeeps DEF Errors
<1>4. CASE /\ current = c /\ failures[c] < MaxPollFailures
           /\ pc' = [pc EXCEPT ![c] = r]
           /\ failures' = [failures EXCEPT ![c] = @ + 1]
           /\ UNCHANGED err
  <2>1. WellShown => r \in PointsIn[phase]
    BY <1>1, <1>4, CurrentPoint, PointsByPhase
  <2>2. r \in Points \ {"idle", "throw"} /\ r \in Polling
    BY PointsList DEF Polling
  <2>3. failures[c] + 1 \in 0..MaxPollFailures
    BY <1>4, FlowAssumption DEF Inv, TypeOK, Types
  <2>. QED
    BY <1>1, <1>4, <2>1, <2>2, <2>3, PollsAreStarts, OnwardKeeps
<1>. QED
  BY <1>2, <1>3, <1>4 DEF PollFails

LEMMA PollAnsweredKeeps ==
  ASSUME Inv, NEW c \in Calls, current = c,
         NEW l \in {"pollSession", "pollJob"},
         NEW m \in {"waitSession", "picked", "waitJob", "complete"},
         l = "pollSession" <=> m \in {"waitSession", "picked"}, PollAnswered(c, l, m)
  PROVE  Keeps
<1>1. /\ pc[c] = l /\ Quiet /\ handling' = FALSE /\ UNCHANGED <<flow, err, mine, open>>
      /\ pc' = [pc EXCEPT ![c] = m] /\ failures' = [failures EXCEPT ![c] = 0]
  BY DEF PollAnswered, Task
<1>2. WellShown => m \in PointsIn[phase]
  BY <1>1, CurrentPoint, PointsByPhase
<1>3. m \in Points \ {"idle", "throw"} /\ 0 \in 0..MaxPollFailures
  BY PointsList, FlowAssumption
<1>. QED
  BY <1>1, <1>2, <1>3, PollsAreStarts, OnwardKeeps

LEMMA PollThrowsKeeps ==
  ASSUME Inv, NEW c \in Calls, NEW l \in {"pollSession", "pollJob"},
         NEW e \in Errors \ {"none"}, current = c => e # "cancelled",
         PollThrows(c, l, e)
  PROVE  Keeps
BY ThrowKeeps DEF PollThrows, Task

LEMMA PollsKeep ==
  ASSUME Inv, NEW c \in Calls, NEW a, pollSession(c, a) \/ pollJob(c, a)
  PROVE  Keeps
<1>1. CASE pollSession(c, a)
  <2>1. CASE PollFails(c, "pollSession", "retrySession")
    BY <2>1, PollFailsKeeps
  <2>2. CASE Bail(c, "pollSession")
    BY <2>2, PollThrowsKeeps DEF Bail, Errors
  <2>3. CASE current = c /\ PollAnswered(c, "pollSession", "waitSession")
    BY <2>3, PollAnsweredKeeps
  <2>4. CASE current = c /\ PollAnswered(c, "pollSession", "picked")
    BY <2>4, PollAnsweredKeeps
  <2>5. CASE PollThrows(c, "pollSession", "expired")
    BY <2>5, PollThrowsKeeps DEF Errors
  <2>. QED
    BY <1>1, <2>1, <2>2, <2>3, <2>4, <2>5 DEF pollSession
<1>2. CASE pollJob(c, a)
  <2>1. CASE PollFails(c, "pollJob", "retryJob")
    BY <2>1, PollFailsKeeps
  <2>2. CASE Bail(c, "pollJob")
    BY <2>2, PollThrowsKeeps DEF Bail, Errors
  <2>3. CASE current = c /\ PollAnswered(c, "pollJob", "waitJob")
    BY <2>3, PollAnsweredKeeps
  <2>4. CASE current = c /\ PollAnswered(c, "pollJob", "complete")
    BY <2>4, PollAnsweredKeeps
  <2>5. CASE PollThrows(c, "pollJob", "error")
    BY <2>5, PollThrowsKeeps DEF Errors
  <2>. QED
    BY <1>2, <2>1, <2>2, <2>3, <2>4, <2>5 DEF pollJob, JobAnswered
<1>. QED
  BY <1>1, <1>2

LEMMA FetchesKeep ==
  ASSUME Inv, NEW c \in Calls, NEW a \in {"ok", "failed"},
         ConsentAnswer(c, a) \/ SessionAnswer(c, a) \/ ImportAnswer(c, a)
  PROVE  Keeps
<1>1. CASE ConsentAnswer(c, a)
  <2>1. \A q \in Busy : "consent" \in PointsIn[q] => "oauth" \in PointsIn[q]
    BY PointsByPhase
  <2>2. Fetched(c, "consent", a, TRUE, "oauth", phase)
    BY <1>1 DEF ConsentAnswer
  <2>. QED
    BY <2>1, <2>2, FetchedKeeps
<1>2. CASE SessionAnswer(c, a)
  <2>1. "picking" \in Busy /\ "pollSession" \in PointsIn["picking"]
    BY PointsByPhase
  <2>2. Fetched(c, "session", a, TRUE, "pollSession", "picking")
    BY <1>2 DEF SessionAnswer
  <2>. QED
    BY <2>1, <2>2, FetchedKeeps
<1>3. CASE ImportAnswer(c, a)
  <2>1. \A q \in Busy : "import" \in PointsIn[q] => "pollJob" \in PointsIn[q]
    BY PointsByPhase
  <2>2. Fetched(c, "import", a, FALSE, "pollJob", phase)
    BY <1>3 DEF ImportAnswer
  <2>. QED
    BY <2>1, <2>2, FetchedKeeps
<1>. QED
  BY <1>1, <1>2, <1>3

LEMMA TimerKeeps ==
  ASSUME Inv, NEW c \in Calls, Timer(c)
  PROVE  Keeps
<1>1. CASE OAuthTick(c)
  BY <1>1, ThrowKeeps DEF OAuthTick, Task, Errors
<1>2. CASE OAuthTimeout(c)
  BY <1>2, ThrowKeeps DEF OAuthTimeout, Task, Errors
<1>3. CASE DelayEnds(c)
  <2>1. /\ pc[c] \in Delays /\ Quiet /\ handling' = FALSE /\ UNCHANGED <<flow, mine, open>>
    BY <1>3 DEF DelayEnds, Task
  <2>2. CASE current = c
    <3>1. pc' = [pc EXCEPT ![c] = AfterDelay(pc[c])] /\ UNCHANGED <<err, failures>>
      BY <1>3, <2>2 DEF DelayEnds, Goto
    <3>2. WellShown => AfterDelay(pc[c]) \in PointsIn[phase]
      BY <2>1, <2>2, CurrentPoint, PointsByPhase DEF AfterDelay, Delays
    <3>3. AfterDelay(pc[c]) \in Points \ {"idle", "throw"} /\ AfterDelay(pc[c]) \in Polling
      BY <2>1, PointsList DEF AfterDelay, Polling
    <3>4. failures[c] \in 0..MaxPollFailures /\ failures' = [failures EXCEPT ![c] = failures[c]]
      BY <3>1 DEF Inv, TypeOK, Types
    <3>5. pc[c] \notin {"idle", "throw"}
      BY <2>1 DEF Delays
    <3>. QED
      BY <2>1, <2>2, <3>1, <3>2, <3>3, <3>4, <3>5, PollsAreStarts, OnwardKeeps
  <2>3. CASE current # c
    BY <1>3, <2>1, <2>3, ThrowKeeps DEF DelayEnds, Errors, Delays
  <2>. QED
    BY <2>2, <2>3
<1>. QED
  BY <1>1, <1>2, <1>3 DEF Timer

LEMMA ContinuationKeeps ==
  ASSUME Inv, NEW c \in Calls, Continuation(c)
  PROVE  Keeps
<1>. USE DEF Inv
<1>1. CASE Granted(c)
  <2>1. /\ pc[c] = "granted" /\ handling' = FALSE /\ closePopup /\ Settle(c)
        /\ phase' = "idle" /\ refused' = FALSE
        /\ UNCHANGED <<current, expired, result>>
    BY <1>1 DEF Granted, Continue
  <2>2. ~expired
    BY <2>1 DEF NoneExpired, Passing
  <2>3. /\ CallsOK' /\ pc'[c] = "idle" /\ err'[c] = "none"
        /\ \A d \in Calls : d # c => pc'[d] = pc[d] /\ err'[d] = err[d]
    BY <2>1, SettleTypes DEF CallsOK, TypeOK, Polling
  <2>4. WindowsOK'
    BY <2>1, ClosePopupWindows
  <2>5. FlowOK' /\ Moves(c)
    BY <2>1, <2>2, <2>3 DEF FlowOK, TypeOK, Types, Moves, Passing
  <2>6. WellShown => Fits(c)
    BY <2>1, <2>3, PointsByPhase DEF WellShown, ReadyIsCurrent, Fits, Passing
  <2>. QED
    BY <2>3, <2>4, <2>5, <2>6, OneCallMoves
<1>2. CASE Picked(c)
  <2>1. /\ pc[c] = "picked" /\ handling' = FALSE /\ closePopup /\ Goto(c, "import")
        /\ phase' = "importing"
        /\ UNCHANGED <<current, refused, expired, result>>
    BY <1>2 DEF Picked, Continue
  <2>2. ~expired /\ err[c] = "none"
    BY <2>1 DEF NoneExpired, Passing, TypeOK
  <2>3. "import" \in Points
    BY PointsList
  <2>4. /\ CallsOK' /\ pc'[c] = "import" /\ UNCHANGED err
        /\ \A d \in Calls : d # c => pc'[d] = pc[d]
    BY <2>1, <2>3, GotoTypes DEF CallsOK, TypeOK, Polling
  <2>5. WindowsOK'
    BY <2>1, ClosePopupWindows
  <2>6. c \notin Connects
    BY <2>1, PointsByPhase DEF Apart
  <2>7. FlowOK' /\ Moves(c)
    BY <2>1, <2>2, <2>4, <2>6, PointsByPhase DEF FlowOK, TypeOK, Types, Moves, Passing
  <2>8. WellShown => Fits(c)
    BY <2>1, <2>4, PointsByPhase DEF WellShown, ReadyIsCurrent, Fits, Passing
  <2>. QED
    BY <2>4, <2>5, <2>7, <2>8, OneCallMoves
<1>3. CASE Complete(c)
  <2>1. /\ pc[c] = "complete" /\ handling' = FALSE /\ Settle(c)
        /\ phase' = "done" /\ result' = c
        /\ UNCHANGED <<current, refused, expired, popup, mine, open>>
    BY <1>3 DEF Complete, Continue
  <2>2. ~expired
    BY <2>1 DEF NoneExpired, Passing
  <2>3. /\ CallsOK' /\ pc'[c] = "idle" /\ err'[c] = "none"
        /\ \A d \in Calls : d # c => pc'[d] = pc[d] /\ err'[d] = err[d]
    BY <2>1, SettleTypes DEF CallsOK, TypeOK, Polling
  <2>4. c \in Starts
    BY <2>1, PollsAreStarts DEF Calls
  <2>5. FlowOK' /\ WindowsOK' /\ Moves(c)
    BY <2>1, <2>2, <2>3, <2>4, SameWindows DEF FlowOK, TypeOK, Types, Moves, Passing
  <2>6. WellShown => Fits(c)
    BY <2>1, <2>3, PointsByPhase DEF WellShown, ReadyIsCurrent, Fits, Passing
  <2>. QED
    BY <2>3, <2>5, <2>6, OneCallMoves
<1>4. CASE Catch(c)
  <2>1. /\ pc[c] = "throw" /\ handling' = FALSE /\ Fail(c, err[c])
        /\ UNCHANGED <<current, refused, result>>
    BY <1>4 DEF Catch, Continue
  <2>2. err[c] \in Errors \ {"none"}
    BY <2>1 DEF TypeOK, Types
  <2>3. WellShown => (current = c => err[c] # "cancelled")
    BY <2>1 DEF WellShown, ReadyIsCurrent
  <2>4. pc[c] \notin Polling
    BY <2>1 DEF Polling
  <2>. QED
    BY <2>1, <2>2, <2>3, <2>4, FailKeeps
<1>. QED
  BY <1>1, <1>2, <1>3, <1>4 DEF Continuation

\* A click handler may run again while continuations wait, all of them of
\* calls it cancelled.
LEMMA HostMayCallReady ==
  ASSUME WellShown, ~Reentrant, HostMayCall
  PROVE  \A c \in Calls : pc[c] \notin Passing
BY DEF WellShown, ReadyIsCurrent, HostMayCall, Quiet, Ready, Passing

HostKept == Inv' /\ (WellShown /\ ~Reentrant => WellShown')

LEMMA BeginKeeps ==
  ASSUME Inv, NEW c \in Calls, NEW p \in Busy, NEW l \in Points \ {"idle", "throw"},
         l \in PointsIn[p], c \in Connects => p = "connecting", l \notin Passing \cup Polling,
         HostCalls(c), Begin(c, p, l) \/ FailAtOnce(c), result' \in {result, NoCall}
  PROVE  HostKept
<1>. USE DEF Inv
<1>1. /\ pc[c] = "idle" /\ current' = c /\ UNCHANGED refused
      /\ handling' \in BOOLEAN /\ HostMayCall
  BY DEF HostCalls, StillInHandler
<1>2. /\ pc' \in [Calls -> Points] /\ pc'[c] \in {"idle", l}
      /\ \A d \in Calls : d # c => pc'[d] = pc[d]
      /\ UNCHANGED <<err, failures>>
      /\ expired' = FALSE
      /\ phase' = IF pc'[c] = "idle" THEN "error" ELSE p
  <2>1. CASE openBlank(c) /\ phase' = p /\ expired' = FALSE /\ Goto(c, l)
    BY <2>1, GotoTypes
  <2>2. CASE FailAtOnce(c)
    BY <1>1, <2>2 DEF FailAtOnce, TypeOK, Types
  <2>. QED
    BY <2>1, <2>2 DEF Begin
<1>3. WindowsOK'
  BY OpenWindows, ClosePopupWindows DEF Begin, FailAtOnce
<1>4. CallsOK'
  BY <1>1, <1>2 DEF CallsOK, TypeOK, Types, Polling
<1>5. FlowOK' /\ phase' # "done"
  <2>1. phase' \in Busy \cup {"error"} /\ "done" \notin Busy
    BY <1>2, PointsByPhase
  <2>. QED
    BY <1>1, <1>2, <2>1 DEF FlowOK, TypeOK, Types
<1>6. TypeOK'
  BY <1>3, <1>4, <1>5 DEF TypeOK, Types, CallsOK, WindowsOK, FlowOK
<1>7. Apart'
  <2>1. Connects \subseteq Calls
    BY DEF Calls
  <2>. QED
    BY <1>2, <1>5, <2>1 DEF Apart
<1>8. NoneExpired' /\ ExpiredIsError'
  BY <1>1, <1>2 DEF NoneExpired, ExpiredIsError, Passing
<1>9. ASSUME WellShown, ~Reentrant PROVE WellShown'
  <2>1. \A d \in Calls : pc[d] \notin Passing
    BY <1>1, <1>9, HostMayCallReady
  <2>2. ReadyIsCurrent'
    BY <1>1, <1>2, <1>9, <2>1 DEF WellShown, ReadyIsCurrent, Passing
  <2>3. PhaseMatches' /\ DoneIsCurrent'
    BY <1>1, <1>2, <1>5, PointsByPhase, FlowAssumption DEF PhaseMatches, DoneIsCurrent
  <2>. QED
    BY <2>2, <2>3 DEF WellShown
<1>. QED
  BY <1>6, <1>7, <1>8, <1>9 DEF HostKept

LEMMA CancelKeeps ==
  ASSUME Inv, cancel
  PROVE  HostKept
<1>. USE DEF Inv
<1>1. /\ current' = NoCall /\ clearTimers /\ closePopup
      /\ UNCHANGED <<refused, expired, result>>
      /\ handling' \in BOOLEAN /\ HostMayCall
  BY DEF cancel, CancelTo, StillInHandler
<1>2. phase' = IF phase \in {"done", "error"} THEN phase ELSE "idle"
  BY DEF cancel, CancelTo
<1>3. ASSUME NEW c \in Calls
      PROVE  /\ pc'[c] = IF pc[c] \in Delays THEN "throw" ELSE pc[c]
             /\ err'[c] = IF pc[c] \in Delays THEN "cancelled" ELSE err[c]
             /\ failures'[c] = IF pc[c] \in Delays THEN 0 ELSE failures[c]
  BY <1>1 DEF clearTimers
<1>4. CallsOK'
  <2>1. pc' \in [Calls -> Points]
    BY <1>1, <1>3, PointsList DEF clearTimers, TypeOK, Types
  <2>2. err' \in [Calls -> Errors]
    BY <1>1, <1>3 DEF clearTimers, TypeOK, Types, Errors
  <2>3. failures' \in [Calls -> 0..MaxPollFailures]
    BY <1>1, <1>3, FlowAssumption DEF clearTimers, TypeOK, Types
  <2>4. \A c \in Calls : (err'[c] # "none" <=> pc'[c] = "throw")
                         /\ (failures'[c] # 0 => pc'[c] \in Polling)
    BY <1>3 DEF TypeOK
  <2>. QED
    BY <2>1, <2>2, <2>3, <2>4 DEF CallsOK
<1>5. WindowsOK'
  BY <1>1, ClosePopupWindows
<1>6. FlowOK'
  BY <1>1, <1>2 DEF FlowOK, TypeOK, Types
<1>7. TypeOK'
  BY <1>4, <1>5, <1>6 DEF TypeOK, Types, CallsOK, WindowsOK, FlowOK
<1>8. \A c \in Calls : /\ current' # c
                       /\ pc'[c] \in Passing => pc[c] \in Passing
                       /\ err'[c] = "expired" => err[c] = "expired"
  BY <1>1, <1>3, FlowAssumption DEF Passing
<1>9. Apart'
  <2>1. \A c \in Connects : c \in Calls /\ pc'[c] \in {"idle", "throw"} \cup PointsIn["connecting"]
    BY <1>3 DEF Apart, Calls
  <2>. QED
    BY <1>1, <1>2, <2>1 DEF Apart
<1>10. NoneExpired' /\ ExpiredIsError'
  BY <1>1, <1>2, <1>8 DEF NoneExpired, ExpiredIsError
<1>11. ASSUME WellShown, ~Reentrant PROVE WellShown'
  <2>1. \A c \in Calls : pc'[c] \notin Passing
    BY <1>1, <1>8, <1>11, HostMayCallReady
  <2>2. ReadyIsCurrent'
    BY <1>8, <2>1 DEF ReadyIsCurrent
  <2>3. PhaseMatches' /\ DoneIsCurrent'
    BY <1>1, <1>2, <1>8, <1>11, PointsByPhase, FlowAssumption DEF WellShown, PhaseMatches, DoneIsCurrent
  <2>. QED
    BY <2>2, <2>3 DEF WellShown
<1>. QED
  BY <1>7, <1>9, <1>10, <1>11 DEF HostKept

LEMMA HostKeeps ==
  ASSUME Inv, Host
  PROVE  HostKept
<1>1. CASE \E c \in Connects : connect(c)
  <2>1. PICK c \in Connects : connect(c)
    BY <1>1
  <2>2. c \in Calls
    BY DEF Calls
  <2>3. /\ "connecting" \in Busy /\ "consent" \in PointsIn["connecting"]
        /\ "consent" \in Points \ {"idle", "throw"}
        /\ "consent" \notin Passing \cup Polling
    BY PointsByPhase, PointsList DEF Passing, Polling
  <2>. QED
    BY <2>1, <2>2, <2>3, BeginKeeps DEF connect
<1>2. CASE \E c \in Starts : start(c)
  <2>1. PICK c \in Starts : start(c)
    BY <1>2
  <2>2. c \in Calls /\ c \notin Connects
    BY FlowAssumption DEF Calls
  <2>3. /\ "creating" \in Busy /\ "session" \in PointsIn["creating"]
        /\ "session" \in Points \ {"idle", "throw"}
        /\ "session" \notin Passing \cup Polling
    BY PointsByPhase, PointsList DEF Passing, Polling
  <2>. QED
    BY <2>1, <2>2, <2>3, BeginKeeps DEF start
<1>. QED
  BY <1>1, <1>2, CancelKeeps DEF Host

LEMMA MessageKeeps ==
  ASSUME Inv, NEW m \in {"success", "failure", "other"}, Message(m)
  PROVE  Keeps
<1>. USE DEF Inv
<1>1. /\ handling' = FALSE /\ UNCHANGED <<current, phase, expired, refused, result, popup, failures, mine, open>>
      /\ \A c \in Calls : pc[c] \notin Ready
  BY DEF Message, flow, Quiet
<1>2. ASSUME NEW c \in Calls
      PROVE  /\ pc'[c] = IF pc[c] # "oauth" THEN pc[c]
                         ELSE IF current # c THEN "throw"
                         ELSE [success |-> "granted", failure |-> "throw", other |-> "oauth"][m]
             /\ err'[c] = IF pc[c] = "oauth" /\ pc'[c] = "throw"
                          THEN IF current = c THEN "error" ELSE "cancelled"
                          ELSE err[c]
  BY DEF Message
<1>3. \A c \in Calls :
        \/ pc'[c] = pc[c] /\ err'[c] = err[c]
        \/ /\ pc[c] = "oauth" /\ pc'[c] = "throw"
           /\ err'[c] = IF current = c THEN "error" ELSE "cancelled"
        \/ /\ pc[c] = "oauth" /\ current = c
           /\ pc'[c] \in {"granted", "oauth"} /\ err'[c] = err[c]
  <2>1. ASSUME NEW c \in Calls, pc[c] # "oauth" PROVE pc'[c] = pc[c] /\ err'[c] = err[c]
    BY <1>2, <2>1
  <2>2. ASSUME NEW c \in Calls, pc[c] = "oauth", current # c
        PROVE  pc'[c] = "throw" /\ err'[c] = "cancelled"
    BY <1>2, <2>2
  <2>3. ASSUME NEW c \in Calls, pc[c] = "oauth", current = c
        PROVE  \/ pc'[c] = "throw" /\ err'[c] = "error"
               \/ pc'[c] \in {"granted", "oauth"} /\ err'[c] = err[c]
    BY <1>2, <2>3
  <2>. QED
    BY <2>1, <2>2, <2>3
<1>4. pc' = [c \in Calls |-> pc'[c]] /\ err' = [c \in Calls |-> err'[c]]
  BY DEF Message
<1>5. CallsOK'
  <2>1. pc' \in [Calls -> Points]
    BY <1>3, <1>4, PointsList DEF TypeOK, Types
  <2>2. err' \in [Calls -> Errors]
    BY <1>3, <1>4 DEF TypeOK, Types, Errors
  <2>3. ASSUME NEW c \in Calls
        PROVE  (err'[c] # "none" <=> pc'[c] = "throw") /\ (failures'[c] # 0 => pc'[c] \in Polling)
    BY <1>1, <1>3 DEF TypeOK, Polling
  <2>. QED
    BY <1>1, <2>1, <2>2, <2>3 DEF CallsOK, TypeOK, Types
<1>6. TypeOK'
  BY <1>1, <1>5 DEF CallsOK, TypeOK, Types
<1>7. Apart'
  <2>1. Connects \subseteq Calls
    BY DEF Calls
  <2>. QED
    BY <1>1, <1>3, <2>1, PointsByPhase DEF Apart
<1>8. NoneExpired' /\ ExpiredIsError'
  BY <1>1, <1>3 DEF NoneExpired, ExpiredIsError, TypeOK, Ready, Passing
<1>9. ASSUME WellShown PROVE WellShown'
  <2>. USE <1>9 DEF WellShown
  <2>1. ReadyIsCurrent'
    BY <1>1, <1>3 DEF ReadyIsCurrent, Ready, Passing
  <2>2. PhaseMatches'
    BY <1>1, <1>3, PointsByPhase DEF PhaseMatches, TypeOK, Types
  <2>3. DoneIsCurrent'
    BY <1>1 DEF DoneIsCurrent
  <2>. QED
    BY <2>1, <2>2, <2>3
<1>. QED
  BY <1>6, <1>7, <1>8, <1>9 DEF Keeps

LEMMA OtherKeeps ==
  ASSUME Inv, StatusAnswer \/ \E n \in Windows : UserCloses(n)
  PROVE  Keeps
<1>. USE DEF Inv
<1>1. /\ UNCHANGED <<current, phase, expired, result, pc, err, failures>>
      /\ refused' \in BOOLEAN /\ handling' \in {handling, FALSE}
  BY DEF StatusAnswer, UserCloses, calls, TypeOK, Types
<1>2. WindowsOK'
  <2>1. CASE StatusAnswer
    BY <2>1, SameWindows DEF StatusAnswer, calls
  <2>2. CASE \E n \in Windows : UserCloses(n)
    BY <2>2 DEF UserCloses, Gone, WindowsOK, TypeOK, Types
  <2>. QED
    BY <2>1, <2>2
<1>3. TypeOK'
  BY <1>1, <1>2 DEF WindowsOK, TypeOK, Types
<1>4. Apart' /\ NoneExpired' /\ ExpiredIsError'
  BY <1>1 DEF Apart, NoneExpired, ExpiredIsError
<1>5. WellShown => WellShown'
  BY <1>1 DEF WellShown, ReadyIsCurrent, PhaseMatches, DoneIsCurrent
<1>. QED
  BY <1>3, <1>4, <1>5 DEF Keeps

\* A step of the browser, whatever its requests bring, keeps the invariant; and
\* what is shown stays right, if the host does not call in between.
LEMMA NextKeeps == Inv /\ [Next]_vars => HostKept
<1>. SUFFICES ASSUME Inv, [Next]_vars PROVE HostKept
  OBVIOUS
<1>1. Keeps => HostKept
  BY DEF Keeps, HostKept
<1>2. CASE Host
  BY <1>2, HostKeeps
<1>3. ASSUME NEW c \in Calls, Continuation(c) PROVE Keeps
  BY <1>3, ContinuationKeeps
<1>4. ASSUME NEW c \in Calls, Requested(c) PROVE Keeps
  BY <1>4, FetchesKeep, PollsKeep DEF Requested
<1>5. ASSUME NEW c \in Calls, Timer(c) PROVE Keeps
  BY <1>5, TimerKeeps
<1>6. ASSUME NEW m \in {"success", "failure", "other"}, Message(m) PROVE Keeps
  BY <1>6, MessageKeeps
<1>7. CASE StatusAnswer \/ \E n \in Windows : UserCloses(n)
  BY <1>1, <1>7, OtherKeeps
<1>8. CASE UNCHANGED vars
  BY <1>1, <1>8 DEF vars, flow, calls, Keeps, Inv, TypeOK, Types, Apart, NoneExpired, ExpiredIsError,
              WellShown, ReadyIsCurrent, PhaseMatches, DoneIsCurrent
<1>. QED
  BY <1>1, <1>2, <1>3, <1>4, <1>5, <1>6, <1>7, <1>8 DEF Next

LEMMA NextKeepsInv == Inv /\ [Next]_vars => Inv'
BY NextKeeps DEF HostKept

-------------------------------------------------------------------------------
\* The invariant holds in every state the browser flow reaches, whatever its
\* requests bring and in whatever order, and whenever host code calls.
THEOREM FlowInvariant == Spec => []Inv
<1>1. Init => Inv
  BY InitInv
<1>2. Inv /\ [Next]_vars => Inv'
  BY NextKeepsInv
<1>. QED
  BY <1>1, <1>2, PTL DEF Spec

\* Every variable keeps its type, and no reference to a window outlives it.
THEOREM FlowTypeCorrect == Spec => []TypeOK
<1>1. Inv => TypeOK
  BY DEF Inv
<1>. QED
  BY <1>1, FlowInvariant, PTL

\* expired is shown only with its error (flow.ts, handleError and cancel).
THEOREM ExpiredOnlyInError == Spec => []ExpiredIsError
<1>1. Inv => ExpiredIsError
  BY DEF Inv
<1>. QED
  BY <1>1, FlowInvariant, PTL

\* What is shown is about the current call, for host code that does not call
\* from listeners or between continuations.
THEOREM ShownInvariant == ~Reentrant => (Spec => []WellShown)
<1>. SUFFICES ASSUME ~Reentrant PROVE Spec => []WellShown
  OBVIOUS
<1>1. Init => WellShown
  BY InitInv
<1>2. Inv /\ WellShown /\ [Next]_vars => WellShown'
  BY NextKeeps DEF HostKept
<1>. QED
  BY <1>1, <1>2, FlowInvariant, PTL DEF Spec

\* The phase on the page is where the current call is (flow.ts, setState).
THEOREM PhaseIsCurrentCalls == ~Reentrant => (Spec => []PhaseMatches)
<1>1. WellShown => PhaseMatches
  BY DEF WellShown
<1>. QED
  BY <1>1, ShownInvariant, PTL

\* A result is shown only for the call that got it (flow.ts:211).
THEOREM ResultIsCurrentCalls == ~Reentrant => (Spec => []DoneIsCurrent)
<1>1. WellShown => DoneIsCurrent
  BY DEF WellShown
<1>. QED
  BY <1>1, ShownInvariant, PTL

\* What a call that is not current can still do.
LEMMA StaleStep ==
  ASSUME Inv, WellShown, [Next]_vars,
         NEW c \in Calls, pc'[c] # pc[c], current # c, UNCHANGED current
  PROVE  UNCHANGED <<phase, expired, refused, result>>
<1>. DEFINE Shown == UNCHANGED <<phase, expired, refused, result>>
<1>. TypeOK
  BY DEF Inv
<1>0. ASSUME NEW d \in Calls, \A x \in Calls \ {d} : pc'[x] = pc[x] PROVE d = c
  BY <1>0
<1>1. CASE Host
  <2>1. ASSUME NEW d \in Calls, connect(d) \/ start(d) PROVE FALSE
    <3>1. current = d
      BY <2>1 DEF connect, start, HostCalls
    <3>2. \A x \in Calls \ {d} : pc'[x] = pc[x]
      BY <2>1 DEF connect, start, Begin, FailAtOnce, Goto, TypeOK, Types
    <3>. QED
      BY <1>0, <3>1, <3>2
  <2>2. ASSUME cancel PROVE Shown
    <3>1. current = NoCall /\ UNCHANGED <<refused, expired, result>>
      BY <2>2 DEF cancel, CancelTo
    <3>2. phase \in {"idle", "done", "error"}
      BY <3>1 DEF WellShown, PhaseMatches, TypeOK, Types
    <3>. QED
      BY <2>2, <3>1, <3>2 DEF cancel, CancelTo
  <2>. QED
    BY <1>1, <2>1, <2>2 DEF Host, Calls
<1>2. ASSUME NEW d \in Calls, Continuation(d) PROVE Shown
  <2>1. d = c
    BY <1>0, <1>2 DEF Continuation, Granted, Picked, Complete, Catch, Fail, Goto, Settle,
                      TypeOK, Types
  <2>2. ~Granted(d) /\ ~Picked(d) /\ ~Complete(d)
    BY <2>1 DEF Granted, Picked, Complete, Continue, WellShown, ReadyIsCurrent, Passing
  <2>. QED
    BY <1>2, <2>1, <2>2 DEF Continuation, Catch, Fail, handleError
<1>3. ASSUME NEW d \in Calls, NEW l, NEW a, NEW w, NEW m, NEW p, Fetched(d, l, a, w, m, p)
      PROVE  Shown
  <2>1. d = c
    BY <1>0, <1>3 DEF Fetched, Fail, Goto, Settle, TypeOK, Types
  <2>. QED
    BY <1>3, <2>1 DEF Fetched, Fail, handleError
<1>4. ASSUME NEW d \in Calls, Requested(d) PROVE Shown
  <2>1. ASSUME NEW a, ConsentAnswer(d, a) \/ SessionAnswer(d, a) \/ ImportAnswer(d, a)
        PROVE  Shown
    BY <1>3, <2>1 DEF ConsentAnswer, SessionAnswer, ImportAnswer
  <2>2. ASSUME NEW a, pollSession(d, a) \/ pollJob(d, a) PROVE Shown
    BY <2>2 DEF pollSession, pollJob, JobAnswered, Bail, PollFails, PollAnswered, PollThrows, flow
  <2>. QED
    BY <1>4, <2>1, <2>2 DEF Requested
<1>5. ASSUME NEW d \in Calls, Timer(d) PROVE Shown
  BY <1>5 DEF Timer, DelayEnds, OAuthTick, OAuthTimeout, flow
<1>6. ASSUME NEW m, Message(m) PROVE Shown
  BY <1>6 DEF Message, flow
<1>7. ASSUME StatusAnswer \/ (\E n \in Windows : UserCloses(n)) \/ UNCHANGED vars PROVE FALSE
  BY <1>7 DEF StatusAnswer, UserCloses, vars, calls
<1>. QED
  BY <1>1, <1>2, <1>4, <1>5, <1>6, <1>7 DEF Next

\* A superseded or cancelled call changes nothing the page shows, wherever it
\* was when it became stale (flow.ts, handleError).
THEOREM StaleShowsNothing == ~Reentrant => (Spec => StaleLeavesShown)
<1>1. Inv /\ WellShown /\ [Next]_vars =>
        [\A c \in Calls :
           pc'[c] # pc[c] /\ current # c /\ UNCHANGED current
             => UNCHANGED <<phase, expired, refused, result>>]_vars
  BY StaleStep
<1>. QED
  BY <1>1, FlowInvariant, ShownInvariant, PTL DEF Spec, StaleLeavesShown
===============================================================================
