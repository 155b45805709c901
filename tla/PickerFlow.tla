------------------------------ MODULE PickerFlow ------------------------------
(***************************************************************************)
(* GooglePhotosFlow of client/src/flow.ts: the browser side that connects, *)
(* lets the user pick and follows the import. One JavaScript thread runs   *)
(* its tasks (a fetch that answers, a timer, a message, a click) to their  *)
(* end, and after each the continuations it made ready. Several calls of   *)
(* connect and start may be under way: each new one, and cancel, makes the *)
(* earlier ones stale, and they find out when they next run.               *)
(*                                                                         *)
(* runId is modelled by the call that is current. A request may be         *)
(* answered in any way its handler has; which way it is the server's.      *)
(***************************************************************************)
EXTENDS Naturals

CONSTANTS
  Connects, Starts,  \* calls of connect() and start() that may overlap
  MaxPollFailures,   \* MAX_POLL_FAILURES
  Reentrant,         \* host code may also call from a listener or a promise
  NoCall, NoWindow

Calls == Connects \cup Starts

ASSUME FlowAssumption ==
  /\ Connects \cap Starts = {}
  /\ NoCall \notin Calls
  /\ MaxPollFailures \in Nat
  /\ Reentrant \in BOOLEAN
  /\ NoWindow \notin {"oauth", "picker"}

VARIABLES
  (* the flow *)
  current,     \* the call whose myRun is runId, if any
  phase, expired,
  refused,     \* connected === false: start refuses
  result,      \* the call whose result is shown
  popup,       \* the window the flow holds, by name
  (* the calls *)
  pc,
  err,         \* what a call throws: it is on its way to the catch block
  failures,    \* failures of the pollFetch under way
  mine,        \* its win is a window that is still open
  (* the browser *)
  open,        \* the flow's windows on the screen, by name
  handling     \* a click handler still runs, with continuations waiting

flow    == <<current, phase, expired, refused, result, popup>>
calls   == <<pc, err, failures, mine>>
vars    == <<flow, calls, open, handling>>

Windows == {"oauth", "picker"}
Name(c) == IF c \in Connects THEN "oauth" ELSE "picker"

\* The awaits of connect and start, by the phase shown meanwhile. "granted",
\* "picked" and "complete" wait for no one: the awaited function has returned.
PointsIn == [connecting |-> {"consent", "oauth", "granted"},
             creating   |-> {"session"},
             picking    |-> {"pollSession", "waitSession", "retrySession", "picked"},
             importing  |-> {"import", "pollJob", "waitJob", "retryJob", "complete"}]
Busy     == DOMAIN PointsIn
Delays   == {"waitSession", "retrySession", "waitJob", "retryJob"}
Polling  == {"pollSession", "retrySession", "pollJob", "retryJob"}
Ready    == {"throw", "granted", "picked", "complete"}
Points   == {"idle", "throw"} \cup UNION {PointsIn[p] : p \in Busy}
Errors   == {"none", "error", "expired", "cancelled"}

Types ==
  /\ current   \in Calls \cup {NoCall}
  /\ phase     \in Busy \cup {"idle", "done", "error"}
  /\ expired   \in BOOLEAN
  /\ refused   \in BOOLEAN
  /\ result    \in Starts \cup {NoCall}
  /\ popup     \in Windows \cup {NoWindow}
  /\ pc        \in [Calls -> Points]
  /\ err       \in [Calls -> Errors]
  /\ failures  \in [Calls -> 0..MaxPollFailures]
  /\ mine      \in [Calls -> BOOLEAN]
  /\ open      \subseteq Windows
  /\ handling  \in BOOLEAN

\* The types; that an error, or a count of failures, is there only while it
\* matters; and that nobody holds a window that is gone.
TypeOK ==
  /\ Types
  /\ \A c \in Calls : /\ mine[c] => Name(c) \in open
                      /\ err[c] # "none" <=> pc[c] = "throw"
                      /\ failures[c] # 0 => pc[c] \in Polling
  /\ popup # NoWindow => popup \in open

Init ==
  /\ current   = NoCall
  /\ phase     = "idle"
  /\ expired   = FALSE
  /\ refused   = FALSE
  /\ result    = NoCall
  /\ popup     = NoWindow
  /\ pc        = [c \in Calls |-> "idle"]
  /\ err       = [c \in Calls |-> "none"]
  /\ failures  = [c \in Calls |-> 0]
  /\ mine      = [c \in Calls |-> FALSE]
  /\ open      = {}
  /\ handling  = FALSE

-------------------------------------------------------------------------------
Goto(c, l) ==
  /\ pc' = [pc EXCEPT ![c] = l]
  /\ UNCHANGED <<err, failures>>

\* The exception e leaves an inner function; the catch block comes next.
Throw(c, e) ==
  /\ pc'  = [pc  EXCEPT ![c] = "throw"]
  /\ err' = [err EXCEPT ![c] = e]
  /\ failures' = [failures EXCEPT ![c] = 0]

Settle(c) ==
  /\ pc'  = [pc  EXCEPT ![c] = "idle"]
  /\ err' = [err EXCEPT ![c] = "none"]
  /\ UNCHANGED failures

\* A window goes: whoever has a reference to it sees it closed.
Gone(n) ==
  /\ open' = open \ {n}
  /\ mine' = [c \in Calls |-> mine[c] /\ Name(c) # n]

\* Variant: the flow keeps its reference.
closePopupKeeps == Gone(popup) /\ UNCHANGED popup

\* The browser may refuse close().
closePopup ==
  /\ popup' = NoWindow
  /\ Gone(popup) \/ UNCHANGED <<open, mine>>

\* window.open reuses the open window of that name.
openBlank(c) ==
  /\ open' = open \cup {Name(c)}
  /\ mine' = [mine EXCEPT ![c] = TRUE]
  /\ popup' = Name(c)

\* Variant: the catch block does not look at runId.
handleErrorAlways(c, e) == phase' = "error" /\ expired' = (e = "expired")

handleError(c, e) ==
  IF e = "cancelled" \/ current # c THEN UNCHANGED <<phase, expired>>
  ELSE phase' = "error" /\ expired' = (e = "expired")

\* The catch block of connect and start.
Fail(c, e) ==
  /\ closePopup
  /\ handleError(c, e)
  /\ Settle(c)

\* Tasks wait until no continuation is ready.
Quiet == \A c \in Calls : pc[c] \notin Ready

Task(c, l) ==
  /\ Quiet
  /\ pc[c] = l
  /\ handling' = FALSE

Continue(c, l) ==
  /\ pc[c] = l
  /\ handling' = FALSE

\* The host calls when nothing is left to run, and once more in the same click
\* handler, before the continuations that its first call made ready.
HostMayCall == Quiet \/ handling \/ Reentrant
StillInHandler == handling' = \E c \in Calls : pc'[c] \in Ready

-------------------------------------------------------------------------------
(* The host calls connect, start or cancel.                                *)

\* The catch block of a call that throws before its first await.
FailAtOnce(c) ==
  /\ phase' = "error" /\ expired' = FALSE
  /\ closePopup
  /\ UNCHANGED <<pc, err, failures>>

\* The window opens, the phase is shown, the request at point l is sent; or the
\* popup was blocked.
Begin(c, p, l) ==
  \/ /\ openBlank(c)
     /\ phase' = p /\ expired' = FALSE
     /\ Goto(c, l)
  \/ FailAtOnce(c)

HostCalls(c) ==
  /\ HostMayCall
  /\ pc[c] = "idle"
  /\ current' = c
  /\ StillInHandler
  /\ UNCHANGED refused

connect(c) ==
  /\ Begin(c, "connecting", "consent")
  /\ HostCalls(c)
  /\ UNCHANGED result

\* Known to be disconnected it throws before anything is opened or reset.
start(c) ==
  /\ \/ refused /\ FailAtOnce(c) /\ UNCHANGED result
     \/ ~refused /\ Begin(c, "creating", "session") /\ result' = NoCall
  /\ HostCalls(c)

clearTimers ==
  LET waiting == {c \in Calls : pc[c] \in Delays} IN
  /\ pc'  = [c \in Calls |-> IF c \in waiting THEN "throw" ELSE pc[c]]
  /\ err' = [c \in Calls |-> IF c \in waiting THEN "cancelled" ELSE err[c]]
  /\ failures' = [c \in Calls |-> IF c \in waiting THEN 0 ELSE failures[c]]

CancelTo(p) ==
  /\ HostMayCall
  /\ current' = NoCall
  /\ clearTimers
  /\ closePopup
  /\ phase' = p
  /\ StillInHandler
  /\ UNCHANGED <<refused, expired, result>>

\* Variant: cancel resets a terminal phase, too.
cancelResets == CancelTo("idle")

cancel == CancelTo(IF phase \in {"done", "error"} THEN phase ELSE "idle")

-------------------------------------------------------------------------------
(* connect and start after their awaits. What fetchJson brings is a: it    *)
(* rejects with "failed", or resolves.                                     *)

\* A request that is not polled, at point l: fetchJson, ensureCurrent and, if
\* the call needs its window, the look at win.closed; then on to m, and to
\* phase p.
Fetched(c, l, a, needsWindow, m, p) ==
  /\ Task(c, l)
  /\ UNCHANGED <<current, refused, result>>
  /\ \/ a = "failed" /\ Fail(c, "error")
     \/ a = "ok" /\ current # c /\ Fail(c, "cancelled")
     \/ a = "ok" /\ current = c /\ needsWindow /\ ~mine[c] /\ Fail(c, "error")
     \/ /\ a = "ok" /\ current = c /\ (needsWindow => mine[c])
        /\ Goto(c, m) /\ phase' = p
        /\ UNCHANGED <<expired, popup, open, mine>>

\* Only the answer to the session request sets a phase.
ConsentAnswer(c, a) == Fetched(c, "consent", a, TRUE, "oauth", phase)
SessionAnswer(c, a) == Fetched(c, "session", a, TRUE, "pollSession", "picking")
ImportAnswer(c, a)  == Fetched(c, "import", a, FALSE, "pollJob", phase)

\* One message event reaches every call that listens.
Message(m) ==
  /\ Quiet
  /\ handling' = FALSE
  /\ \E c \in Calls : pc[c] = "oauth"
  /\ LET heard(c) == IF pc[c] # "oauth" THEN pc[c]
                     ELSE IF current # c THEN "throw"
                     ELSE [success |-> "granted", failure |-> "throw", other |-> "oauth"][m]
     IN /\ pc'  = [c \in Calls |-> heard(c)]
        /\ err' = [c \in Calls |->
                     IF pc[c] = "oauth" /\ heard(c) = "throw"
                     THEN IF current = c THEN "error" ELSE "cancelled"
                     ELSE err[c]]
  /\ UNCHANGED <<flow, failures, mine, open>>

\* The 500 ms check that a superseded call gives up on, and the timeout.
OAuthTick(c) ==
  /\ Task(c, "oauth")
  /\ current # c
  /\ Throw(c, "cancelled")
  /\ UNCHANGED <<flow, mine, open>>

OAuthTimeout(c) ==
  /\ Task(c, "oauth")
  /\ Throw(c, "error")
  /\ UNCHANGED <<flow, mine, open>>

Granted(c) ==
  /\ Continue(c, "granted")
  /\ closePopup
  /\ phase' = "idle" /\ refused' = FALSE
  /\ Settle(c)
  /\ UNCHANGED <<current, expired, result>>

-------------------------------------------------------------------------------
\* pollFetch at point l: a failure is retried after a delay at point r, unless
\* it is one too many or the call is stale.
PollFails(c, l, r) ==
  /\ Task(c, l)
  /\ UNCHANGED <<flow, mine, open>>
  /\ \/ current # c /\ Throw(c, "cancelled")
     \/ current = c /\ failures[c] = MaxPollFailures /\ Throw(c, "error")
     \/ /\ current = c /\ failures[c] < MaxPollFailures
        /\ pc' = [pc EXCEPT ![c] = r]
        /\ failures' = [failures EXCEPT ![c] = @ + 1]
        /\ UNCHANGED err

\* It resolves, and pollSession or pollJob goes on to point m.
PollAnswered(c, l, m) ==
  /\ Task(c, l)
  /\ pc' = [pc EXCEPT ![c] = m]
  /\ failures' = [failures EXCEPT ![c] = 0]
  /\ UNCHANGED <<flow, err, mine, open>>

PollThrows(c, l, e) ==
  /\ Task(c, l)
  /\ Throw(c, e)
  /\ UNCHANGED <<flow, mine, open>>

\* ensureCurrent after a poll that resolved.
Bail(c, l) == current # c /\ PollThrows(c, l, "cancelled")

pollSession(c, a) ==
  \/ a = "failed" /\ PollFails(c, "pollSession", "retrySession")
  \/ a # "failed" /\ Bail(c, "pollSession")
  \/ current = c /\ a = "pending" /\ PollAnswered(c, "pollSession", "waitSession")
  \/ current = c /\ a = "ready"   /\ PollAnswered(c, "pollSession", "picked")
  \/ current = c /\ a = "expired" /\ PollThrows(c, "pollSession", "expired")

Picked(c) ==
  /\ Continue(c, "picked")
  /\ closePopup
  /\ phase' = "importing"
  /\ Goto(c, "import")
  /\ UNCHANGED <<current, refused, expired, result>>

\* What pollJob makes of a job: pending and running are the same to it.
JobAnswered(c, a) ==
  \/ a = "running"  /\ PollAnswered(c, "pollJob", "waitJob")
  \/ a = "complete" /\ PollAnswered(c, "pollJob", "complete")
  \/ a = "aborted"  /\ PollThrows(c, "pollJob", "error")

\* Variant: pollJob without its ensureCurrent.
pollJobUnchecked(c, a) ==
  \/ a = "failed" /\ PollFails(c, "pollJob", "retryJob")
  \/ JobAnswered(c, a)

pollJob(c, a) ==
  \/ a = "failed" /\ PollFails(c, "pollJob", "retryJob")
  \/ a # "failed" /\ Bail(c, "pollJob")
  \/ current = c /\ JobAnswered(c, a)

Complete(c) ==
  /\ Continue(c, "complete")
  /\ phase' = "done" /\ result' = c
  /\ Settle(c)
  /\ UNCHANGED <<current, refused, expired, popup, mine, open>>

AfterDelay(l) == IF l \in {"waitSession", "retrySession"} THEN "pollSession" ELSE "pollJob"

\* The timer of cancellableDelay; a superseded call's delay rejects.
DelayEnds(c) ==
  /\ pc[c] \in Delays
  /\ Task(c, pc[c])
  /\ IF current = c THEN Goto(c, AfterDelay(pc[c])) ELSE Throw(c, "cancelled")
  /\ UNCHANGED <<flow, mine, open>>

Catch(c) ==
  /\ Continue(c, "throw")
  /\ Fail(c, err[c])
  /\ UNCHANGED <<current, refused, result>>

-------------------------------------------------------------------------------
\* refreshStatus or disconnect is answered.
StatusAnswer ==
  /\ Quiet
  /\ refused' \in BOOLEAN
  /\ handling' = FALSE
  /\ UNCHANGED <<current, phase, expired, result, popup, calls, open>>

UserCloses(n) ==
  /\ n \in open
  /\ Gone(n)
  /\ popup' = IF popup = n THEN NoWindow ELSE popup
  /\ UNCHANGED <<current, phase, refused, expired, result, pc, err, failures, handling>>

Continuation(c) == Granted(c) \/ Picked(c) \/ Complete(c) \/ Catch(c)

\* What a request may bring, as its handler answers it or not at all.
Requested(c) ==
  \/ \E a \in {"ok", "failed"} :
       ConsentAnswer(c, a) \/ SessionAnswer(c, a) \/ ImportAnswer(c, a)
  \/ \E a \in {"pending", "ready", "expired", "failed"} : pollSession(c, a)
  \/ \E a \in {"running", "complete", "aborted", "failed"} : pollJob(c, a)

\* Variant: the timer of a superseded call settles nothing.
TimerCurrentOnly(c) == current = c /\ DelayEnds(c)

Timer(c) == DelayEnds(c) \/ OAuthTick(c) \/ OAuthTimeout(c)

Host ==
  \/ \E c \in Connects : connect(c)
  \/ \E c \in Starts : start(c)
  \/ cancel

Next ==
  \/ Host
  \/ \E c \in Calls : Continuation(c) \/ Requested(c) \/ Timer(c)
  \/ \E m \in {"success", "failure", "other"} : Message(m)
  \/ \E n \in Windows : UserCloses(n)
  \/ StatusAnswer

Spec == Init /\ [][Next]_vars

\* Continuations run, requests are answered and timers fire, however often the
\* user clicks: the browser serves each of its queues. The user, the callback
\* page and the host owe nothing.
FairSpec ==
  /\ Spec
  /\ \A c \in Calls : WF_vars(Continuation(c)) /\ SF_vars(Requested(c) \/ Timer(c))

-------------------------------------------------------------------------------
\* What the page shows is where the current call is: a busy phase has a call
\* under way behind it, at one of its awaits, however many stale ones unwind.
PhaseMatches ==
  /\ phase \in Busy => current # NoCall /\ pc[current] # "idle"
  /\ \A c \in Calls :
       current = c /\ pc[c] # "idle" =>
         /\ phase \in Busy
         /\ pc[c] \in PointsIn[phase] \cup {"throw"}

\* A result is shown only while "done", for the call that got it; no earlier
\* call's import completes over it.
DoneIsCurrent == phase = "done" => result # NoCall /\ current \in {result, NoCall}

\* The page offers the retry for an expired session only in its error.
ExpiredIsError == expired => phase = "error"

\* flow.ts:361: "leave whatever the newer run set", of what the page shows: a
\* call that is no longer current changes none of it, whatever it comes back with.
StaleLeavesShown ==
  [][\A c \in Calls :
       pc'[c] # pc[c] /\ current # c /\ UNCHANGED current
         => UNCHANGED <<phase, expired, refused, result>>]_vars

\* A superseded or cancelled call always settles, whatever it awaited, and so
\* does a connect whose consent is abandoned.
CallsSettle ==
  \A c \in Calls : pc[c] # "idle" /\ (current # c \/ c \in Connects) ~> pc[c] = "idle"

\* flow.ts:361: "Superseded/cancelled: leave whatever the newer run set", of the
\* window. Violated: see the findings.
StaleLeavesPopup ==
  [][\A c, d \in Calls :
       /\ c # d /\ pc[c] # "idle" /\ pc'[c] = pc[c] /\ pc'[d] # pc[d]
       /\ current = c /\ UNCHANGED current
       => UNCHANGED popup]_vars
===============================================================================
