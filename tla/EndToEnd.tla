------------------------------- MODULE EndToEnd -------------------------------
(***************************************************************************)
(* One user's picks on their way to the sink: the browser flow, the HTTP   *)
(* handlers that answer its fetches, Google's picker sessions and a worker.*)
(* The flow's steps are those of PickerFlow, but what a fetch brings is    *)
(* what its handler answered, unless request or answer was lost. The jobs  *)
(* are those of JobLifecycle, which ImportQueue implements; a session has  *)
(* one, since only the start that created the session knows it. The row's  *)
(* statements succeed here: lost ones and the replicas are ImportQueue's.  *)
(*                                                                         *)
(* The user is connected: a token that is missing or cannot be refreshed   *)
(* makes a Google request fail, and any may.                               *)
(***************************************************************************)
EXTENDS PickerFlow, PickerAPI, Sequences

CONSTANTS
  Sessions,    \* Google picker sessions
  Expiring,    \* those whose expireTime can be read
  Picks,       \* the items the user picks in each
  Bodies,      \* request bodies of StartImport
  PageSize,
  NoSession, NoReply

ASSUME EndAssumption ==
  /\ Connects = {}
  /\ NoSession \notin Sessions
  /\ Expiring \subseteq Sessions
  /\ Picks \in [Sessions -> Seq(Item)]
  /\ Bodies \subseteq Body
  /\ PageSize \in Nat \ {0}
  /\ NoReply \notin {"set", "unset", "erasing", "failed", "missing", "ok", "pending",
                     "ready", "expired", "running", "complete", "aborted"}

VARIABLES
  (* between browser and service *)
  asks,        \* the session a start was told, and its job
  reply,       \* the answer to a call's fetch, on its way or being made
  lost,        \* sessions whose job's final answer did not arrive
  (* Google *)
  google,      \* what Google knows of each session
  lapsed,      \* sessions past the deadline the service reads, by its clock
  (* the import table *)
  job, tally, answered,
  body,        \* the request body behind the row's metadata
  (* the worker *)
  work, stage, \* the session of its job, and where it is
  at,          \* the items it has listed, or tried
  listed,      \* how many it will try
  sunk         \* [item, size] of the photos the sink got

table   == <<job, tally, answered, body>>
worker  == <<work, stage, at, listed, sunk>>
wire    == <<asks, reply, lost>>
session == <<google, lapsed>>
service == <<table, worker, session>>
system  == <<vars, wire, service>>

Job == INSTANCE JobLifecycle WITH Jobs <- Sessions, phase <- job

Requests == {"session", "pollSession", "import", "pollJob"}
Replies(l) ==
  CASE l = "session"     -> {"ok", "failed"}
    [] l = "pollSession" -> {"pending", "ready", "expired", "failed",
                             "set", "unset"}
    [] l = "import"      -> {"ok", "failed"}
    [] l = "pollJob"     -> {"running", "complete", "aborted", "failed",
                             "missing", "erasing"}
    [] OTHER             -> {}

\* What a handler has read and not yet answered.
Unsent == {"set", "unset", "erasing"}

NoBody   == [bytes |-> 0, keys |-> 0, parses |-> TRUE]
Stages   == {"list", "items", "cleanup"}
Photo    == [item : Nat, size : Nat]
Asked(s) == {c \in Calls : asks[c] = s}

Shapes ==
  /\ asks    \in [Calls -> Sessions \cup {NoSession}]
  /\ lost    \subseteq Sessions
  /\ google  \in [Sessions -> {"unused", "open", "confirmed", "deleted"}]
  /\ lapsed  \subseteq Sessions
  /\ job     \in [Sessions -> Job!Phases]
  /\ tally   \in [Sessions -> Nat]
  /\ answered \subseteq Sessions
  /\ body    \in [Sessions -> Bodies \cup {NoBody}]
  /\ work    \in Sessions \cup {NoSession}
  /\ stage   \in Stages
  /\ at      \in Nat
  /\ listed  \in Nat
  /\ sunk    \in [Sessions -> Seq(Photo)]

\* The types; that a reply waits only for the fetch that asked for it, which
\* names a session from the second fetch on; no two starts name the same; and
\* the worker's job is running until its cleanup.
SystemTypeOK ==
  /\ TypeOK
  /\ Shapes
  /\ \A c \in Calls :
       /\ reply[c] \in Replies(pc[c]) \cup {NoReply}
       /\ pc[c] \in Requests \ {"session"} => asks[c] # NoSession
       /\ asks[c] # NoSession => /\ google[asks[c]] # "unused"
                                 /\ Asked(asks[c]) = {c}
  /\ work # NoSession /\ stage # "cleanup" => job[work] = "running"

SystemInit ==
  /\ Init
  /\ asks    = [c \in Calls |-> NoSession]
  /\ reply   = [c \in Calls |-> NoReply]
  /\ lost    = {}
  /\ google  = [s \in Sessions |-> "unused"]
  /\ lapsed  = {}
  /\ Job!LifecycleInit
  /\ body    = [s \in Sessions |-> NoBody]
  /\ work    = NoSession
  /\ stage   = "list"
  /\ at      = 0
  /\ listed  = 0
  /\ sunk    = [s \in Sessions |-> <<>>]

-------------------------------------------------------------------------------
(* The handlers. Each answers the one fetch its call has under way.        *)
Awaits(c, l) == pc[c] = l /\ reply[c] = NoReply

Answer(c, r) == reply' = [reply EXCEPT ![c] = r]

\* The answer may be lost; its handler has run all the same.
Send(c, r) == Answer(c, r) \/ Answer(c, "failed")

\* The request is lost, or the handler fails before it changes anything: 401,
\* 400, 428, 500 and 502 are all the same to the flow.
Unserved(c) ==
  /\ \E l \in Requests : Awaits(c, l)
  /\ Answer(c, "failed")
  /\ UNCHANGED <<vars, asks, lost, service>>

\* Google makes a session; only an answer that arrives tells the flow of it.
CreateSession(c) ==
  /\ Awaits(c, "session")
  /\ \E s \in Sessions :
       /\ google[s] = "unused"
       /\ google' = [google EXCEPT ![s] = "open"]
       /\ \/ Answer(c, "ok") /\ asks' = [asks EXCEPT ![c] = s]
          \/ Answer(c, "failed") /\ UNCHANGED asks
  /\ UNCHANGED <<vars, lost, table, worker, lapsed>>

\* PollPickerSession asks Google whether the user has picked. A session that is
\* deleted is not found: Unserved.
PollSession(c) ==
  /\ Awaits(c, "pollSession")
  /\ google[asks[c]] # "deleted"
  /\ Answer(c, IF google[asks[c]] = "confirmed" THEN "set" ELSE "unset")
  /\ UNCHANGED <<vars, asks, lost, service>>

\* The resource as the GET found it; its expireTime never changes.
Resource(c) ==
  [mediaItemsSet |-> reply[c] = "set",
   expireTime    |-> IF asks[c] \notin Expiring THEN "none"
                     ELSE IF asks[c] \in lapsed THEN "past" ELSE "future"]

\* When Google's answer has travelled its phase is told by the clock of then.
TellPhase(c) ==
  /\ reply[c] \in {"set", "unset"}
  /\ Send(c, sessionPhase(Resource(c)))
  /\ UNCHANGED <<vars, asks, lost, service>>

\* Variant: an error of CreateJob is not looked at.
StartImportUnchecked(c) ==
  /\ Awaits(c, "import")
  /\ \/ Job!Create(asks[c]) \/ UNCHANGED <<job, tally, answered>>
  /\ Answer(c, "ok")
  /\ UNCHANGED <<vars, asks, lost, body, worker, session>>

StartImport(c) ==
  LET s == asks[c] IN
  /\ Awaits(c, "import")
  /\ \E b \in Bodies : Decodes(b) /\ body' = [body EXCEPT ![s] = b]
  /\ Job!Create(s)
  /\ Send(c, "ok")
  /\ UNCHANGED <<vars, asks, lost, worker, session>>

\* The SELECT of Get. A finished row is deleted before its answer leaves.
GetImport(c) ==
  LET s == asks[c] IN
  /\ Awaits(c, "pollJob")
  /\ \/ job[s] \in {"absent", "gone"} /\ Answer(c, "missing") /\ UNCHANGED table
     \/ /\ job[s] \in {"pending", "running"}
        /\ Answer(c, "running") /\ UNCHANGED table
     \/ Job!Answer(s) /\ Answer(c, "erasing") /\ UNCHANGED body
  /\ UNCHANGED <<vars, asks, lost, worker, session>>

\* The DELETE of Get, whose error is ignored, and the answer.
Erase(c) ==
  LET s == asks[c]
      r == [complete |-> "complete", failed |-> "aborted"][job[s]] IN
  /\ reply[c] = "erasing"
  /\ Job!Remove(s) \/ UNCHANGED <<job, tally, answered>>
  /\ \/ Answer(c, r) /\ UNCHANGED lost
     \/ Answer(c, "failed") /\ lost' = lost \cup {s}
  /\ UNCHANGED <<vars, asks, body, worker, session>>

Serve(c) ==
  \/ Unserved(c) \/ CreateSession(c) \/ PollSession(c) \/ TellPhase(c)
  \/ StartImport(c) \/ GetImport(c) \/ Erase(c)

-------------------------------------------------------------------------------
(* The browser.                                                            *)

\* A reply settles the fetch: fetchJson rejects on any error status.
Resumes(c, a) ==
  SessionAnswer(c, a) \/ pollSession(c, a) \/ ImportAnswer(c, a) \/ pollJob(c, a)

\* Variant: the answer stays, and settles the next fetch too.
DeliverKeeps(c) ==
  /\ reply[c] \notin Unsent \cup {NoReply}
  /\ Resumes(c, IF reply[c] = "missing" THEN "failed" ELSE reply[c])
  /\ UNCHANGED <<wire, service>>

Deliver(c) ==
  /\ reply[c] \notin Unsent \cup {NoReply}
  /\ Resumes(c, IF reply[c] = "missing" THEN "failed" ELSE reply[c])
  /\ Answer(c, NoReply)
  /\ UNCHANGED <<asks, lost, service>>

\* What the flow does without an answer.
Local ==
  /\ \/ Host
     \/ \E c \in Calls : Continuation(c) \/ Timer(c)
     \/ \E n \in Windows : UserCloses(n)
  /\ UNCHANGED <<wire, service>>

-------------------------------------------------------------------------------
(* Google takes the user's selection as long as its own clock lets it; a   *)
(* deadline the service can read passes by the service's clock, before or  *)
(* after that.                                                             *)
Confirm(s) ==
  /\ google[s] = "open"
  /\ google' = [google EXCEPT ![s] = "confirmed"]
  /\ UNCHANGED <<vars, wire, table, worker, lapsed>>

Lapse(s) ==
  /\ google[s] \in {"open", "confirmed"}
  /\ s \in Expiring \ lapsed
  /\ lapsed' = lapsed \cup {s}
  /\ UNCHANGED <<vars, wire, table, worker, google>>

-------------------------------------------------------------------------------
(* One worker; what replicas do to each other is ImportQueue's.            *)
At(l) == work # NoSession /\ stage = l

Drop == work' = NoSession /\ stage' = "list" /\ at' = 0 /\ listed' = 0

Claim(s) ==
  /\ work = NoSession
  /\ Job!Claim(s)
  /\ work' = s
  /\ UNCHANGED <<vars, wire, body, stage, at, listed, sunk, session>>

\* One page of listSessionMediaItems; the last has no nextPageToken.
ListPage ==
  LET all  == Len(Picks[work])
      next == listed + PageSize IN
  /\ At("list")
  /\ google[work] = "confirmed"
  /\ listed' = IF next < all THEN next ELSE all
  /\ stage'  = IF next < all THEN "list" ELSE "items"
  /\ UNCHANGED <<vars, wire, table, work, at, sunk, session>>

\* Variant: the pages before the error are what there is.
ListFailsPartly ==
  /\ At("list")
  /\ stage' = "items"
  /\ UNCHANGED <<vars, wire, table, work, at, listed, sunk, session>>

\* Any page may fail: nothing that was listed is used.
ListFails ==
  /\ At("list")
  /\ Job!Fail(work)
  /\ Drop
  /\ UNCHANGED <<vars, wire, body, sunk, session>>

\* importOne: the item is saved, or not: its download or the sink failed, or it
\* is over a cap.
ImportItem ==
  LET i == Picks[work][at + 1] IN
  /\ At("items")
  /\ at < listed
  /\ at' = at + 1
  /\ Job!CountItem(work)
  /\ \/ UNCHANGED sunk
     \/ /\ Downloads(i)
        /\ sunk' = [sunk EXCEPT ![work] = Append(@, [item |-> at + 1, size |-> Arrived(i)])]
  /\ UNCHANGED <<vars, wire, body, work, stage, listed, session>>

MarkComplete ==
  /\ At("items")
  /\ at = listed
  /\ Job!Complete(work)
  /\ stage' = "cleanup"
  /\ UNCHANGED <<vars, wire, body, work, at, listed, sunk, session>>

DeleteSession ==
  /\ At("cleanup")
  /\ \/ google' = [google EXCEPT ![work] = "deleted"]
     \/ UNCHANGED google
  /\ Drop
  /\ UNCHANGED <<vars, wire, table, sunk, lapsed>>

\* A crash, or a deadline, that leaves the row as it is.
Abandon ==
  /\ work # NoSession
  /\ Drop
  /\ UNCHANGED <<vars, wire, table, sunk, session>>

Works ==
  \/ \E s \in Sessions : Claim(s)
  \/ ListPage \/ ListFails \/ ImportItem \/ MarkComplete \/ DeleteSession

SystemNext ==
  \/ \E c \in Calls : Serve(c) \/ Deliver(c)
  \/ \E s \in Sessions : Confirm(s) \/ Lapse(s)
  \/ Local \/ Works \/ Abandon

SystemSpec == SystemInit /\ [][SystemNext]_system

GoesOn(c) ==
  \/ Serve(c) \/ Deliver(c)
  \/ (Continuation(c) \/ Timer(c)) /\ UNCHANGED <<wire, service>>

\* A call goes on: its requests are served or fail, and the browser runs it as
\* in PickerFlow. Deadlines pass and the worker runs. The user owes nothing, and
\* a job that was abandoned stays as it is.
FairSystem ==
  /\ SystemSpec
  /\ \A c \in Calls : SF_system(GoesOn(c))
  /\ WF_system(\E s \in Sessions : Lapse(s))
  /\ WF_system(Works)

-------------------------------------------------------------------------------
Shown == IF phase = "done" THEN asks[result] ELSE NoSession

\* "done" is true: the job of the shown start really walked every item the user
\* picked, in Google's list however it was paged, and its row said complete.
DoneIsImported ==
  Shown # NoSession =>
    /\ job[Shown] \in {"complete", "gone"}
    /\ tally[Shown] = Len(Picks[Shown])

\* A poll is told "not found" only for a job whose final answer was sent before
\* and did not arrive: no other row goes away under its start.
NotFoundMeansLost == \A c \in Calls : reply[c] = "missing" => asks[c] \in lost

ToldExpired(c) == reply[c] = "expired" \/ err[c] = "expired" \/ (expired /\ current = c)

\* client.go:289: "A confirmed selection wins even if the session is also past
\* its deadline". Once Google has it, and no answer without it is being made or
\* has reached the call, the start is never told, nor the page shows, that the
\* session expired: not by a later poll, a retry, a lost answer or any clock.
PicksWin ==
  \A c \in Calls, s \in Sessions :
    [](asks[c] = s /\ google[s] = "confirmed" /\ reply[c] # "unset" /\ ~ToldExpired(c)
         => [](asks[c] = s => ~ToldExpired(c)))

Whole(s) ==
  \A n \in 1..Len(sunk[s]) :
    LET p == sunk[s][n] IN
    /\ n > 1 => sunk[s][n - 1].item < p.item
    /\ p.size = Picks[s][p.item].bytes
    /\ p.size <= DownloadCap
    /\ MaxDecodedBytes > 0 => 4 * Picks[s][p.item].pixels <= MaxDecodedBytes

\* The sink gets whole photos within both caps, in the order of the picks, of
\* sessions the user confirmed; and a row keeps no body beyond its limits.
WholeAndBounded ==
  \A s \in Sessions :
    /\ Whole(s)
    /\ sunk[s] # <<>> => google[s] \in {"confirmed", "deleted"}
    /\ body[s].bytes <= MaxMetadataBytes /\ body[s].keys <= MaxMetadataKeys

Picking(c)   == pc[c] \in PointsIn["picking"]
Importing(c) == pc[c] \in PointsIn["importing"]
Stuck(s)     == job[s] = "running" /\ work # s

\* Every start settles, in "done", an error or a cancel: it does not poll for
\* ever for picks that cannot come any more, nor for a job whose row or whose
\* answer is gone. A job left running by a crash or a deadline is the exception,
\* and so is a session whose deadline the service cannot read.
StartsSettle ==
  \A c \in Calls :
    pc[c] # "idle" ~> \/ pc[c] = "idle"
                      \/ Picking(c) /\ asks[c] \notin Expiring
                      \/ Importing(c) /\ Stuck(asks[c])

\* client.go:289: "the worker's own timeout is the backstop, so a parse failure
\* must not strand the user". Violated: see the findings.
NotStranded == \A c \in Calls : Picking(c) ~> ~Picking(c)
===============================================================================
