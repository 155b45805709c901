# A verification of google-photos-picker

TLA+ models of this library, checked by TLC on small instances, and theorems
about them for every size, checked by TLAPS. Paths are relative to the
repository. `PROJECT.json` lists the runs, the lines each definition models,
the mutations of the code each property detects, and the findings.

## 1. The system

A Go service links the library; a browser page links its client. The user
connects a Google account, picks photos in Google's picker, and a worker of the
service imports them into a sink the host application supplies.

| part | where | its state | its operations |
|---|---|---|---|
| Import queue | `postgres/imports.go`, `stores.go` | table `photopicker_imports` | CreateJob, ClaimNextPending, SetTotal, RecordItemSuccess/Failure, MarkComplete/Failed, Get (reads, then deletes a terminal row) |
| Worker | `worker.go` | where each replica is, its job, its contexts | Run, DrainOnce, ProcessJob, importOne |
| Picker API client | `picker.go` | none | list and download items, create, poll, delete sessions |
| OAuth state store | `oauth.go` | a map of states in memory, a sweeper | create, consume, sweep, Close |
| Connection, tokens | `client.go`, `postgres/tokens.go` | table `photopicker_oauth_tokens`, requests in flight | ConsentURL, CompleteConsent, accessToken, Disconnect, revokeAtGoogle; Save, Load, UpdateAccess, Status, Delete |
| HTTP handlers | `handlers.go`, `callback.go` | none | one handler for each operation of the client; the page that posts the outcome of a consent |
| Browser flow | `client/src/flow.ts` | the state shown, runId, timers, a popup | connect, start, cancel, refreshStatus, disconnect; two poll loops |
| Bindings | `client/src/react.ts`, `svelte.ts` | none | subscribe a component, cancel on unmount |
| Encryption | `internal/cryptobox` | a key | Seal, Open |
| Migrations | `postgres/migrate.go`, `migrations/` | the schema | up, down |

How they interact. Replicas and handlers share nothing but the two tables: a
replica claims a row under `FOR UPDATE SKIP LOCKED`, a poll reads and deletes it
with two statements. A worker calls accessToken for every request to Google,
like the handlers do, so refreshes, consents and disconnects of one user meet in
one row of the token table. States live in the memory of one process and are
lost with it. The browser sees the service only through fetches that may fail,
and Google's consent page reaches it by a message.

What is hard here:

* two replicas, two polls or two requests of one user between any two
  statements; Close against itself;
* a statement that fails, or is applied while its answer is lost, or runs under
  a context that is already done; a deadline or a shutdown in the middle of any
  call; a crash anywhere; an item's photo saved and its count lost;
* a token refreshed at Google while the row it came from is deleted or replaced;
  a redirect that comes twice, late, or after a restart; no refresh token in the
  answer; a revoke on its way while the user reconnects;
* in the browser, calls that were superseded or cancelled and wake up at their
  next await, while the call that replaced them is under way;
* across the parts, a request or an answer that is lost when the other side has
  acted on it: the answer that tells of a finished import is sent after its row
  was deleted; a session that lapses before or after the user picked; limits that
  are tested by reading one byte more.

What makes each part correct. *Queue and worker*: a job has one holder, no photo
is saved twice, the row tells the truth about what was saved, a session is given
up only after its whole list was walked, jobs end. *States and tokens*: a state
is redeemed once, tokens stay with the user who consented, a disconnect is final
and spares a reconnect. *Picker client*: only whole lists and whole photos within
the caps are used. *Handlers*: an answer is never worse than the service's state,
except that it may be lost. *Flow*: what is shown is about the current call; calls
settle. *Together*: "done" means imported.

## 2. Modules

| module | models | composed of |
|---|---|---|
| `JobLifecycle` | what an ImportStore promises about a job: the abstract specification | |
| `ImportQueue` | the table, the replicas and the polls | implements JobLifecycle |
| `ImportQueueProofs` | its theorems | extends ImportQueue |
| `ImportAccountingProofs` | the theorems about counts and sessions | extends ImportQueueProofs |
| `ImportOrderProofs` | the theorems about the queue's order and stranded jobs | extends ImportQueueProofs |
| `MCImportQueue` | its instances for TLC | extends ImportQueue |
| `StateStore` | the OAuth states, sweeper and Close | |
| `GrantLifecycle` | what a TokenStore and its Client promise about a consent: the abstract specification | |
| `OAuthTokens` | consents, refreshes, disconnects over the token table | extends StateStore, implements GrantLifecycle |
| `OAuthTokensProofs` | its theorems | extends OAuthTokens |
| `GrantLifecycleProofs` | that it implements GrantLifecycle | extends OAuthTokensProofs |
| `MCOAuthTokens` | its symmetry for TLC | extends OAuthTokens |
| `PickerFlow` | the browser flow | |
| `PickerFlowProofs` | its theorems | extends PickerFlow |
| `PickerAPI` | what is decided by looking at a value: sessionPhase, the download caps, the metadata limits | |
| `EndToEnd` | flow, handlers, Google's sessions and a worker together | extends PickerFlow and PickerAPI, instantiates JobLifecycle |
| `EndToEndProofs` | its theorems | extends EndToEnd and PickerFlowProofs |
| `MCEndToEnd` | its instances for TLC | extends EndToEnd |

Definitions named "Variant" are plausible mistakes in the definition that
follows them. No specification uses them; each property is also run against
one, and TLC must then find it violated.

### ImportQueue

One step per call that leaves the process. `pc` is the program point of each
replica, `cur` the job it holds, `item` its place in the list, `shut` and
`expired` the two ways its context is done. A call ends in one of `Outcomes`:
applied and answered, not applied, or applied and yet an error, because the
answer was lost, the deadline passed or the shutdown came meanwhile. Under a
context that is done `database/sql` sends nothing, so only "err" is left.

`ClaimNextPending` is two steps, `ClaimSelect` (the row is found and locked) and
`ClaimCommit` (the update is applied): `Locked` rows are still pending and are
skipped by others. The INSERT of `CreateJob` is two steps as well: it begins, which
is when `created_at` is taken, and `InsertCommits`, when others see the row, so an
older row may appear late; `created` may tie. Histories are `answers` and `passed`:
the older rows that a claim found waiting and left, less those whose own claim came
to nothing since (`GiveUpClaim`). `Get` is `ReadTerminal`
and `DeleteRow`; reading a row that is not terminal changes nothing and is left
out. `sunk` is what the host's sink accepted. An item that is recorded failed
after its save ("RecordItemSuccess failed") is the code's behaviour and is in
the model: `Outcomes` of `RecordItemSuccess` other than "ok" go to
`RecordItemFailure`.

Abstracted: item contents, filter and metadata, user ids (polls are the
owner's), `error`, `updated_at`; sessions hold a fixed number of picked items.

### StateStore and OAuthTokens

The mutex makes create, consume and sweep one step each; Close, which takes no
lock, is two. The clock `now` ticks up to `Horizon`; a state can be issued only
if it can still expire before that.

A *grant* stands for one consent and every token Google issues under it, so the
row of a user is the grant of its refresh token and the grant of its access
token. A request is at one of `Points`: "exchange" and "save" for
CompleteConsent, "refresh", "update", "use" for accessToken and the call to
Google that its token is for. `via` is the state the callback redeemed, `tok`
the grant it holds. `Disconnect` deletes the row and leaves the grant to a
goroutine (`revoking`), which tells Google (`revoked`) or fails. A deleted
refresh token that does not decrypt is not revoked: that is outcome "lost".
`Age` brings the access token within a minute of its expiry.

`GrantLifecycle` has no requests and no statements: a grant is given, kept as its
owner's refresh token until a newer one displaces it or the user drops it, and
revoked only after it was dropped; what is displaced, dropped or lost stays so.
`LifeOf` reads a grant's life off the rows, the Saves under way and the revokes.

Abstracted: scopes, ciphertexts (their failure is kept), the code parameter.

### PickerFlow

A JavaScript thread runs a task to its end and then every continuation made
ready. `Task` steps need `Quiet`: no continuation is ready. Calls of the host
need it too, except that one click handler may call several times before the
continuations run (`handling`), or, with `Reentrant`, between any two of them.
`current` is the call whose `myRun` equals `runId`; cancel leaves none. Windows
are known by name, since `window.open` reuses an open window of that name;
`mine` says whether a call's `win` is still open. A call's catch block is one
step: `closePopup`, `handleError`, settle.

What a fetch brings is a parameter of the action that takes it (`Fetched`,
`pollSession`, `pollJob`). In PickerFlow itself it is anything its handler can
answer (`Requested`); in EndToEnd it is what the handler did answer. A poll that
fails is retried from another point (`retrySession`, `retryJob`) after a delay.

Abstracted: `connected` to whether start refuses, `progress`, error texts,
`runId` as a number, the window's location, backoff times.

### PickerAPI

The decisions that depend on data, as operators on the little of it they look
at: an item is its bytes on the wire and its decoded pixels, a request body its
bytes, its keys and whether it parses, an expireTime "past", "future" or "none".
`OneMore` is `maxBytes+1` in an int64, and wraps; `ReadUpTo` is io.LimitReader,
which reads nothing for a limit that is not positive. `CapAssumption` keeps the
caps below MaxInt64 (see section 4). A body of zero bytes has no keys.

### EndToEnd

Every start's fetch is a `reply[c]` that is asked for when the flow waits at one
of `Requests`. A handler's action (`Serve`) answers it, and acts on the job or on
Google's session; `Send` and `Unserved` lose the answer or the request.
`Deliver` resumes the flow with the answer, as PickerFlow's action says. PollSession
is two steps: Google's GET tells whether there are picks (`PollSession`), and when
its answer has come the service's clock decides (`TellPhase`); the user may confirm
and the deadline pass in between. GetImport is two steps, SELECT and DELETE (`GetImport`, `Erase`); the row goes before the
answer leaves, and `lost` remembers the sessions whose final answer did not
arrive. A start remembers in `asks` its session, and the import job is known by
that session: only the start that created it knows it, so it has one job at most.

The job's life is JobLifecycle's, which `ImportQueue` is shown to implement;
there, replicas, locks and failing statements are modelled in detail, and here
one worker claims, lists page by page, imports item by item, completes and
deletes the session, or is cut off at any point (`Abandon`). `sunk` is what the
sink got, with the size it was told. Google's side is `google`: the user confirms
while the session is open, as long as Google's own clock allows, of which the service
knows nothing. `lapsed` are the sessions past their deadline by the service's clock.

Abstracted: connects and statuses (PickerFlow and OAuthTokens have them; here
`Connects` is empty), why a request failed, the ids.

## 3. The runs

| run | what it asks | bounds |
|---|---|---|
| `import_items` | TypeOK, SinkOnce, SavedFaithful, FailedUntouched, refinement of JobLifecycle | 1 job of 3 items, 2 replicas, 2 polls, every fault |
| `import_race` | SingleOwner, ExactAccounting, SessionKept, InTurn, StrandedOnlyByCut | 3 jobs of 1 item, one session, 2 replicas, deadlines, shutdowns, crashes |
| `import_live` | JobsFinish, ShutdownEnds | 2 jobs, 2 replicas, shutdowns, fairness |
| `import_stuck` | violation of ProcessEndsTerminal | 1 job, 1 replica, deadlines |
| `oauth_tokens` | TypeOK, OwnTokens, StateRedeemedOnce, RevokeSpares, DisconnectFinal, refinement of GrantLifecycle | 2 users, 3 states, 3 grants, 2 requests, every fault |
| `oauth_stale` | violation of ServedValid | 1 user, 2 states, grants, requests, no fault |
| `state_store` | StatesSwept | 3 states, TTL 2 of 6 ticks, one Close, fairness |
| `state_close` | violation of CloseIdempotent | 2 calls of Close |
| `flow_calls` | TypeOK, PhaseMatches, DoneIsCurrent, ExpiredIsError, StaleLeavesShown, CallsSettle | 1 connect, 2 starts, 1 retry, fairness |
| `flow_popup` | violation of StaleLeavesPopup | 2 starts |
| `end_to_end` | SystemTypeOK, DoneIsImported, NotFoundMeansLost, PicksWin, WholeAndBounded, StartsSettle | a start, called again after it settled, and host calls between any two continuations (`Reentrant`); 2 sessions of 2 and 1 items, one with a readable deadline, pages of 1, 1 retry, items and bodies at and over each cap, fairness |
| `end_to_end_stranded` | violation of NotStranded | 1 start, 1 session whose expireTime cannot be read, fairness |

Why the bounds are enough. The queue's properties relate one job to its holder,
two holders of one job, or two jobs to their order: two replicas and a third job,
which can be locked, passed over or committed late, show every such pair, with three items so that an item
has a predecessor and a successor. Token properties relate two users, two grants
of one user, and two requests that overlap; the third state and grant let a user
reconnect while another redirect is under way. Two starts and a connect give the
flow a current call and two stale ones. In `end_to_end` two sessions let a start
that failed or was cancelled be followed by a second one while the first one's
job still runs; two items on pages of one give a list that can break between
pages; one item is at both caps, one a byte over the first, one a pixel over the
second. Three items, failing statements and polls are `import_items`'. In each
module what the bounds cut off is covered by the theorems of section 5 where there
are any. Every bound is a constant: `MaxAnswers` caps how often a terminal row is read, `Horizon` stops
the clock, `MaxPollFailures` is the code's 4 made 1, `PageSize` its 100 made 1,
`MaxInt64` is 7.

Symmetry is used in the runs without liveness, over sets whose members no
definition tells apart.

Fairness. `FairSpec` of ImportQueue: a replica's goroutine is scheduled
(`WF Run`), and Go's `select` picks among ready cases at random, so a cancelled
Run that keeps coming back to its select takes `ctx.Done()` in the end
(`SF Stop`). Faults, restarts, requests and polls owe nothing, and JobsFinish
makes exception of a replica that is down or whose context is done. `FairStore`:
the clock and the ticker go on. `FairSpec` of PickerFlow: ready continuations
run (weak); answers arrive and timers fire however often the host calls
(strong), because the event loop serves each of its queues and `fetchJson`
settles. Users and callback pages owe nothing, so what start owes is only to
settle when superseded. `FairSystem`: each call goes on (strong, `GoesOn`), that
is, its request is served or fails, its answer arrives and its timers fire;
deadlines of sessions pass (weak); the worker runs (weak), though it may abandon
a job. The user still owes nothing: StartsSettle is that the service and the flow
between them end every wait, by "expired" if by nothing else, and names its two
exceptions, a job left running and a session without a readable deadline.

## 4. Findings

1. **A job cut off by its deadline stays `running` for ever** (`import_stuck`).
   MarkFailed and MarkComplete are sent under the context that has just expired.
   worker.go:103 promises a terminal state. This is the only way: see EndsTerminalUncut
   and OnlyTheCutStrand in section 5.
2. **A session whose deadline cannot be read strands the page**
   (`end_to_end_stranded`). If the user does not pick, every poll says "pending"
   and pollSession has no timeout. client.go:290 says that the worker's timeout is
   the backstop; it only begins with a job, which needs picks.
3. **A refresh can put a revoked grant's token into a new row** (`oauth_stale`).
   It straddles a disconnect and a reconnect; accessToken then serves that token
   until it ages. client.go:234 says valid. It takes two requests in flight: see
   ServedValidAlone in section 5.
4. **Two concurrent calls of Close may panic** (`state_close`). client.go:120
   says idempotent.
5. **A superseded start closes its successor's window** (`flow_popup`). The catch
   block calls closePopup before it looks at runId. flow.ts:361 says it leaves
   what the newer run set. It does so of everything else: see StaleShowsNothing.

Also seen, without a run of their own:

* Get reads and deletes in two statements and drops the second one's error, so a
  terminal row can be returned twice; stores.go:74 says once.
* A selection confirmed while a poll's answer is on its way from Google can be
  answered "expired": the picks are read at client.go:282, the clock at client.go:298,
  and if the deadline passes in between the page offers to pick again although Google
  has the picks. client.go:277 says "without one". PicksWin is what does hold: once
  the selection is there and no answer without it is under way, it wins.
* An import whose final answer is lost shows as an error: the row is gone, later
  polls get 404 until the retries are used up. NotFoundMeansLost says that this
  is the only way to get there.
* Host code that calls cancel from a listener, when the last progress arrives,
  still gets "done" (`Reentrant = TRUE` in PickerFlow violates PhaseMatches). That
  "done" is true: DoneIsImported holds in `end_to_end`, which runs with it.
* `DownloadCap` or `MaxMetadataBytes` of MaxInt64 wrap at `+1`: every photo is
  then empty, and every body counts as none.
* refreshStatus clears the text of an error that is still shown as the phase
  (flow.ts:116), and answers of two of them may overtake each other.
* JobMetadata is an empty map when none was supplied: CreateJob stores `{}`
  (imports.go:30). sink.go:15 says nil.

## 5. What is proved

`tlapm` checks every step of the seven modules named *Proofs*.
The theorems assume only the named assumptions of the modules (that "no job",
"no grant" and the like are no members of their sets, that bounds are naturals);
TLC evaluates them in the runs.

*ImportQueue*, for any jobs, replicas, polls, sessions, items and faults:
`TypeCorrect`, `ReplicasExclusive` (SingleOwner), `SinkAtMostOnce`,
`SavedIsFaithful`, `FailedLeftNothing`, `QueueImplementsLifecycle`. They follow
from `InvHolds`. SingleOwner alone is not inductive: a poll's DELETE looks at no
status, so one needs `PollsTerminal`, that whatever a poll has read is terminal
for good. The sink's and the row's properties need `Stage`, which says for every
point of ProcessJob how far the sink and `saved_ids` are compared to the item
the replica is at, and `Fresh`, that a job not yet running, or failed, has left
no trace. SingleOwner then carries them through the steps of other replicas.
The refinement maps a job's status to its phase, its counted items to a tally
and polls to answers; a step of a replica is one step of JobLifecycle or none.

*OAuthTokens*, for any users, states, grants, requests, TTL and faults:
`TypeCorrect`, `TokensStayHome` (OwnTokens), `StatesSingleUse`
(StateRedeemedOnce), `ReconnectedKeepsToken` (RevokeSpares), `DisconnectIsFinal`.
The invariant follows a state: while it is in the map nothing else has it
(`Spent`), later exactly one request, then exactly one grant (`Once`). Therefore
a grant never changes hands (`GrantsStay`), and every token's owner is known
from its grant. RevokeSpares needs `Unsaved`: a token on its way to Save is in no
row yet and was never handed to the revoke goroutine. `ServedValidAlone` is the extent
of finding 3: with one request at a time (`OneAtATime`) ServedValid holds, whatever
else overlaps it. Then a refresh under way is of the token in its user's row, or
there is no row (`Unmixed`).

*The counts of ImportQueue* (`ImportAccountingProofs`): `CompleteIsExact`
(ExactAccounting), if Postgres itself does not fail, and `SessionOutlivesJob`
(SessionKept), whatever fails. ExactAccounting needs to know the counts at every
point of the loop. They can be wrong there: a statement that the deadline cut off
is not counted, or is counted without the replica knowing. `Accounts` therefore
says what they are only while the context is not done, and a row is completed
only under such a context. `Walked` says that a replica past the loop has
walked its whole list: SessionKept is about the very replica that deletes the session, and it
has walked its own job's list, whatever other jobs of the session did.

*Order and stranding* (`ImportOrderProofs`): `OldestFirst` (InTurn). The order in
which rows become visible is not the order of `created_at`, so nothing is claimed of
rows that appear after a claim's SELECT; of those it found and left, another claim
must give account. `Owed` adds to InTurn that these rows exist: one whose INSERT
is still to commit would otherwise become pending with no claim on it. At the
SELECT they are the older rows that other claims hold locked (`SelectOwes`), and a
lock ends with its row started or its claim given up (`OwedElsewhere`). `CutShort`
says that a replica past MarkComplete whose row still runs has a done context.
`OnlyTheCutStrand` (StrandedOnlyByCut), if Postgres itself does not fail: every
step that leaves a job running without a replica finds its context done or is a
crash. `EndsTerminalUncut` (ProcessEndsTerminal), where only crashes may happen,
and `NothingStranded`, without faults, are the extent of finding 1: with a
deadline or a shutdown the first is violated (`import_stuck`).

*GrantLifecycle* (`GrantLifecycleProofs`): `TokensImplementGrants`
(ImplementsGrants). The refinement map reads a grant's life off five facts, and
Inv of OAuthTokensProofs is what keeps them apart: one request at most saves a
grant, one being saved is in no row and was never dropped, a row has no dropped
one, no two users have the same. One part is added, `Attempted`: no grant is
revoked twice, without which a crash could turn "revoking" into "revoked".

*PickerFlow*, for any calls and retries. Two invariants. `Inv` holds whenever host
code calls (`FlowInvariant`), and with it `FlowTypeCorrect` and
`ExpiredOnlyInError` (ExpiredIsError); it needs `NoneExpired`, that no expiry is
shown, or thrown, while a call waits for a continuation that would change the
phase. `WellShown` holds where host code calls from click handlers only
(`ShownInvariant`), and with it `PhaseIsCurrentCalls` (PhaseMatches),
`ResultIsCurrentCalls` (DoneIsCurrent) and `StaleShowsNothing`
(StaleLeavesShown). It needs `ReadyIsCurrent`: a call whose inner function has
resolved is still current when its continuation runs, since no click handler
comes in between. For that reason these assume `~Reentrant`; TLC finds
PhaseMatches violated without it.

*EndToEnd*, for any starts, sessions, picks, page size, retries and caps, and
whenever host code calls: `BrowserIsFlow`, that the browser of the composition
behaves as PickerFlow. Its jobs are JobLifecycle's by construction, as it changes
them through that module's actions only; that the queue follows it
is `QueueImplementsLifecycle`. Then `SystemTypeCorrect`, `DoneMeansImported` (DoneIsImported), `MissingMeansLost`
(NotFoundMeansLost), `ConfirmedPicksWin` (PicksWin),
`SinkWholeAndBounded` (WholeAndBounded). None of them needs `~Reentrant`:
`SystemInv` takes only `Inv` of the flow and adds a part for each thing that
travels: `Wiring`, which reply belongs to which fetch and session; `Walking` and
`Sinking`, how far the worker is and what the row counts and the sink holds by
then; `Followed`, what each call was told about its job, up to the answer under
way; `DoneShown`. PicksWin has an invariant of its own from the moment it speaks of:
`Taken`, that Google has the selection, or had it, and no answer without it is being
made nor was one of an expiry given; no step of the call, of the service or of a
clock undoes that (`TakenStays`). `OneMoves`, `LocalMoves` and `DeliverMoves` sum up once what a step of the browser does to a call, so that the
service's proofs do not go through PickerFlow's actions again. `CapsAreExact` says
of PickerAPI's decisions, for any caps below MaxInt64, that reading one byte more
neither cuts a photo that is within the caps nor lets one by that is not.

Only model-checked: the liveness properties (JobsFinish, ShutdownEnds, StatesSwept,
CallsSettle, StartsSettle), which the prover cannot reach.

## 6. Not modelled

* Encryption: AES-GCM of the standard library. That Open may fail is an outcome.
* Running the migrations: one call into goose. The schema's columns and defaults
  are the initial states.
* The example server: wiring of the library for a demonstration.
* The bindings, beyond the calls they hand to the host: they subscribe a
  component to the flow and keep no state.
* The HTML of the callback page, the defaults of the constructors and who the
  request's user is (ResolveUserID): no state or order of their own.

## 7. Plan

1. *Done*: JobLifecycle, ImportQueue, its runs and proofs; the most important
   behaviour, since it decides which photos arrive.
2. *Done*: StateStore, OAuthTokens, their runs and proofs.
3. *Done*: PickerFlow, its runs and proofs.
4. *Done*: PickerAPI and EndToEnd, their runs and proofs.
5. *Done*: the proofs of ExactAccounting, SessionKept, InTurn and
   StrandedOnlyByCut; GrantLifecycle and its refinement; the flow's stale calls; the
   system without an assumption on host code.
6. *Left*: to connect OAuthTokens to EndToEnd, so that
   "connected" as the page shows it can be compared to the table; today a token
   that is missing is one of the ways a request to Google fails.
