------------------------------ MODULE StateStore ------------------------------
(***************************************************************************)
(* The stateStore of oauth.go: OAuth state parameters bound to users in    *)
(* the memory of one process, redeemed once, swept in the background until *)
(* Close. create, consume and sweep hold the mutex throughout and are one  *)
(* step each; Close holds none and is two.                                 *)
(***************************************************************************)
EXTENDS Naturals

CONSTANTS
  Users,
  States,    \* the 32-byte random strings create may draw
  Closers,   \* goroutines that may call Client.Close
  TTL,       \* stateTTL, in ticks of the clock
  Horizon,   \* bound: the clock stops here
  NoUser

ASSUME StoreAssumption == NoUser \notin Users /\ TTL \in Nat /\ Horizon \in Nat

VARIABLES
  now,
  bound,     \* entries: the user each live state is bound to, NoUser if none
  expiresAt, \* entries: until when
  issuedTo,  \* history: the user each state was drawn for
  sweeping,  \* gcLoop runs
  stopped,   \* the stop channel is closed
  closing    \* where each call of Close is

entries   == <<bound, expiresAt, issuedTo>>
sweeper   == <<sweeping, stopped, closing>>
storeVars == <<now, entries, sweeper>>

StoreTypeOK ==
  /\ now       \in Nat
  /\ bound     \in [States -> Users \cup {NoUser}]
  /\ expiresAt \in [States -> Nat]
  /\ issuedTo  \in [States -> Users \cup {NoUser}]
  /\ sweeping  \in BOOLEAN
  /\ stopped   \in BOOLEAN
  /\ closing   \in [Closers -> {"before", "unstopped", "returned", "panicked"}]

StoreInit ==
  /\ now       = 0
  /\ bound     = [s \in States |-> NoUser]
  /\ expiresAt = [s \in States |-> 0]
  /\ issuedTo  = [s \in States |-> NoUser]
  /\ sweeping  = TRUE
  /\ stopped   = FALSE
  /\ closing   = [c \in Closers |-> "before"]

Expired(s) == now > expiresAt[s]

Elapse ==
  /\ now < Horizon
  /\ now' = now + 1
  /\ UNCHANGED <<entries, sweeper>>

\* A random state is drawn once; the bound lets it expire before the horizon.
Issue(s, u) ==
  /\ issuedTo[s] = NoUser
  /\ now + TTL < Horizon
  /\ bound'     = [bound EXCEPT ![s] = u]
  /\ issuedTo'  = [issuedTo EXCEPT ![s] = u]
  /\ expiresAt' = [expiresAt EXCEPT ![s] = now + TTL]
  /\ UNCHANGED <<now, sweeper>>

\* Variant: the entry is looked up and left in the map.
RedeemKeeps(s) == bound[s] # NoUser /\ UNCHANGED storeVars

\* consume finds the entry and deletes it, expired or not.
Redeem(s) ==
  /\ bound[s] # NoUser
  /\ bound' = [bound EXCEPT ![s] = NoUser]
  /\ UNCHANGED <<now, expiresAt, issuedTo, sweeper>>

\* Variant: the sweeper deletes the entries that expire in this very tick.
SweepAtExpiry ==
  /\ sweeping
  /\ bound' = [s \in States |-> IF now = expiresAt[s] THEN NoUser ELSE bound[s]]
  /\ UNCHANGED <<now, expiresAt, issuedTo, sweeper>>

\* A tick of gcLoop; select may take it after stop is closed, too.
Sweep ==
  /\ sweeping
  /\ bound' = [s \in States |-> IF Expired(s) THEN NoUser ELSE bound[s]]
  /\ UNCHANGED <<now, expiresAt, issuedTo, sweeper>>

EndSweeping ==
  /\ sweeping
  /\ stopped
  /\ sweeping' = FALSE
  /\ UNCHANGED <<now, entries, stopped, closing>>

\* Close's select: return if the channel is closed already ...
CloseTest(c) ==
  /\ closing[c] = "before"
  /\ closing' = [closing EXCEPT ![c] = IF stopped THEN "returned" ELSE "unstopped"]
  /\ UNCHANGED <<now, entries, sweeping, stopped>>

\* ... and otherwise close it: closing a closed channel panics.
CloseStop(c) ==
  /\ closing[c] = "unstopped"
  /\ stopped' = TRUE
  /\ closing' = [closing EXCEPT ![c] = IF stopped THEN "panicked" ELSE "returned"]
  /\ UNCHANGED <<now, entries, sweeping>>

\* The process is replaced by a new one, whose store is empty.
Renew ==
  /\ bound'    = [s \in States |-> NoUser]
  /\ sweeping' = TRUE
  /\ stopped'  = FALSE
  /\ closing'  = [c \in Closers |-> "before"]
  /\ UNCHANGED <<now, expiresAt, issuedTo>>

StoreNext ==
  \/ Elapse \/ Sweep \/ EndSweeping \/ Renew
  \/ \E s \in States, u \in Users : Issue(s, u)
  \/ \E s \in States : Redeem(s)
  \/ \E c \in Closers : CloseTest(c) \/ CloseStop(c)

StoreSpec == StoreInit /\ [][StoreNext]_storeVars

\* The clock runs, and a sweeper that was not closed gets its ticks.
FairStore == StoreSpec /\ WF_storeVars(Elapse) /\ WF_storeVars(Sweep)

-------------------------------------------------------------------------------
\* Abandoned consents do not pile up: every state ever issued leaves the map,
\* redeemed or not, unless Close has ended the sweeper.
StatesSwept == \A s \in States : bound[s] # NoUser ~> bound[s] = NoUser \/ stopped

\* client.go:120: "Close releases background resources (the state-store
\* sweeper). Idempotent." Violated by two calls at once: see the findings.
CloseIdempotent == \A c \in Closers : closing[c] # "panicked"
===============================================================================
