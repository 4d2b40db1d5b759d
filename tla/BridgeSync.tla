----------------------------- MODULE BridgeSync -----------------------------
(***************************************************************************)
(* The synchronisation scheduler of src/bridge/react/BridgeSync.tsx: the   *)
(* actions of the Sync function put tasks in a priority queue, up to       *)
(* Concurrency workers take them out, and the background loop and the loop *)
(* of the pending operations call Sync on their own.                       *)
(*                                                                         *)
(* The workers and Sync are closures over what React rendered: `seen` is   *)
(* what the closures in synchronizeRef and in the ref of useSync know,     *)
(* while `state` and `known` are what was rendered last.  The refs are set *)
(* by passive effects, which run some time after the render and, at the    *)
(* latest, just before the next one.                                       *)
(***************************************************************************)
EXTENDS Integers, Sequences, FiniteSets, SequencesExt

CONSTANTS
  AccountIds,    \* account ids
  Priorities,    \* the priorities given to Sync
  NoBridge,      \* the accounts whose sync may throw when it starts
  PendingOps,    \* the accounts that have pending operations
  PendingPriority,  \* the priority of the loop of the pending operations
  Concurrency,   \* SYNC_MAX_CONCURRENT
  LateEffects,   \* FALSE: a passive effect runs at once after its render
  MaxRequests,   \* bound: actions of the user
  MaxTasks       \* bound: tasks in the queue when the loops push to it

ASSUME BridgeSyncAssumption ==
  /\ Priorities \subseteq Int
  /\ -1 \in Priorities
  /\ PendingPriority \in Int
  /\ PendingOps \subseteq AccountIds
  /\ Concurrency \in Nat \ {0}
  /\ LateEffects \in BOOLEAN

VARIABLES
  state,       \* bridgeSyncState, as rendered last
  known,       \* the ids of the accounts, as rendered last
  seen,        \* the render that the closures in the refs come from
  queue,       \* queue[s]: accounts waiting in the heap with stored priority s
  running,     \* running[a]: syncs of account a that have not ended
  numRunning,  \* numRunning of the queue: workers that have not called next()
  scheduled,   \* processingScheduled: the setImmediate of a push is due
  processing,  \* isProcessing: the queue is handing out tasks
  skip,        \* skipUnderPriority.current
  requests,    \* bound: number of actions of the user
  stale        \* history: accounts that a worker took up not knowing their state

syncVars == <<state, known, seen, queue, running, numRunning, scheduled,
              processing, skip, requests, stale>>

\* push(ids, -priority): the heap serves the smallest stored priority first.
Stored == {-p : p \in Priorities \cup {PendingPriority}}

SyncStates == {"idle", "pending", "error"}

SyncInit ==
  /\ state = [a \in AccountIds |-> "idle"]
  /\ known \in SUBSET AccountIds
  /\ seen = [state |-> state, known |-> known]
  /\ queue = [s \in Stored |-> <<>>]
  /\ running = [a \in AccountIds |-> 0]
  /\ numRunning = 0
  /\ scheduled = FALSE
  /\ processing = FALSE
  /\ skip = -1
  /\ requests = 0
  /\ stale = {}

Empty == \A s \in Stored : queue[s] = <<>>

\* syncQueue.idle()
QueueIdle == numRunning = 0 /\ Empty

NumTasks == FoldFunction(LAMBDA tasks, n : Len(tasks) + n, 0, queue)

(***************************************************************************)
(* React.  Outside of an event handler a setState renders at once, after   *)
(* the passive effects of the render before it.                            *)
(***************************************************************************)

Rendered == [state |-> state, known |-> known]

Rerender(newState, newKnown) ==
  /\ state' = newState
  /\ known' = newKnown
  /\ seen' = IF LateEffects THEN Rendered
             ELSE [state |-> newState, known |-> newKnown]

SetAccountSyncState(a, v) == Rerender([state EXCEPT ![a] = v], known)

\* The passive effects of the last render, when the thread is free.  An
\* accountUpdater, which renders the same ids again, has this effect as well.
RunEffects ==
  /\ ~processing
  /\ seen # Rendered
  /\ seen' = Rendered
  /\ UNCHANGED <<state, known, queue, running, numRunning, scheduled,
                 processing, skip, requests, stale>>

(***************************************************************************)
(* Sync.  The ids are pushed in any order: it is shuffled, or the caller's.*)
(***************************************************************************)

\* `o` is a node of the heap, so that o.priority is a stored priority: the
\* tasks that are removed are those scheduled with the opposite priority.
Push(ids, priority) ==
  /\ \E order \in SetToSeqs(ids) :
       queue' = [s \in Stored |->
         LET kept == IF s = priority THEN <<>> ELSE queue[s]
         IN  IF s = -priority THEN kept \o order ELSE kept]
  /\ scheduled' = TRUE

Schedule(ids, priority, floor) ==
  \/ priority < floor /\ UNCHANGED <<queue, scheduled>>
  \/ priority >= floor /\ Push(ids, priority)

\* The actions of the user come when the thread is free.
Request ==
  /\ ~processing
  /\ requests < MaxRequests
  /\ requests' = requests + 1

SyncSomeAccounts(ids, priority) ==
  /\ Request
  /\ Schedule(ids, priority, skip)
  /\ UNCHANGED <<state, known, seen, running, numRunning, processing, skip, stale>>

SyncAllAccounts(priority) == SyncSomeAccounts(seen.known, priority)

SyncOneAccount(a, priority) == SyncSomeAccounts({a}, priority)

\* The tasks under the priority are meant to be removed from the queue, but
\* they are compared to the ref itself, and none is.
SetSkipUnderPriority(priority, upToDate) ==
  /\ Request
  /\ skip' = priority
  /\ IF priority # skip /\ priority = -1 /\ ~upToDate
     THEN Schedule(seen.known, -1, priority)
     ELSE UNCHANGED <<queue, scheduled>>
  /\ UNCHANGED <<state, known, seen, running, numRunning, processing, stale>>

\* The accounts that are injected change.
SetAccounts(ids) ==
  /\ Request
  /\ Rerender(state, ids)
  /\ UNCHANGED <<queue, running, numRunning, scheduled, processing, skip, stale>>

BackgroundTick ==
  /\ ~processing
  /\ IF QueueIdle THEN Schedule(seen.known, -1, skip)
     ELSE UNCHANGED <<queue, scheduled>>
  /\ UNCHANGED <<state, known, seen, running, numRunning, processing, skip,
                 requests, stale>>

\* refIds is set by a passive effect too.
PendingTick ==
  /\ ~processing
  /\ NumTasks < MaxTasks
  /\ Schedule(PendingOps \cap seen.known, PendingPriority, skip)
  /\ UNCHANGED <<state, known, seen, running, numRunning, processing, skip,
                 requests, stale>>

(***************************************************************************)
(* The queue hands out tasks without a pause, one after the other, to the  *)
(* worker `synchronize`.                                                   *)
(***************************************************************************)

StartProcessing ==
  /\ scheduled
  /\ ~processing
  /\ scheduled' = FALSE
  /\ processing' = TRUE
  /\ UNCHANGED <<state, known, seen, queue, running, numRunning, skip, requests, stale>>

StopProcessing ==
  /\ processing
  /\ numRunning = Concurrency \/ Empty
  /\ processing' = FALSE
  /\ UNCHANGED <<state, known, seen, queue, running, numRunning, scheduled,
                 skip, requests, stale>>

\* The next task of the heap is one for account a.
Take(a) ==
  /\ processing
  /\ numRunning < Concurrency
  /\ \E s \in Stored :
       /\ queue[s] # <<>>
       /\ \A r \in Stored : r < s => queue[r] = <<>>
       /\ a = Head(queue[s])
       /\ queue' = [queue EXCEPT ![s] = Tail(@)]

\* Mutant: an account that is pending is synchronised as well.
WantedAgain(a) == a \in seen.known

\* The guards of `synchronize`, in the closure that the ref holds.
Wanted(a) == seen.state[a] # "pending" /\ a \in seen.known

\* next() is called at once, and the queue goes on.
DropTask(a) ==
  /\ Take(a)
  /\ ~Wanted(a)
  /\ UNCHANGED <<state, known, seen, running, numRunning, scheduled,
                 processing, skip, requests, stale>>

TakenUp(a) == stale' = IF seen.state[a] = state[a] THEN stale ELSE stale \cup {a}

\* The catch of synchronize.
StartFails(a) ==
  /\ Take(a)
  /\ Wanted(a)
  /\ a \in NoBridge
  /\ SetAccountSyncState(a, "error")
  /\ TakenUp(a)
  /\ UNCHANGED <<running, numRunning, scheduled, processing, skip, requests>>

StartSync(a) ==
  /\ Take(a)
  /\ Wanted(a)
  /\ SetAccountSyncState(a, "pending")
  /\ running' = [running EXCEPT ![a] = @ + 1]
  /\ numRunning' = numRunning + 1
  /\ TakenUp(a)
  /\ UNCHANGED <<scheduled, processing, skip, requests>>

\* Mutant: an error that recoverError silences leaves the account pending.
EndedSilently(a, error) ==
  IF error THEN SetAccountSyncState(a, "error")
           ELSE UNCHANGED <<state, known, seen>>

\* complete, or an error that recoverError silences, or another error.
Ended(a, error) == SetAccountSyncState(a, IF error THEN "error" ELSE "idle")

\* next(): the worker is free again and the queue hands out the next tasks.
EndSync(a, error) ==
  /\ ~processing
  /\ running[a] > 0
  /\ Ended(a, error)
  /\ running' = [running EXCEPT ![a] = @ - 1]
  /\ numRunning' = numRunning - 1
  /\ processing' = TRUE
  /\ UNCHANGED <<queue, scheduled, skip, requests, stale>>

Worker(a) == DropTask(a) \/ StartFails(a) \/ StartSync(a)

End(a) == \E error \in BOOLEAN : EndSync(a, error)

SyncUser ==
  \/ \E p \in Priorities :
       \/ SyncAllAccounts(p)
       \/ \E a \in AccountIds : SyncOneAccount(a, p)
       \/ \E upToDate \in BOOLEAN : SetSkipUnderPriority(p, upToDate)
  \/ \E ids \in SUBSET AccountIds : SetAccounts(ids)

SyncNext ==
  \/ SyncUser
  \/ BackgroundTick
  \/ PendingTick
  \/ RunEffects
  \/ StartProcessing
  \/ StopProcessing
  \/ \E a \in AccountIds : Worker(a) \/ End(a)

SyncSpec == SyncInit /\ [][SyncNext]_syncVars

\* The queue hands out tasks until it stops; in between the thread is free again
\* and again, and whatever is due gets it: the effects, the setImmediate, the
\* timer of the background loop, the end of a sync.
SyncFairness ==
  /\ WF_syncVars(StopProcessing \/ \E a \in AccountIds : Worker(a))
  /\ SF_syncVars(RunEffects)
  /\ SF_syncVars(StartProcessing)
  /\ SF_syncVars(BackgroundTick)
  /\ \A a \in AccountIds : SF_syncVars(End(a))

FairSyncSpec == SyncSpec /\ SyncFairness

-----------------------------------------------------------------------------
SyncTypeOK ==
  /\ state \in [AccountIds -> SyncStates]
  /\ known \in SUBSET AccountIds
  /\ seen \in [state : [AccountIds -> SyncStates], known : SUBSET AccountIds]
  /\ queue \in [Stored -> Seq(AccountIds)]
  /\ running \in [AccountIds -> Nat]
  /\ numRunning \in 0 .. Concurrency
  /\ scheduled \in BOOLEAN
  /\ processing \in BOOLEAN
  /\ skip \in Priorities
  /\ requests \in Nat
  /\ stale \subseteq AccountIds

NoPhantomPending ==
  \A a \in AccountIds : state[a] = "pending" => running[a] > 0

OneSync ==
  \A a \in AccountIds \ stale : running[a] = IF state[a] = "pending" THEN 1 ELSE 0

\* bridgeSyncState tells the truth, however late the effects run and however often an
\* account is queued: what is shown as pending has a sync that will end it, and an account
\* is pending exactly while one sync of it runs, unless a worker ever took it up with a
\* closure that did not know its last state.
PendingIsOneSync == NoPhantomPending /\ OneSync

\* "continuously synchronize accounts in background": as long as nothing skips
\* the background and no account that is known has pending operations, an
\* account that stays known is synchronised again and again, although ticks
\* are lost while the queue is busy and tasks are dropped by old closures.
AccountsReached ==
  \A a \in AccountIds \ NoBridge :
    <>[](skip = -1 /\ a \in known /\ PendingOps \cap known = {})
      => []<>(running[a] > 0)
=============================================================================
