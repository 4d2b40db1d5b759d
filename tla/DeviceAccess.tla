---------------------------- MODULE DeviceAccess ----------------------------
(***************************************************************************)
(* withDevice and withDevicePolling of src/hw/deviceAccess.ts.             *)
(*                                                                         *)
(* A session is one subscription to the observable of withDevice.  The     *)
(* sessions of a device are chained by promises: a session waits for the   *)
(* `finish` of the session that subscribed just before it, opens the       *)
(* transport, flushes an APDU exchange that an earlier session left        *)
(* interrupted, runs its job, closes the transport and calls `finish`.     *)
(* A session may be unsubscribed at any time, and withDevicePolling        *)
(* subscribes a new session after a job that failed with an acceptable     *)
(* error.                                                                  *)
(***************************************************************************)
EXTENDS FiniteSets

CONSTANTS
  Sessions,         \* the subscriptions to withDevice(deviceId)(job)
  NoSession,        \* the `Promise.resolve()` at the head of a queue
  Devices,          \* device ids
  Device,           \* Device[s]: the device id of session s
  RetryOf,          \* RetryOf[s]: the session whose failure is polled again by s
  Ids,              \* values of identifyTransport(transport)
  TransportId,      \* TransportId[d]: the one of the transports of device d
  MayThrow,         \* the sessions whose job, hooks or cleanups may throw
  PriorityMayFail   \* those whose requestConnectionPriority may reject

ASSUME ConstantsAssumption ==
  /\ NoSession \notin Sessions
  /\ Device \in [Sessions -> Devices]
  /\ RetryOf \in [Sessions -> Sessions \cup {NoSession}]
  /\ TransportId \in [Devices -> Ids]
  /\ MayThrow \subseteq Sessions
  /\ PriorityMayFail \subseteq Sessions

VARIABLES
  phase,          \* where the promise chain of each session is
  unsubscribed,   \* the flag set by the teardown of each session
  tail,           \* deviceQueues: the last session chained on each device
  prev,           \* the session whose `finish` each session waits for
  finished,       \* `finish` of the session was called
  open,           \* the sessions whose transport is open
  hooked,         \* the sessions whose access hooks are not cleaned up
  needsCleanup,   \* the transport ids given to cancelDeviceAction
  outcome,        \* how the job of a session ended
  interrupted,    \* the devices left in the middle of a series of APDUs
  ahead           \* history: who was chained on the device before a session

vars == <<phase, unsubscribed, tail, prev, finished, open, hooked,
          needsCleanup, outcome, interrupted, ahead>>

Phases == {"idle",          \* not subscribed
           "waiting",       \* deviceQueue.then(...)
           "opening",       \* open(deviceId)
           "flushing",      \* transport.send(0, 0, 0, 0)
           "prioritizing",  \* requestConnectionPriority("High")
           "ready",         \* the transport goes to the next `then`
           "running",       \* the job is subscribed
           "closing",       \* close(transport, deviceId)
           "backoff",       \* timer(WITH_DEVICE_POLLING_DELAY)
           "over"}          \* completed, failed or torn down

Outcomes == {"none", "complete", "error", "retry", "rejected", "thrown"}

Id(s) == TransportId[Device[s]]

Retried(s) == \E t \in Sessions : RetryOf[t] = s

Init ==
  /\ phase = [s \in Sessions |-> "idle"]
  /\ unsubscribed = [s \in Sessions |-> FALSE]
  /\ tail = [d \in Devices |-> NoSession]
  /\ prev = [s \in Sessions |-> NoSession]
  /\ finished = [s \in Sessions |-> FALSE]
  /\ open = {}
  /\ hooked = {}
  /\ needsCleanup = {}
  /\ outcome = [s \in Sessions |-> "none"]
  /\ interrupted = {}
  /\ ahead = [s \in Sessions |-> {}]

Goto(s, p) == phase' = [phase EXCEPT ![s] = p]

(***************************************************************************)
(* Subscribing: the new promise becomes the queue of the device.           *)
(***************************************************************************)

\* Mutant: a queue that exists is not replaced by the new promise.
EnqueueKeepsTail(s) ==
  /\ prev' = [prev EXCEPT ![s] = tail[Device[s]]]
  /\ tail' = [tail EXCEPT ![Device[s]] = IF @ = NoSession THEN s ELSE @]
  /\ ahead' = [ahead EXCEPT ![s] =
       {t \in Sessions : Device[t] = Device[s] /\ phase[t] # "idle"}]
  /\ UNCHANGED <<unsubscribed, finished, open, hooked, needsCleanup, outcome,
                 interrupted>>

Enqueue(s) ==
  /\ prev' = [prev EXCEPT ![s] = tail[Device[s]]]
  /\ tail' = [tail EXCEPT ![Device[s]] = s]
  /\ ahead' = [ahead EXCEPT ![s] =
       {t \in Sessions : Device[t] = Device[s] /\ phase[t] # "idle"}]
  /\ UNCHANGED <<unsubscribed, finished, open, hooked, needsCleanup, outcome,
                 interrupted>>

Subscribe(s) ==
  /\ phase[s] = "idle"
  /\ RetryOf[s] = NoSession
  /\ Goto(s, "waiting")
  /\ Enqueue(s)

\* retryWhileErrors: the delay of the polling has elapsed.
Retry(s) ==
  /\ phase[s] = "idle"
  /\ RetryOf[s] # NoSession
  /\ phase[RetryOf[s]] = "backoff"
  /\ phase' = [phase EXCEPT ![RetryOf[s]] = "over", ![s] = "waiting"]
  /\ Enqueue(s)

(***************************************************************************)
(* The turn of a session: open, flush, raise the connection priority.      *)
(***************************************************************************)

\* Mutant: a session only waits until the one before it is past its open.
MyTurnAfterOpen(s) ==
  prev[s] # NoSession => phase[prev[s]] \notin {"waiting", "opening"}

MyTurn(s) == prev[s] # NoSession => finished[prev[s]]

StartOpen(s) ==
  /\ phase[s] = "waiting"
  /\ MyTurn(s)
  /\ Goto(s, "opening")
  /\ UNCHANGED <<unsubscribed, tail, prev, finished, open, hooked,
                 needsCleanup, outcome, interrupted, ahead>>

\* `finalize`: the transport is asked to close, the rest follows in Closed.
\* needsCleanup is deleted when read, before the flush is sent.
OpenOk(s) ==
  /\ phase[s] = "opening"
  /\ open' = open \cup {s}
  /\ \/ /\ unsubscribed[s]
        /\ Goto(s, "closing")
        /\ UNCHANGED needsCleanup
     \/ /\ ~unsubscribed[s]
        /\ Id(s) \in needsCleanup
        /\ needsCleanup' = needsCleanup \ {Id(s)}
        /\ Goto(s, "flushing")
     \/ /\ ~unsubscribed[s]
        /\ Id(s) \notin needsCleanup
        /\ UNCHANGED needsCleanup
        /\ Goto(s, "prioritizing")
  /\ UNCHANGED <<unsubscribed, tail, prev, finished, hooked, outcome,
                 interrupted, ahead>>

\* The catch of open: `finish` first, then an error that is never polled again.
FailBeforeJob(s, how) ==
  /\ finished' = [finished EXCEPT ![s] = TRUE]
  /\ outcome' = [outcome EXCEPT ![s] = how]
  /\ Goto(s, "over")
  /\ UNCHANGED <<unsubscribed, tail, prev, open, hooked, needsCleanup,
                 interrupted, ahead>>

OpenFails(s) ==
  /\ phase[s] = "opening"
  /\ FailBeforeJob(s, "error")

\* The empty APDU was sent, and an error of it is ignored.
FlushDone(s) ==
  /\ phase[s] = "flushing"
  /\ interrupted' = interrupted \ {Device[s]}
  /\ Goto(s, "prioritizing")
  /\ UNCHANGED <<unsubscribed, tail, prev, finished, open, hooked,
                 needsCleanup, outcome, ahead>>

\* Also the step of a transport that has no requestConnectionPriority.
PriorityDone(s) ==
  /\ phase[s] = "prioritizing"
  /\ Goto(s, "ready")
  /\ UNCHANGED <<unsubscribed, tail, prev, finished, open, hooked,
                 needsCleanup, outcome, interrupted, ahead>>

\* The rejection goes to the catch that was written for open: the transport
\* stays open.
PriorityFails(s) ==
  /\ s \in PriorityMayFail
  /\ phase[s] = "prioritizing"
  /\ FailBeforeJob(s, "rejected")

(***************************************************************************)
(* The job.                                                                *)
(***************************************************************************)

StartJob(s) ==
  /\ phase[s] = "ready"
  /\ \/ /\ unsubscribed[s]
        /\ Goto(s, "closing")
        /\ UNCHANGED hooked
     \/ /\ ~unsubscribed[s]
        /\ hooked' = hooked \cup {s}
        /\ Goto(s, "running")
  /\ UNCHANGED <<unsubscribed, tail, prev, finished, open, needsCleanup,
                 outcome, interrupted, ahead>>

\* The last catch of the chain only forwards the error: nothing is closed and
\* `finish` is not called.  A job that throws makes an acceptable error.
JobThrows(s) ==
  /\ s \in MayThrow
  /\ phase[s] = "ready"
  /\ ~unsubscribed[s]
  /\ hooked' = hooked \cup {s}
  /\ outcome' = [outcome EXCEPT ![s] = "thrown"]
  /\ Goto(s, IF Retried(s) THEN "backoff" ELSE "over")
  /\ UNCHANGED <<unsubscribed, tail, prev, finished, open, needsCleanup,
                 interrupted, ahead>>

\* Mutant: the interruption is not remembered.
CancelNothing(s) ==
  /\ interrupted' = interrupted \cup {Device[s]}
  /\ UNCHANGED needsCleanup

\* cancelDeviceAction, called by the teardown of a job that is in the middle
\* of a bulk of APDUs.
CancelDeviceAction(s) ==
  /\ interrupted' = interrupted \cup {Device[s]}
  /\ needsCleanup' = needsCleanup \cup {Id(s)}

\* transportFinally: the close starts before the outcome is known outside.
JobEnds(s, how, midBulk) ==
  /\ phase[s] = "running"
  /\ IF midBulk THEN CancelDeviceAction(s)
                ELSE UNCHANGED <<interrupted, needsCleanup>>
  /\ outcome' = [outcome EXCEPT ![s] = how]
  /\ Goto(s, "closing")
  /\ UNCHANGED <<unsubscribed, tail, prev, finished, open, hooked, ahead>>

\* Mutant: the list of cleanups is that of the hooks.
FinalizeWithoutFinish(s) ==
  /\ open' = open \ {s}
  /\ hooked' = hooked \ {s}
  /\ UNCHANGED finished

\* `finalize`, once the close has answered, well or not: the cleanups of the
\* hooks run and `finish` is the last of them.
Finalize(s) ==
  /\ open' = open \ {s}
  /\ hooked' = hooked \ {s}
  /\ finished' = [finished EXCEPT ![s] = TRUE]

\* After that the outcome goes to whoever is still subscribed.
Closed(s) ==
  /\ phase[s] = "closing"
  /\ Finalize(s)
  /\ Goto(s, IF ~unsubscribed[s] /\ outcome[s] = "retry" /\ Retried(s)
             THEN "backoff" ELSE "over")
  /\ UNCHANGED <<unsubscribed, tail, prev, needsCleanup, outcome, interrupted,
                 ahead>>

\* A cleanup throws within the promise of the close: those after it do not run,
\* `finish` among them, and nobody is told.
CleanupThrows(s) ==
  /\ s \in MayThrow
  /\ phase[s] = "closing"
  /\ s \in hooked
  /\ open' = open \ {s}
  /\ outcome' = [outcome EXCEPT ![s] = "thrown"]
  /\ Goto(s, "over")
  /\ UNCHANGED <<unsubscribed, tail, prev, finished, hooked, needsCleanup,
                 interrupted, ahead>>

(***************************************************************************)
(* The teardown.  Before the job it only sets the flag; the session keeps  *)
(* its place in the queue.                                                 *)
(***************************************************************************)

Unsubscribe(s, midBulk) ==
  /\ ~unsubscribed[s]
  /\ phase[s] \notin {"idle", "over"}
  /\ midBulk => phase[s] = "running"
  /\ unsubscribed' = [unsubscribed EXCEPT ![s] = TRUE]
  /\ IF midBulk THEN CancelDeviceAction(s)
                ELSE UNCHANGED <<interrupted, needsCleanup>>
  /\ phase' = [phase EXCEPT ![s] =
       CASE @ = "running" -> "closing"
         [] @ = "backoff" -> "over"
         [] OTHER -> @]
  /\ UNCHANGED <<tail, prev, finished, open, hooked, outcome, ahead>>

Advance(s) ==
  \/ StartOpen(s) \/ OpenOk(s) \/ OpenFails(s) \/ FlushDone(s)
  \/ PriorityDone(s) \/ PriorityFails(s) \/ StartJob(s) \/ JobThrows(s)
  \/ \E how \in {"complete", "error", "retry"}, midBulk \in BOOLEAN :
       JobEnds(s, how, midBulk)
  \/ Closed(s) \/ CleanupThrows(s) \/ Retry(s)

Step(s) ==
  \/ Subscribe(s)
  \/ Advance(s)
  \/ \E midBulk \in BOOLEAN : Unsubscribe(s, midBulk)

Next == \E s \in Sessions : Step(s)

Spec == Init /\ [][Next]_vars

\* The promise callbacks run, the transport answers every call, a job ends
\* when it is left alone and the polling timer fires.  deviceAccess.ts has no
\* timeout of its own: without these answers nobody else gets the device.
Fairness == \A s \in Sessions : WF_vars(Advance(s))

FairSpec == Spec /\ Fairness

-----------------------------------------------------------------------------
TypeOK ==
  /\ phase \in [Sessions -> Phases]
  /\ unsubscribed \in [Sessions -> BOOLEAN]
  /\ tail \in [Devices -> Sessions \cup {NoSession}]
  /\ prev \in [Sessions -> Sessions \cup {NoSession}]
  /\ finished \in [Sessions -> BOOLEAN]
  /\ open \subseteq Sessions
  /\ hooked \subseteq Sessions
  /\ needsCleanup \subseteq Ids
  /\ outcome \in [Sessions -> Outcomes]
  /\ interrupted \subseteq Devices
  /\ ahead \in [Sessions -> SUBSET Sessions]

\* A device never serves two jobs at once, however sessions are retried,
\* unsubscribed or fail: the race that withDevice protects from (docs/hw.md).
OneJobPerDevice ==
  \A s, t \in Sessions :
    phase[s] = "running" /\ phase[t] = "running" /\ Device[s] = Device[t]
      => s = t

\* Two transports of a device are never open at the same time: the close of a
\* session is answered before the open of the next one is attempted.  Only the
\* transport of a rejected requestConnectionPriority is left open.
OneTransportPerDevice ==
  \A s, t \in open :
    Device[s] = Device[t] /\ s # t => "rejected" \in {outcome[s], outcome[t]}

\* "close the transport and clean up everything": a session that lets the next
\* one go has cleaned up its access hooks and closed its transport, unless
\* requestConnectionPriority rejected.
CleanedUp ==
  \A s \in Sessions : finished[s] =>
    /\ s \notin hooked
    /\ s \in open => outcome[s] = "rejected"

\* Nobody is told that a session ended, and no poll is scheduled, before it has
\* let the next one go, unless it threw.  A poll that is scheduled earlier
\* waits for itself.
ReleasedUnlessThrown ==
  \A s \in Sessions :
    phase[s] \in {"backoff", "over"} => finished[s] \/ outcome[s] = "thrown"

\* "so we don't forget to cleanup on the next withDevice": a job never starts
\* on a device that is still in the middle of the APDUs of an earlier job.
FlushedBeforeJob ==
  [][\A s \in Sessions :
       phase[s] # "running" /\ phase'[s] = "running"
         => Device[s] \notin interrupted]_vars

\* Every session that joined a queue gets its turn and lets the next one go,
\* also the unsubscribed ones and those behind them, unless one threw.
EveryoneServed ==
  \A s \in Sessions : phase[s] = "waiting" ~>
    finished[s] \/ \E t \in ahead[s] \cup {s} : outcome[t] = "thrown"

(***************************************************************************)
(* The inductive invariant behind the order of the queue.                  *)
(***************************************************************************)

\* The phases before the turn of a session.
Early == {"idle", "waiting"}

Queued(d) == {s \in Sessions : Device[s] = d /\ phase[s] # "idle"}

\* Those ahead of a session are the one whose `finish` it waits for and those
\* ahead of that one.
Linked ==
  \A s \in Sessions :
    ahead[s] = IF prev[s] = NoSession THEN {} ELSE ahead[prev[s]] \cup {prev[s]}

\* deviceQueues[d] is the last of the sessions of d: all others are ahead.
TailIsLast ==
  \A d \in Devices :
    Queued(d) = IF tail[d] = NoSession THEN {} ELSE ahead[tail[d]] \cup {tail[d]}

\* The sessions of a device are in one line.
OneLine ==
  \A s, t \in Sessions :
    phase[s] # "idle" /\ phase[t] # "idle" /\ Device[s] = Device[t] /\ s # t
      => s \in ahead[t] \/ t \in ahead[s]

\* A session only has sessions of its device ahead; it is never ahead of itself.
AheadIsQueued ==
  \A s \in Sessions : ahead[s] \subseteq Queued(Device[s]) \ {s}

\* A session leaves the line only after everybody ahead of it called `finish`.
InOrder ==
  \A s \in Sessions : phase[s] \notin Early => \A t \in ahead[s] : finished[t]

FinishedIsOver ==
  \A s \in Sessions : finished[s] => phase[s] \in {"backoff", "over"}

\* The chain of promises is one line per device, served in order: nobody has
\* its turn before everybody who subscribed earlier has called `finish`.
QueueInv ==
  Linked /\ TailIsLast /\ OneLine /\ AheadIsQueued /\ InOrder /\ FinishedIsOver

(***************************************************************************)
(* The inductive invariants behind the cleanup and the flush.              *)
(***************************************************************************)

\* No transport is held before it is open, and no hook before the job.
EarlyHoldsNothing ==
  /\ \A s \in open : phase[s] \notin Early \cup {"opening"}
  /\ \A s \in hooked : phase[s] \in {"running", "closing", "backoff", "over"}

\* An interrupted device is either remembered or being flushed, and it is not
\* interrupted any more once a session has passed the flush.
FlushPending ==
  /\ \A d \in interrupted :
       \/ TransportId[d] \in needsCleanup
       \/ \E s \in Sessions : Device[s] = d /\ phase[s] = "flushing"
  /\ \A s \in Sessions :
       phase[s] \in {"prioritizing", "ready"} => Device[s] \notin interrupted

(***************************************************************************)
(* withDevice implements the first-come first-served lock of each device.  *)
(***************************************************************************)

LockStage(s) ==
  IF phase[s] = "idle" THEN "out"
  ELSE IF phase[s] = "waiting" THEN "waiting"
  ELSE IF finished[s] THEN "back" ELSE "holding"

Lock == INSTANCE DeviceLock WITH stage <- [s \in Sessions |-> LockStage(s)]

\* The queue of promises is a fair lock: sessions get a device in the order in
\* which they subscribed, one at a time, and give it back once.
LockSpec == Lock!Spec
=============================================================================
