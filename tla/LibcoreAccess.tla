--------------------------- MODULE LibcoreAccess ---------------------------
(***************************************************************************)
(* Access to the native library: libcore/access.ts.  Jobs run side by side *)
(* in withLibcore; when the last one ends a timer begins that flushes the  *)
(* library, and what waits in afterLibcoreGC runs behind the flush.        *)
(*                                                                         *)
(* A caller may call again once it was answered.  A promise that is        *)
(* resolved is NoFlush; a job may fail or not, which makes no difference.  *)
(***************************************************************************)
EXTENDS Integers, Sequences, FiniteSets

CONSTANTS
  Callers,   \* of withLibcore
  Items,     \* of afterLibcoreGC
  Flushes,   \* that may run at the same time
  NoFlush

ASSUME LibcoreAssumption ==
  /\ IsFiniteSet(Callers)
  /\ NoFlush \notin Flushes
  /\ {"none", "flush"} \cap Items = {}

VARIABLES
  caller,    \* what each caller waits for or does
  awaits,    \* the lastFlush that it read
  libcoreJobsCounter,
  flushTimeout,   \* whether the timer runs
  lastFlush,
  flushing,  \* what each flush does
  items,     \* what became of each item
  afterLibcoreFlushes,
  core,      \* whether it is there
  corePromise,
  resetting,
  failed     \* for the properties: a load or an item failed

libcoreVars == <<caller, awaits, libcoreJobsCounter, flushTimeout, lastFlush, flushing,
                 items, afterLibcoreFlushes, core, corePromise, resetting, failed>>

LibcoreInit ==
  /\ caller = [j \in Callers |-> "idle"]
  /\ awaits = [j \in Callers |-> NoFlush]
  /\ libcoreJobsCounter = 0
  /\ flushTimeout = FALSE
  /\ lastFlush = NoFlush
  /\ flushing = [f \in Flushes |-> "none"]
  /\ items = [i \in Items |-> "new"]
  /\ afterLibcoreFlushes = <<>>
  /\ core = FALSE
  /\ corePromise = "none"
  /\ resetting = FALSE
  /\ failed = FALSE

(***************************************************************************)
(* withLibcore                                                             *)
(***************************************************************************)

withLibcore(j) ==
  /\ caller[j] = "idle"
  /\ caller' = [caller EXCEPT ![j] = IF core THEN "has core" ELSE "loading"]
  /\ libcoreJobsCounter' = libcoreJobsCounter + 1
  /\ flushTimeout' = FALSE
  /\ corePromise' = IF ~core /\ corePromise = "none" THEN "pending" ELSE corePromise
  /\ UNCHANGED <<awaits, lastFlush, flushing, items, afterLibcoreFlushes, core,
                 resetting, failed>>

\* loadCoreImpl answers all that wait.
CoreLoads ==
  /\ corePromise = "pending"
  /\ corePromise' \in {"loaded", "failed"}
  /\ UNCHANGED <<caller, awaits, libcoreJobsCounter, flushTimeout, lastFlush, flushing,
                 items, afterLibcoreFlushes, core, resetting, failed>>

\* Mutant: lastFlush is not waited for.
LoadedAwaitsNothing(j) ==
  /\ \/ caller[j] = "has core" /\ core' = core
     \/ caller[j] = "loading" /\ corePromise = "loaded" /\ core' = TRUE
  /\ caller' = [caller EXCEPT ![j] = "waiting"]
  /\ UNCHANGED <<awaits, libcoreJobsCounter, flushTimeout, lastFlush, flushing, items,
                 afterLibcoreFlushes, corePromise, resetting, failed>>

\* load is over and the caller waits for the flush that is the last one now.
Loaded(j) ==
  /\ \/ caller[j] = "has core" /\ core' = core
     \/ caller[j] = "loading" /\ corePromise = "loaded" /\ core' = TRUE
  /\ caller' = [caller EXCEPT ![j] = "waiting"]
  /\ awaits' = [awaits EXCEPT ![j] = lastFlush]
  /\ UNCHANGED <<libcoreJobsCounter, flushTimeout, lastFlush, flushing, items,
                 afterLibcoreFlushes, corePromise, resetting, failed>>

\* Without a core no timer begins.
LoadFails(j) ==
  /\ caller[j] = "loading"
  /\ corePromise = "failed"
  /\ caller' = [caller EXCEPT ![j] = "idle"]
  /\ libcoreJobsCounter' = libcoreJobsCounter - 1
  /\ failed' = TRUE
  /\ UNCHANGED <<awaits, flushTimeout, lastFlush, flushing, items, afterLibcoreFlushes,
                 core, corePromise, resetting>>

JobBegins(j) ==
  /\ caller[j] = "waiting" /\ awaits[j] = NoFlush
  /\ caller' = [caller EXCEPT ![j] = "running"]
  /\ UNCHANGED <<awaits, libcoreJobsCounter, flushTimeout, lastFlush, flushing, items,
                 afterLibcoreFlushes, core, corePromise, resetting, failed>>

JobDone(j) ==
  /\ caller[j] = "running"
  /\ caller' = [caller EXCEPT ![j] = "idle"]
  /\ libcoreJobsCounter' = libcoreJobsCounter - 1
  /\ flushTimeout' = (flushTimeout \/ libcoreJobsCounter' = 0)
  /\ UNCHANGED <<awaits, lastFlush, flushing, items, afterLibcoreFlushes, core,
                 corePromise, resetting, failed>>

(***************************************************************************)
(* flush and afterLibcoreGC                                                *)
(***************************************************************************)

TimerFires(f) ==
  /\ flushTimeout
  /\ flushing[f] = "none"
  /\ flushTimeout' = FALSE
  /\ flushing' = [flushing EXCEPT ![f] = "flush"]
  /\ lastFlush' = f
  /\ UNCHANGED <<caller, awaits, libcoreJobsCounter, items, afterLibcoreFlushes, core,
                 corePromise, resetting, failed>>

\* The promise of a flush is resolved: those that wait for it go on.
Resolve(f) ==
  /\ flushing' = [flushing EXCEPT ![f] = "none"]
  /\ lastFlush' = IF lastFlush = f THEN NoFlush ELSE lastFlush
  /\ awaits' = [j \in Callers |-> IF awaits[j] = f THEN NoFlush ELSE awaits[j]]

\* The library or an item has answered the flush, which takes the next item.
FlushGoesOn(f) ==
  /\ flushing[f] # "none"
  /\ afterLibcoreFlushes # <<>>
  /\ LET i == Head(afterLibcoreFlushes)
     IN  /\ items' = [k \in Items |-> IF k = i THEN "running"
                                      ELSE IF k = flushing[f] THEN "resolved" ELSE items[k]]
         /\ flushing' = [flushing EXCEPT ![f] = i]
  /\ afterLibcoreFlushes' = Tail(afterLibcoreFlushes)
  /\ UNCHANGED <<caller, awaits, libcoreJobsCounter, flushTimeout, lastFlush, core,
                 corePromise, resetting, failed>>

FlushEnds(f) ==
  /\ flushing[f] # "none"
  /\ afterLibcoreFlushes = <<>>
  /\ items' = [k \in Items |-> IF k = flushing[f] THEN "resolved" ELSE items[k]]
  /\ Resolve(f)
  /\ UNCHANGED <<caller, libcoreJobsCounter, flushTimeout, afterLibcoreFlushes, core,
                 corePromise, resetting, failed>>

\* An error of the library or of an item ends the flush; the item is never resolved and
\* the others stay.
FlushFails(f) ==
  /\ flushing[f] # "none"
  /\ items' = [k \in Items |-> IF k = flushing[f] THEN "lost" ELSE items[k]]
  /\ Resolve(f)
  /\ failed' = TRUE
  /\ UNCHANGED <<caller, libcoreJobsCounter, flushTimeout, afterLibcoreFlushes, core,
                 corePromise, resetting>>

\* Mutant: what is asked for between two flushes waits for a job.
GCAwaitsJob(i) ==
  /\ items[i] = "new"
  /\ IF core
     THEN /\ items' = [items EXCEPT ![i] = "queued"]
          /\ afterLibcoreFlushes' = Append(afterLibcoreFlushes, i)
     ELSE /\ items' = [items EXCEPT ![i] = "lost"]
          /\ UNCHANGED afterLibcoreFlushes
  /\ UNCHANGED <<caller, awaits, libcoreJobsCounter, lastFlush, flushing, core,
                 corePromise, resetting, failed, flushTimeout>>

\* Without a core the promise is never resolved.
afterLibcoreGC(i) ==
  /\ items[i] = "new"
  /\ IF core
     THEN /\ items' = [items EXCEPT ![i] = "queued"]
          /\ afterLibcoreFlushes' = Append(afterLibcoreFlushes, i)
          /\ flushTimeout' = (flushTimeout \/ libcoreJobsCounter = 0)
     ELSE /\ items' = [items EXCEPT ![i] = "lost"]
          /\ UNCHANGED <<afterLibcoreFlushes, flushTimeout>>
  /\ UNCHANGED <<caller, awaits, libcoreJobsCounter, lastFlush, flushing, core,
                 corePromise, resetting, failed>>

(***************************************************************************)
(* reset throws while there are jobs, and looks for them only once.        *)
(***************************************************************************)

Reset ==
  /\ core /\ libcoreJobsCounter = 0
  /\ resetting' = TRUE
  /\ UNCHANGED <<caller, awaits, libcoreJobsCounter, flushTimeout, lastFlush, flushing,
                 items, afterLibcoreFlushes, core, corePromise, failed>>

ResetEnds ==
  /\ resetting
  /\ resetting' = FALSE
  /\ core' = FALSE
  /\ corePromise' = "none"
  /\ UNCHANGED <<caller, awaits, libcoreJobsCounter, flushTimeout, lastFlush, flushing,
                 items, afterLibcoreFlushes, failed>>

LibcoreNext ==
  \/ \E j \in Callers : withLibcore(j) \/ Loaded(j) \/ LoadFails(j) \/ JobBegins(j) \/ JobDone(j)
  \/ CoreLoads
  \/ \E f \in Flushes : TimerFires(f) \/ FlushGoesOn(f) \/ FlushEnds(f) \/ FlushFails(f)
  \/ \E i \in Items : afterLibcoreGC(i)
  \/ Reset \/ ResetEnds

LibcoreSpec == LibcoreInit /\ [][LibcoreNext]_libcoreVars

(***************************************************************************)
(* Properties.                                                             *)
(***************************************************************************)

\* "wait previous flush before starting anything": no job runs while the flush that began
\* last goes on, nor, before afterLibcoreGC is used, while any flush does.
JobsAwaitFlush ==
  \A j \in Callers : caller[j] = "running" =>
    /\ lastFlush = NoFlush
    /\ (\A i \in Items : items[i] = "new") => \A f \in Flushes : flushing[f] = "none"

\* "there is a new job so we must not do the GC yet": from its call to its end no timer
\* runs that could flush under a job, whatever ended or was asked for meanwhile.
NoFlushDue == \A j \in Callers : caller[j] # "idle" => ~flushTimeout

\* Unless the library or an item fails, what waits for a flush has something to wait for:
\* the timer, a job that will begin it, or a flush that goes on.
ItemsServed ==
  afterLibcoreFlushes # <<>> =>
    \/ flushTimeout \/ failed
    \/ \E j \in Callers : caller[j] # "idle"
    \/ \E f \in Flushes : flushing[f] # "none"
=============================================================================
