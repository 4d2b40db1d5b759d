---------------------------- MODULE AccessProofs ----------------------------
(***************************************************************************)
(* Who may use a device, and who libcore.  What withDevice guarantees for  *)
(* any number of sessions, devices and polls rests on two facts about the  *)
(* chain of promises (Chained) and on the one about its order (InOrder).   *)
(* What withLibcore guarantees, for any finite set of callers, any items   *)
(* and any number of flushes, rests on its counter (Counted).  After them  *)
(* come the two parts through which an application uses the bridge of an   *)
(* account: the scheduler of its synchronisations and the form of its      *)
(* transaction.                                                            *)
(***************************************************************************)
EXTENDS DeviceAccess, LibcoreAccess, BridgeSync, BridgeTransaction, FiniteSetTheorems, TLAPS

(***************************************************************************)
(* Typing.                                                                 *)
(***************************************************************************)

LEMMA TypingInit == Init => TypeOK
  BY ConstantsAssumption DEF Init, TypeOK, Phases, Outcomes

LEMMA TypingStep == TypeOK /\ [Next]_vars => TypeOK'
<1> SUFFICES ASSUME TypeOK, [Next]_vars PROVE TypeOK'
  OBVIOUS
<1> USE ConstantsAssumption DEF TypeOK, Phases, Outcomes, Goto
<1>1. ASSUME NEW s \in Sessions, Subscribe(s) PROVE TypeOK'
  BY <1>1 DEF Subscribe, Enqueue
<1>2. ASSUME NEW s \in Sessions, Retry(s) PROVE TypeOK'
  BY <1>2 DEF Retry, Enqueue
<1>3. ASSUME NEW s \in Sessions, StartOpen(s) PROVE TypeOK'
  BY <1>3 DEF StartOpen
<1>4. ASSUME NEW s \in Sessions, OpenOk(s) PROVE TypeOK'
  BY <1>4 DEF OpenOk, Id
<1>5. ASSUME NEW s \in Sessions, NEW how \in Outcomes, FailBeforeJob(s, how)
      PROVE  TypeOK'
  BY <1>5 DEF FailBeforeJob
<1>6. ASSUME NEW s \in Sessions, FlushDone(s) PROVE TypeOK'
  BY <1>6 DEF FlushDone
<1>7. ASSUME NEW s \in Sessions, PriorityDone(s) PROVE TypeOK'
  BY <1>7 DEF PriorityDone
<1>8. ASSUME NEW s \in Sessions, StartJob(s) PROVE TypeOK'
  BY <1>8 DEF StartJob
<1>9. ASSUME NEW s \in Sessions, JobThrows(s) PROVE TypeOK'
  BY <1>9 DEF JobThrows
<1>10. ASSUME NEW s \in Sessions, NEW how \in {"complete", "error", "retry"},
              NEW midBulk \in BOOLEAN, JobEnds(s, how, midBulk)
       PROVE TypeOK'
  BY <1>10 DEF JobEnds, CancelDeviceAction, Id
<1>11. ASSUME NEW s \in Sessions, Closed(s) PROVE TypeOK'
  BY <1>11 DEF Closed, Finalize
<1>12. ASSUME NEW s \in Sessions, NEW midBulk \in BOOLEAN,
              Unsubscribe(s, midBulk)
       PROVE TypeOK'
  BY <1>12 DEF Unsubscribe, CancelDeviceAction, Id
<1>13. ASSUME UNCHANGED vars PROVE TypeOK'
  BY <1>13 DEF vars
<1>14. ASSUME NEW s \in Sessions, CleanupThrows(s) PROVE TypeOK'
  BY <1>14 DEF CleanupThrows
<1> QED
  BY <1>1, <1>2, <1>3, <1>4, <1>5, <1>6, <1>7, <1>8, <1>9, <1>10, <1>11,
     <1>12, <1>13, <1>14 DEF Next, Step, Advance, OpenFails, PriorityFails

\* Every variable keeps its type.
THEOREM TypeCorrect == Spec => []TypeOK
  BY TypingInit, TypingStep, PTL DEF Spec

(***************************************************************************)
(* The queue.                                                              *)
(***************************************************************************)

\* What every step other than a subscription leaves alone.
LineUnchanged ==
  /\ UNCHANGED <<tail, prev, ahead>>
  /\ \A s \in Sessions : phase'[s] = "idle" <=> phase[s] = "idle"

LEMMA LineKept ==
  ASSUME Linked, TailIsLast, OneLine, AheadIsQueued, LineUnchanged
  PROVE  Linked' /\ TailIsLast' /\ OneLine' /\ AheadIsQueued'
<1>1. \A d \in Devices : Queued(d)' = Queued(d)
  BY DEF LineUnchanged, Queued
<1>2. Linked' /\ OneLine'
  BY DEF LineUnchanged, Linked, OneLine
<1>3. TailIsLast'
  BY <1>1 DEF LineUnchanged, TailIsLast
<1>4. AheadIsQueued'
  BY <1>1, ConstantsAssumption DEF LineUnchanged, AheadIsQueued
<1> QED
  BY <1>2, <1>3, <1>4

\* A session that joins goes behind all sessions of its device.
LEMMA LineGrows ==
  ASSUME TypeOK, Linked, TailIsLast, OneLine, AheadIsQueued,
         NEW s \in Sessions, phase[s] = "idle", Enqueue(s),
         \A t \in Sessions :
           phase'[t] = "idle" <=> (phase[t] = "idle" /\ t # s)
  PROVE  Linked' /\ TailIsLast' /\ OneLine' /\ AheadIsQueued'
<1> DEFINE d == Device[s]
<1>1. d \in Devices
  BY ConstantsAssumption
<1>2. \A e \in Devices :
        Queued(e)' = IF e = d THEN Queued(e) \cup {s} ELSE Queued(e)
  BY DEF Queued
<1>3. ahead' = [ahead EXCEPT ![s] = Queued(d)]
  BY DEF Enqueue, Queued
<1>4. s \notin Queued(d)
  BY DEF Queued
<1>5. ahead \in [Sessions -> SUBSET Sessions] /\ prev \in [Sessions -> Sessions \cup {NoSession}]
      /\ tail \in [Devices -> Sessions \cup {NoSession}]
  BY DEF TypeOK
<1>6. Linked'
  <2> SUFFICES ASSUME NEW t \in Sessions
               PROVE  (ahead[t] = IF prev[t] = NoSession THEN {}
                                  ELSE ahead[prev[t]] \cup {prev[t]})'
    BY DEF Linked
  <2>1. CASE t = s
    <3>1. ahead'[s] = Queued(d) /\ prev'[s] = tail[d]
      BY <1>3, <1>5 DEF Enqueue
    <3>2. Queued(d) = IF tail[d] = NoSession THEN {}
                      ELSE ahead[tail[d]] \cup {tail[d]}
      BY <1>1 DEF TailIsLast
    <3>3. tail[d] # NoSession => tail[d] \in Sessions /\ ahead'[tail[d]] = ahead[tail[d]]
      BY <1>1, <1>3, <1>4, <1>5, <3>2
    <3> QED
      BY <2>1, <3>1, <3>2, <3>3
  <2>2. CASE t # s
    <3>1. ahead'[t] = ahead[t] /\ prev'[t] = prev[t]
      BY <2>2, <1>3, <1>5 DEF Enqueue
    <3>2. ahead[t] = IF prev[t] = NoSession THEN {}
                     ELSE ahead[prev[t]] \cup {prev[t]}
      BY DEF Linked
    <3>3. prev[t] # NoSession => prev[t] \in Sessions /\ prev[t] # s
      BY <3>2, <1>5 DEF AheadIsQueued, Queued
    <3> QED
      BY <3>1, <3>2, <3>3, <1>3, <1>5
  <2> QED
    BY <2>1, <2>2
<1>7. TailIsLast'
  <2> SUFFICES ASSUME NEW e \in Devices
               PROVE  (Queued(e) = IF tail[e] = NoSession THEN {}
                                   ELSE ahead[tail[e]] \cup {tail[e]})'
    BY DEF TailIsLast
  <2>1. CASE e = d
    <3>1. tail'[e] = s /\ ahead'[s] = Queued(d) /\ s # NoSession
      BY <2>1, <1>1, <1>3, <1>5, ConstantsAssumption DEF Enqueue
    <3> QED
      BY <2>1, <1>2, <3>1
  <2>2. CASE e # d
    <3>1. tail'[e] = tail[e] /\ Queued(e)' = Queued(e)
      BY <2>2, <1>2, <1>5 DEF Enqueue
    <3>2. Queued(e) = IF tail[e] = NoSession THEN {}
                      ELSE ahead[tail[e]] \cup {tail[e]}
      BY DEF TailIsLast
    <3>3. tail[e] # NoSession => tail[e] # s
      BY <3>2 DEF Queued
    <3> QED
      BY <3>1, <3>2, <3>3, <1>3, <1>5
  <2> QED
    BY <2>1, <2>2
<1>8. OneLine'
  <2> SUFFICES ASSUME NEW t \in Sessions, NEW u \in Sessions,
                      phase'[t] # "idle", phase'[u] # "idle",
                      Device[t] = Device[u], t # u
               PROVE  t \in ahead'[u] \/ u \in ahead'[t]
    BY DEF OneLine
  <2>1. CASE t = s
    BY <2>1, <1>3, <1>5 DEF Queued
  <2>2. CASE u = s
    BY <2>2, <1>3, <1>5 DEF Queued
  <2>3. CASE t # s /\ u # s
    BY <2>3, <1>3, <1>5 DEF OneLine
  <2> QED
    BY <2>1, <2>2, <2>3
<1>9. AheadIsQueued'
  <2> SUFFICES ASSUME NEW t \in Sessions
               PROVE  (ahead[t] \subseteq Queued(Device[t]) \ {t})'
    BY DEF AheadIsQueued
  <2>1. Queued(Device[t]) \subseteq Queued(Device[t])'
    BY <1>2, ConstantsAssumption
  <2>2. CASE t = s
    BY <2>1, <2>2, <1>3, <1>4, <1>5
  <2>3. CASE t # s
    BY <2>1, <2>3, <1>3, <1>5 DEF AheadIsQueued
  <2> QED
    BY <2>2, <2>3
<1> QED
  BY <1>6, <1>7, <1>8, <1>9

\* The turns: who leaves the line, and who calls `finish`.
Turns == InOrder /\ FinishedIsOver

LEMMA QueueInit == Init => QueueInv
  BY ConstantsAssumption DEF Init, QueueInv, Linked, TailIsLast, OneLine,
     AheadIsQueued, InOrder, FinishedIsOver, Queued, Early

\* The steps in which nobody leaves the line and `finish` is called, if at all,
\* by a session that is over.
LEMMA TurnsKept ==
  ASSUME TypeOK, Turns, LineUnchanged,
         \A t \in Sessions : phase'[t] \in Early <=> phase[t] \in Early,
         \A t \in Sessions : finished[t] => finished'[t],
         \A t \in Sessions : finished'[t] => phase'[t] \in {"backoff", "over"}
  PROVE  Turns'
  BY DEF Turns, InOrder, FinishedIsOver, LineUnchanged, TypeOK

LEMMA QueueStep == TypeOK /\ QueueInv /\ [Next]_vars => QueueInv'
<1> SUFFICES ASSUME TypeOK, QueueInv, [Next]_vars PROVE QueueInv'
  OBVIOUS
<1>1. TypeOK /\ Linked /\ TailIsLast /\ OneLine /\ AheadIsQueued /\ Turns
      /\ InOrder /\ FinishedIsOver
  BY DEF QueueInv, Turns
<1>2. ASSUME LineUnchanged, Turns' PROVE QueueInv'
  BY <1>1, <1>2, LineKept DEF QueueInv, Turns
<1>3. ASSUME NEW s \in Sessions, Subscribe(s) \/ Retry(s) PROVE QueueInv'
  <2>1. /\ phase[s] = "idle"
        /\ Enqueue(s)
        /\ \A t \in Sessions :
             phase'[t] = "idle" <=> (phase[t] = "idle" /\ t # s)
    BY <1>1, <1>3, ConstantsAssumption
       DEF Subscribe, Retry, Goto, TypeOK
  <2>2. Linked' /\ TailIsLast' /\ OneLine' /\ AheadIsQueued'
    BY <1>1, <2>1, LineGrows
  <2>3. /\ \A t \in Sessions : phase'[t] \in Early <=> phase[t] \in Early
        /\ \A t \in Sessions :
             phase[t] \in {"backoff", "over"} => phase'[t] \in {"backoff", "over"}
    BY <1>1, <1>3, ConstantsAssumption DEF Subscribe, Retry, Goto, TypeOK, Early
  <2>4. \A t \in Sessions : phase'[t] \notin Early => ahead'[t] = ahead[t]
    BY <1>1, <2>1, <2>3 DEF Enqueue, TypeOK, Early
  <2>5. finished' = finished
    BY <2>1 DEF Enqueue
  <2>6. InOrder' /\ FinishedIsOver'
    BY <1>1, <2>3, <2>4, <2>5 DEF InOrder, FinishedIsOver
  <2> QED
    BY <2>2, <2>6 DEF QueueInv
<1>4. ASSUME NEW s \in Sessions, StartOpen(s) PROVE QueueInv'
  <2>1. /\ LineUnchanged
        /\ finished' = finished
        /\ \A t \in Sessions \ {s} : phase'[t] = phase[t]
        /\ phase[s] = "waiting" /\ phase'[s] = "opening"
        /\ MyTurn(s)
    BY <1>1, <1>4 DEF StartOpen, Goto, LineUnchanged, TypeOK
  <2>2. \A t \in ahead[s] : finished[t]
    <3>1. CASE prev[s] = NoSession
      BY <1>1, <3>1 DEF Linked
    <3>2. CASE prev[s] # NoSession
      <4>1. prev[s] \in Sessions /\ finished[prev[s]]
        BY <1>1, <2>1, <3>2 DEF MyTurn, TypeOK
      <4>2. \A t \in ahead[prev[s]] : finished[t]
        BY <1>1, <4>1 DEF FinishedIsOver, InOrder, Early
      <4>3. ahead[s] = ahead[prev[s]] \cup {prev[s]}
        BY <1>1, <3>2 DEF Linked
      <4> QED
        BY <4>1, <4>2, <4>3
    <3> QED
      BY <3>1, <3>2
  <2>3. InOrder'
    BY <1>1, <2>1, <2>2 DEF InOrder, LineUnchanged, TypeOK
  <2>4. FinishedIsOver'
    BY <1>1, <2>1 DEF FinishedIsOver
  <2> QED
    BY <1>2, <2>1, <2>3, <2>4 DEF Turns
<1>5. ASSUME NEW s \in Sessions,
             \/ OpenOk(s) \/ FlushDone(s) \/ PriorityDone(s) \/ StartJob(s)
             \/ JobThrows(s) \/ CleanupThrows(s)
             \/ \E how \in {"complete", "error", "retry"}, midBulk \in BOOLEAN :
                  JobEnds(s, how, midBulk)
      PROVE  QueueInv'
  <2>1. /\ UNCHANGED <<tail, prev, ahead, finished>>
        /\ \A t \in Sessions \ {s} : phase'[t] = phase[t]
        /\ phase[s] \notin Early \cup {"backoff", "over"}
        /\ phase'[s] \notin Early
    BY <1>1, <1>5 DEF OpenOk, FlushDone, PriorityDone, StartJob, JobThrows,
       CleanupThrows, JobEnds, Goto, TypeOK, Early
  <2>2. LineUnchanged
    BY <2>1 DEF LineUnchanged, Early
  <2>3. \A t \in Sessions : phase'[t] \in Early <=> phase[t] \in Early
    BY <2>1
  <2>4. \A t \in Sessions : finished'[t] => phase'[t] \in {"backoff", "over"}
    BY <1>1, <2>1 DEF FinishedIsOver
  <2> QED
    BY <1>1, <1>2, <2>1, <2>2, <2>3, <2>4, TurnsKept
<1>6. ASSUME NEW s \in Sessions,
             OpenFails(s) \/ PriorityFails(s) \/ Closed(s)
      PROVE  QueueInv'
  <2>1. /\ UNCHANGED <<tail, prev, ahead>>
        /\ finished' = [finished EXCEPT ![s] = TRUE]
        /\ \A t \in Sessions \ {s} : phase'[t] = phase[t]
        /\ phase[s] \notin Early
        /\ phase'[s] \in {"backoff", "over"}
    BY <1>1, <1>6 DEF OpenFails, PriorityFails, FailBeforeJob, Closed, Finalize, Goto,
       TypeOK, Early
  <2>2. LineUnchanged
    BY <2>1 DEF LineUnchanged, Early
  <2>3. \A t \in Sessions : phase'[t] \in Early <=> phase[t] \in Early
    BY <2>1 DEF Early
  <2>4. \A t \in Sessions : finished'[t] => phase'[t] \in {"backoff", "over"}
    BY <1>1, <2>1 DEF FinishedIsOver, TypeOK
  <2>5. \A t \in Sessions : finished[t] => finished'[t]
    BY <1>1, <2>1 DEF TypeOK
  <2> QED
    BY <1>1, <1>2, <2>2, <2>3, <2>4, <2>5, TurnsKept
<1>7. ASSUME NEW s \in Sessions, NEW midBulk \in BOOLEAN,
             Unsubscribe(s, midBulk)
      PROVE  QueueInv'
  <2>1. /\ UNCHANGED <<tail, prev, ahead, finished>>
        /\ \A t \in Sessions \ {s} : phase'[t] = phase[t]
        /\ \/ phase'[s] = phase[s]
           \/ phase[s] = "running" /\ phase'[s] = "closing"
           \/ phase[s] = "backoff" /\ phase'[s] = "over"
    BY <1>1, <1>7 DEF Unsubscribe, TypeOK
  <2>2. LineUnchanged
    BY <2>1 DEF LineUnchanged
  <2>3. \A t \in Sessions : phase'[t] \in Early <=> phase[t] \in Early
    BY <2>1 DEF Early
  <2>4. \A t \in Sessions : finished'[t] => phase'[t] \in {"backoff", "over"}
    BY <1>1, <2>1 DEF FinishedIsOver
  <2> QED
    BY <1>1, <1>2, <2>1, <2>2, <2>3, <2>4, TurnsKept
<1>8. ASSUME UNCHANGED vars PROVE QueueInv'
  <2>1. LineUnchanged /\ UNCHANGED <<phase, finished>>
    BY <1>8 DEF vars, LineUnchanged
  <2>2. Turns'
    BY <1>1, <2>1 DEF Turns, InOrder, FinishedIsOver, LineUnchanged
  <2> QED
    BY <1>2, <2>1, <2>2
<1> QED
  BY <1>3, <1>4, <1>5, <1>6, <1>7, <1>8 DEF Next, Step, Advance

\* The promises of deviceQueues form one line per device, served in order.
THEOREM QueueCorrect == Spec => []QueueInv
<1>1. Init => TypeOK /\ QueueInv
  BY TypingInit, QueueInit
<1>2. (TypeOK /\ QueueInv) /\ [Next]_vars => (TypeOK /\ QueueInv)'
  BY TypingStep, QueueStep
<1> QED
  BY <1>1, <1>2, PTL DEF Spec

(***************************************************************************)
(* Mutual exclusion.                                                       *)
(***************************************************************************)

\* Two sessions of a device that had their turn: one of them is finished.
LEMMA OneHolder ==
  ASSUME QueueInv, NEW s \in Sessions, NEW t \in Sessions,
         Device[s] = Device[t], phase[s] \notin Early, phase[t] \notin Early,
         ~finished[s], ~finished[t]
  PROVE  s = t
<1> SUFFICES ASSUME s # t PROVE FALSE
  OBVIOUS
<1>1. s \in ahead[t] \/ t \in ahead[s]
  BY DEF QueueInv, OneLine, Early
<1>2. (\A u \in ahead[t] : finished[u]) /\ (\A u \in ahead[s] : finished[u])
  BY DEF QueueInv, InOrder
<1> QED
  BY <1>1, <1>2

LEMMA ExclusionFromQueue == QueueInv => OneJobPerDevice
<1> SUFFICES ASSUME QueueInv, NEW s \in Sessions, NEW t \in Sessions,
                    phase[s] = "running", phase[t] = "running",
                    Device[s] = Device[t]
             PROVE  s = t
  BY DEF OneJobPerDevice
<1>1. ~finished[s] /\ ~finished[t]
  BY DEF QueueInv, FinishedIsOver
<1> QED
  BY <1>1, OneHolder DEF Early

\* Two jobs never run on a device at the same time, whatever fails or throws.
THEOREM JobsExclude == Spec => []OneJobPerDevice
  BY QueueCorrect, ExclusionFromQueue, PTL

(***************************************************************************)
(* Cleanup.                                                                *)
(***************************************************************************)

Clean == TypeOK /\ QueueInv /\ CleanedUp /\ EarlyHoldsNothing

LEMMA CleanInit == Init => Clean
<1> SUFFICES ASSUME Init PROVE CleanedUp /\ EarlyHoldsNothing
  BY TypingInit, QueueInit DEF Clean
<1> QED
  BY DEF Init, CleanedUp, EarlyHoldsNothing

LEMMA CleanStep ==
  ASSUME Clean, [Next]_vars PROVE Clean'
<1>1. TypeOK' /\ QueueInv'
  BY TypingStep, QueueStep DEF Clean
<1> USE DEF CleanedUp, EarlyHoldsNothing, Goto, TypeOK, Early
<1>2. TypeOK /\ CleanedUp /\ EarlyHoldsNothing /\ FinishedIsOver
  BY DEF Clean, QueueInv
<1>3. ASSUME NEW s \in Sessions, Subscribe(s) \/ Retry(s)
      PROVE  CleanedUp' /\ EarlyHoldsNothing'
  BY <1>2, <1>3, ConstantsAssumption DEF Subscribe, Retry, Enqueue
<1>4. ASSUME NEW s \in Sessions, StartOpen(s)
      PROVE  CleanedUp' /\ EarlyHoldsNothing'
  BY <1>2, <1>4 DEF StartOpen
<1>5. ASSUME NEW s \in Sessions, OpenOk(s)
      PROVE  CleanedUp' /\ EarlyHoldsNothing'
  BY <1>2, <1>5 DEF OpenOk, FinishedIsOver
<1>6. ASSUME NEW s \in Sessions, OpenFails(s) \/ PriorityFails(s)
      PROVE  CleanedUp' /\ EarlyHoldsNothing'
  <2>1. /\ finished' = [finished EXCEPT ![s] = TRUE]
        /\ UNCHANGED <<open, hooked>>
        /\ \A t \in Sessions \ {s} :
             phase'[t] = phase[t] /\ outcome'[t] = outcome[t]
        /\ phase'[s] = "over"
        /\ s \notin hooked
        /\ s \in open => outcome'[s] = "rejected"
    BY <1>2, <1>6 DEF OpenFails, PriorityFails, FailBeforeJob
  <2> QED
    BY <1>2, <2>1
<1>7. ASSUME NEW s \in Sessions, FlushDone(s) \/ PriorityDone(s)
      PROVE  CleanedUp' /\ EarlyHoldsNothing'
  BY <1>2, <1>7 DEF FlushDone, PriorityDone
<1>8. ASSUME NEW s \in Sessions, StartJob(s) \/ JobThrows(s)
      PROVE  CleanedUp' /\ EarlyHoldsNothing'
  BY <1>2, <1>8 DEF StartJob, JobThrows, FinishedIsOver
<1>9. ASSUME NEW s \in Sessions, NEW how \in {"complete", "error", "retry"},
             NEW midBulk \in BOOLEAN, JobEnds(s, how, midBulk)
      PROVE  CleanedUp' /\ EarlyHoldsNothing'
  BY <1>2, <1>9 DEF JobEnds, FinishedIsOver
<1>10. ASSUME NEW s \in Sessions, Closed(s)
       PROVE  CleanedUp' /\ EarlyHoldsNothing'
  BY <1>2, <1>10 DEF Closed, Finalize
<1>11. ASSUME NEW s \in Sessions, NEW midBulk \in BOOLEAN,
              Unsubscribe(s, midBulk)
       PROVE  CleanedUp' /\ EarlyHoldsNothing'
  <2>1. /\ UNCHANGED <<finished, open, hooked, outcome>>
        /\ \A t \in Sessions : phase'[t] = phase[t]
             \/ (phase[t] \in {"running", "backoff"} /\ phase'[t] \in {"closing", "over"})
    BY <1>2, <1>11 DEF Unsubscribe
  <2> QED
    BY <1>2, <2>1
<1>12. ASSUME UNCHANGED vars PROVE CleanedUp' /\ EarlyHoldsNothing'
  BY <1>2, <1>12 DEF vars
<1>13. ASSUME NEW s \in Sessions, CleanupThrows(s)
       PROVE  CleanedUp' /\ EarlyHoldsNothing'
  BY <1>2, <1>13 DEF CleanupThrows, FinishedIsOver
<1> QED
  BY <1>1, <1>3, <1>4, <1>5, <1>6, <1>7, <1>8, <1>9, <1>10, <1>11, <1>12,
     <1>13 DEF Next, Step, Advance, Clean

LEMMA OneOpen == Clean => OneTransportPerDevice
<1> SUFFICES ASSUME Clean, NEW s \in open, NEW t \in open,
                    Device[s] = Device[t], s # t,
                    "rejected" \notin {outcome[s], outcome[t]}
             PROVE  FALSE
  BY DEF OneTransportPerDevice
<1>1. s \in Sessions /\ t \in Sessions
  BY DEF Clean, TypeOK
<1>2. phase[s] \notin Early /\ phase[t] \notin Early
  BY DEF Clean, EarlyHoldsNothing
<1>3. ~finished[s] /\ ~finished[t]
  BY <1>1 DEF Clean, CleanedUp
<1> QED
  BY <1>1, <1>2, <1>3, OneHolder DEF Clean

\* A session cleans up its hooks and closes its transport before it lets the
\* next one go, so that a device never has two open transports; the transport of
\* a rejected requestConnectionPriority is the only exception.
THEOREM TransportsExclude == Spec => [](CleanedUp /\ OneTransportPerDevice)
<1>1. Clean /\ [Next]_vars => Clean'
  BY CleanStep
<1>2. Clean => CleanedUp /\ OneTransportPerDevice
  BY OneOpen DEF Clean
<1> QED
  BY <1>1, <1>2, CleanInit, PTL DEF Spec

(***************************************************************************)
(* Release.                                                                *)
(***************************************************************************)

LEMMA ReleaseStep ==
  ASSUME TypeOK, ReleasedUnlessThrown, [Next]_vars
  PROVE  ReleasedUnlessThrown'
<1> USE DEF ReleasedUnlessThrown, Goto, TypeOK
<1>1. ASSUME NEW s \in Sessions, Subscribe(s) \/ Retry(s)
      PROVE  ReleasedUnlessThrown'
  BY <1>1, ConstantsAssumption DEF Subscribe, Retry, Enqueue
<1>2. ASSUME NEW s \in Sessions,
             \/ StartOpen(s) \/ OpenOk(s) \/ FlushDone(s) \/ PriorityDone(s)
             \/ StartJob(s) \/ JobThrows(s) \/ CleanupThrows(s)
             \/ \E how \in {"complete", "error", "retry"}, midBulk \in BOOLEAN :
                  JobEnds(s, how, midBulk)
      PROVE  ReleasedUnlessThrown'
  <2>1. /\ finished' = finished
        /\ \A t \in Sessions \ {s} :
             phase'[t] = phase[t] /\ outcome'[t] = outcome[t]
        /\ phase'[s] \in {"backoff", "over"} => outcome'[s] = "thrown"
    BY <1>2 DEF StartOpen, OpenOk, FlushDone, PriorityDone, StartJob,
       JobThrows, CleanupThrows, JobEnds
  <2> QED
    BY <2>1
<1>3. ASSUME NEW s \in Sessions,
             OpenFails(s) \/ PriorityFails(s) \/ Closed(s)
      PROVE  ReleasedUnlessThrown'
  BY <1>3 DEF OpenFails, PriorityFails, FailBeforeJob, Closed, Finalize
<1>4. ASSUME NEW s \in Sessions, NEW midBulk \in BOOLEAN,
             Unsubscribe(s, midBulk)
      PROVE  ReleasedUnlessThrown'
  <2>1. /\ UNCHANGED <<finished, outcome>>
        /\ \A t \in Sessions : phase'[t] = phase[t] \/ phase'[t] = "closing"
                               \/ phase[t] = "backoff"
    BY <1>4 DEF Unsubscribe
  <2> QED
    BY <2>1
<1>5. ASSUME UNCHANGED vars PROVE ReleasedUnlessThrown'
  BY <1>5 DEF vars
<1> QED
  BY <1>1, <1>2, <1>3, <1>4, <1>5 DEF Next, Step, Advance

\* Unless its job or an access hook throws synchronously, the end of a session
\* is only told, and a poll only scheduled, after the next one was let go.
THEOREM ReleasedBeforeTold == Spec => []ReleasedUnlessThrown
<1>1. Init => TypeOK /\ ReleasedUnlessThrown
  BY TypingInit DEF Init, ReleasedUnlessThrown
<1>2. (TypeOK /\ ReleasedUnlessThrown) /\ [Next]_vars
        => (TypeOK /\ ReleasedUnlessThrown)'
  BY TypingStep, ReleaseStep
<1> QED
  BY <1>1, <1>2, PTL DEF Spec

(***************************************************************************)
(* The flush, when each device has a transport id of its own.              *)
(***************************************************************************)

DistinctIds ==
  \A d, e \in Devices : TransportId[d] = TransportId[e] => d = e

LEMMA FlushStep ==
  ASSUME DistinctIds, TypeOK, QueueInv, FlushPending, [Next]_vars
  PROVE  FlushPending'
<1> USE DEF FlushPending, Goto, TypeOK
<1>1. FinishedIsOver
  BY DEF QueueInv
<1>2. ASSUME NEW s \in Sessions, Subscribe(s) \/ Retry(s)
      PROVE  FlushPending'
  <2>1. /\ UNCHANGED <<interrupted, needsCleanup>>
        /\ \A t \in Sessions :
             phase'[t] = phase[t] \/ phase'[t] \in {"waiting", "over"}
        /\ \A t \in Sessions : phase[t] = "flushing" => phase'[t] = "flushing"
    BY <1>2, ConstantsAssumption DEF Subscribe, Retry, Enqueue
  <2> QED
    BY <2>1
<1>3. ASSUME NEW s \in Sessions,
             StartOpen(s) \/ OpenFails(s) \/ PriorityDone(s) \/ PriorityFails(s)
             \/ StartJob(s) \/ JobThrows(s) \/ Closed(s) \/ CleanupThrows(s)
      PROVE  FlushPending'
  <2>1. /\ UNCHANGED <<interrupted, needsCleanup>>
        /\ \A t \in Sessions \ {s} : phase'[t] = phase[t]
        /\ phase[s] # "flushing"
        /\ phase'[s] \in {"prioritizing", "ready"}
             => phase[s] \in {"prioritizing", "ready"}
    BY <1>3 DEF StartOpen, OpenFails, FailBeforeJob, PriorityDone,
       PriorityFails, StartJob, JobThrows, CleanupThrows, Closed, Finalize
  <2> QED
    BY <2>1
<1>4. ASSUME NEW s \in Sessions, OpenOk(s) PROVE FlushPending'
  <2>1. /\ interrupted' = interrupted
        /\ phase[s] = "opening"
        /\ \A t \in Sessions \ {s} : phase'[t] = phase[t]
    BY <1>4 DEF OpenOk
  <2>2. CASE unsubscribed[s]
    <3>1. needsCleanup' = needsCleanup /\ phase'[s] = "closing"
      BY <1>4, <2>2 DEF OpenOk
    <3> QED
      BY <2>1, <3>1
  <2>3. CASE ~unsubscribed[s] /\ Id(s) \in needsCleanup
    <3>1. needsCleanup' = needsCleanup \ {Id(s)} /\ phase'[s] = "flushing"
      BY <1>4, <2>3 DEF OpenOk
    <3>2. \A d \in Devices : d # Device[s] => TransportId[d] # Id(s)
      BY ConstantsAssumption DEF DistinctIds, Id
    <3> QED
      BY <2>1, <3>1, <3>2
  <2>4. CASE ~unsubscribed[s] /\ Id(s) \notin needsCleanup
    <3>1. needsCleanup' = needsCleanup /\ phase'[s] = "prioritizing"
      BY <1>4, <2>4 DEF OpenOk
    <3>2. \A t \in Sessions :
            phase[t] = "flushing" /\ Device[t] = Device[s] => t = s
      BY <1>1, <2>1, OneHolder DEF FinishedIsOver, Early
    <3>3. Device[s] \notin interrupted
      BY <2>1, <2>4, <3>2 DEF Id
    <3> QED
      BY <2>1, <3>1, <3>3
  <2> QED
    BY <2>2, <2>3, <2>4
<1>5. ASSUME NEW s \in Sessions, FlushDone(s) PROVE FlushPending'
  <2>1. /\ interrupted' = interrupted \ {Device[s]}
        /\ needsCleanup' = needsCleanup
        /\ phase'[s] = "prioritizing"
        /\ \A t \in Sessions \ {s} : phase'[t] = phase[t]
    BY <1>5 DEF FlushDone
  <2> QED
    BY <2>1
<1>6. ASSUME NEW s \in Sessions, NEW midBulk \in BOOLEAN,
             \/ \E how \in {"complete", "error", "retry"} :
                  JobEnds(s, how, midBulk)
             \/ Unsubscribe(s, midBulk)
      PROVE  FlushPending'
  <2>1. /\ \A t \in Sessions \ {s} : phase'[t] = phase[t]
        /\ phase'[s] \in {"prioritizing", "ready"} => phase'[s] = phase[s]
        /\ phase[s] = "flushing" => phase'[s] = "flushing"
    BY <1>6 DEF JobEnds, Unsubscribe
  <2>2. CASE UNCHANGED <<interrupted, needsCleanup>>
    BY <2>1, <2>2
  <2>3. CASE CancelDeviceAction(s) /\ phase[s] = "running"
    <3>1. \A t \in Sessions :
            phase[t] \in {"prioritizing", "ready"} => Device[t] # Device[s]
      BY <1>1, <2>3, OneHolder DEF FinishedIsOver, Early
    <3>2. interrupted' = interrupted \cup {Device[s]}
          /\ needsCleanup' = needsCleanup \cup {TransportId[Device[s]]}
      BY <2>3 DEF CancelDeviceAction, Id
    <3> QED
      BY <2>1, <3>1, <3>2, ConstantsAssumption
  <2> QED
    BY <1>6, <2>2, <2>3 DEF JobEnds, Unsubscribe
<1>7. ASSUME UNCHANGED vars PROVE FlushPending'
  BY <1>7 DEF vars
<1> QED
  BY <1>2, <1>3, <1>4, <1>5, <1>6, <1>7 DEF Next, Step, Advance

\* When no two devices share a transport id, a job never starts on a device
\* that is still in the middle of the APDUs of an earlier job.
THEOREM FlushCorrect ==
  ASSUME DistinctIds PROVE Spec => FlushedBeforeJob
<1> DEFINE Inv == TypeOK /\ QueueInv /\ FlushPending
<1>1. Init => Inv
  BY TypingInit, QueueInit DEF Init, FlushPending
<1>2. Inv /\ [Next]_vars => Inv'
  BY TypingStep, QueueStep, FlushStep
<1>3. Inv /\ [Next]_vars =>
        [\A s \in Sessions :
           phase[s] # "running" /\ phase'[s] = "running"
             => Device[s] \notin interrupted]_vars
  <2> SUFFICES ASSUME Inv, Next, NEW s \in Sessions,
                      phase[s] # "running", phase'[s] = "running"
               PROVE  Device[s] \notin interrupted
    BY DEF vars
  <2>1. phase[s] = "ready"
    BY ConstantsAssumption DEF Next, Step, Advance, Subscribe, Retry, StartOpen, OpenOk, OpenFails,
       PriorityFails, FailBeforeJob, FlushDone, PriorityDone, StartJob,
       JobThrows, CleanupThrows, JobEnds, Closed, Finalize, Unsubscribe, Goto, TypeOK
  <2> QED
    BY <2>1 DEF FlushPending
<1> HIDE DEF Inv
<1> QED
  BY <1>1, <1>2, <1>3, PTL DEF Spec, FlushedBeforeJob

(***************************************************************************)
(* Refinement of the first-come first-served lock.                         *)
(***************************************************************************)

LEMMA LockInit == Init => Lock!Init
  BY ConstantsAssumption DEF Init, Lock!Init, LockStage

\* The stages of the sessions, as the lock sees them.
Stages == [s \in Sessions |-> LockStage(s)]

LEMMA StagesSet ==
  ASSUME NEW s \in Sessions, NEW v,
         \A t \in Sessions \ {s} : LockStage(t)' = LockStage(t),
         LockStage(s)' = v
  PROVE  Stages' = [Stages EXCEPT ![s] = v]
  BY DEF Stages

LEMMA LockStep ==
  ASSUME TypeOK, QueueInv, [Next]_vars PROVE [Lock!Next]_(Lock!vars)
<1>1. TypeOK /\ FinishedIsOver /\ InOrder /\ Linked
  BY DEF QueueInv
<1> USE DEF TypeOK, Goto
<1>2. ASSUME NEW s \in Sessions, Subscribe(s) \/ Retry(s) PROVE Lock!Next
  <2>1. /\ phase[s] = "idle" /\ phase'[s] = "waiting"
        /\ finished' = finished
        /\ Enqueue(s)
        /\ \A t \in Sessions \ {s} :
             \/ phase'[t] = phase[t]
             \/ phase[t] = "backoff" /\ phase'[t] = "over"
    BY <1>2, ConstantsAssumption DEF Subscribe, Retry, Enqueue
  <2>2. \A t \in Sessions \ {s} : LockStage(t)' = LockStage(t)
    BY <2>1 DEF LockStage
  <2>3. LockStage(s) = "out" /\ LockStage(s)' = "waiting"
    BY <2>1 DEF LockStage
  <2>4. \A t \in Sessions : LockStage(t) # "out" <=> phase[t] # "idle"
    BY DEF LockStage
  <2>5. ahead' = [ahead EXCEPT ![s] =
          {t \in Sessions : Device[t] = Device[s] /\ Stages[t] # "out"}]
    BY <2>1, <2>4 DEF Enqueue, Stages
  <2>6. Stages' = [Stages EXCEPT ![s] = "waiting"]
    BY <2>2, <2>3, StagesSet
  <2>7. Lock!Ask(s)
    BY <2>3, <2>5, <2>6 DEF Lock!Ask, Stages
  <2> QED
    BY <2>7 DEF Lock!Next
<1>3. ASSUME NEW s \in Sessions, StartOpen(s) PROVE Lock!Next
  <2>1. /\ phase[s] = "waiting" /\ phase'[s] = "opening"
        /\ UNCHANGED <<finished, ahead>>
        /\ \A t \in Sessions \ {s} : phase'[t] = phase[t]
        /\ MyTurn(s)
    BY <1>3 DEF StartOpen
  <2>2. LockStage(s) = "waiting" /\ LockStage(s)' = "holding"
    BY <1>1, <2>1 DEF LockStage, FinishedIsOver
  <2>3. \A t \in Sessions \ {s} : LockStage(t)' = LockStage(t)
    BY <2>1 DEF LockStage
  <2>4. Stages' = [Stages EXCEPT ![s] = "holding"]
    BY <2>2, <2>3, StagesSet
  <2>5. \A t \in ahead[s] : t \in Sessions /\ finished'[t]
    <3>1. QueueInv'
      BY QueueStep
    <3>2. \A t \in ahead'[s] : finished'[t]
      BY <2>1, <3>1 DEF QueueInv, InOrder, Early
    <3> QED
      BY <2>1, <3>2
  <2>6. \A t \in ahead[s] : Stages[t] = "back"
    BY <1>1, <2>1, <2>5 DEF LockStage, FinishedIsOver, Stages
  <2>7. Lock!Grant(s)
    BY <2>1, <2>2, <2>4, <2>6 DEF Lock!Grant, Stages
  <2> QED
    BY <2>7 DEF Lock!Next
<1>4. ASSUME NEW s \in Sessions,
             OpenFails(s) \/ PriorityFails(s) \/ Closed(s)
      PROVE  Lock!Next
  <2>1. /\ phase[s] \in {"opening", "prioritizing", "closing"}
        /\ phase'[s] \in {"backoff", "over"}
        /\ finished' = [finished EXCEPT ![s] = TRUE]
        /\ ahead' = ahead
        /\ \A t \in Sessions \ {s} : phase'[t] = phase[t]
    BY <1>4 DEF OpenFails, PriorityFails, FailBeforeJob, Closed, Finalize
  <2>2. LockStage(s) = "holding" /\ LockStage(s)' = "back"
    BY <1>1, <2>1 DEF LockStage, FinishedIsOver
  <2>3. \A t \in Sessions \ {s} : LockStage(t)' = LockStage(t)
    BY <2>1 DEF LockStage
  <2>4. Stages' = [Stages EXCEPT ![s] = "back"]
    BY <2>2, <2>3, StagesSet
  <2>5. Lock!GiveBack(s)
    BY <2>1, <2>2, <2>4 DEF Lock!GiveBack, Stages
  <2> QED
    BY <2>5 DEF Lock!Next
<1>5. ASSUME NEW s \in Sessions,
             \/ OpenOk(s) \/ FlushDone(s) \/ PriorityDone(s) \/ StartJob(s)
             \/ JobThrows(s) \/ CleanupThrows(s)
             \/ \E how \in {"complete", "error", "retry"}, midBulk \in BOOLEAN :
                  JobEnds(s, how, midBulk)
             \/ \E midBulk \in BOOLEAN : Unsubscribe(s, midBulk)
      PROVE  UNCHANGED Lock!vars
  <2>1. /\ UNCHANGED <<ahead, finished>>
        /\ \A t \in Sessions \ {s} : phase'[t] = phase[t]
        /\ phase[s] # "idle"
        /\ phase'[s] = phase[s] \/
             (phase[s] \notin Early /\ phase'[s] \notin Early)
    BY <1>5 DEF OpenOk, FlushDone, PriorityDone, StartJob, JobThrows,
       CleanupThrows, JobEnds, Unsubscribe, Early
  <2>2. \A t \in Sessions : LockStage(t)' = LockStage(t)
    BY <2>1 DEF LockStage, Early
  <2> QED
    BY <2>1, <2>2 DEF Lock!vars
<1>6. ASSUME UNCHANGED vars PROVE UNCHANGED Lock!vars
  BY <1>6 DEF vars, Lock!vars, LockStage
<1> QED
  BY <1>2, <1>3, <1>4, <1>5, <1>6 DEF Next, Step, Advance

\* withDevice is a first-come first-served lock of each device, whatever the
\* transports answer and even if jobs throw.
THEOREM ImplementsLock == Spec => LockSpec
<1>1. TypeOK /\ QueueInv /\ [Next]_vars => [Lock!Next]_(Lock!vars)
  BY LockStep
<1> QED
  BY <1>1, LockInit, TypeCorrect, QueueCorrect, PTL DEF Spec, LockSpec, Lock!Spec

(***************************************************************************)
(* Libcore.                                                                *)
(***************************************************************************)

LibcoreTypeOK ==
  /\ caller \in [Callers -> {"idle", "has core", "loading", "waiting", "running"}]
  /\ awaits \in [Callers -> Flushes \cup {NoFlush}]
  /\ flushTimeout \in BOOLEAN
  /\ lastFlush \in Flushes \cup {NoFlush}
  /\ flushing \in [Flushes -> {"none", "flush"} \cup Items]
  /\ items \in [Items -> {"new", "queued", "running", "resolved", "lost"}]
  /\ corePromise \in {"none", "pending", "loaded", "failed"}
  /\ core \in BOOLEAN
  /\ resetting \in BOOLEAN
  /\ failed \in BOOLEAN

\* The items that wait for a flush.
QueueOK == afterLibcoreFlushes \in Seq(Items)

Busy == {j \in Callers : caller[j] # "idle"}

\* The counter counts the callers that were not answered.
Counted == libcoreJobsCounter = Cardinality(Busy)

\* The timer and a caller exclude each other.
TimerAlone == flushTimeout => Busy = {}

\* Since no flush begins under a caller, who read lastFlush waits for what it is now.
AwaitsLast ==
  \A j \in Callers :
    /\ caller[j] \in {"waiting", "running"} => awaits[j] = lastFlush
    /\ caller[j] = "running" => awaits[j] = NoFlush

\* Before afterLibcoreGC is used a timer begins only after a job, and so behind the last
\* flush, which is the only one.
OneFlush ==
  (\A i \in Items : items[i] = "new") =>
    \A f \in Flushes : flushing[f] # "none" => f = lastFlush /\ ~flushTimeout

LibcoreInv ==
  /\ LibcoreTypeOK
  /\ QueueOK
  /\ Counted
  /\ TimerAlone
  /\ AwaitsLast
  /\ OneFlush
  /\ ItemsServed

(***************************************************************************)
(* Lemmas on the counter.                                                  *)
(***************************************************************************)

\* The busy callers are finitely many, so that their number is zero only without any.
LEMMA BusyFinite ==
  ASSUME LibcoreTypeOK
  PROVE  /\ IsFiniteSet(Busy)
         /\ Cardinality(Busy) \in Nat
         /\ Cardinality(Busy) = 0 <=> Busy = {}
<1>1. IsFiniteSet(Busy)
  BY LibcoreAssumption, FS_Subset DEF Busy, LibcoreAssumption
<1> QED
  BY <1>1, FS_CardinalityType, FS_EmptySet

\* A call makes one more caller busy.
LEMMA OneMore ==
  ASSUME LibcoreTypeOK, NEW j \in Callers, caller[j] = "idle", NEW s, s # "idle",
         caller' = [caller EXCEPT ![j] = s]
  PROVE  /\ Cardinality(Busy') = Cardinality(Busy) + 1
         /\ j \in Busy'
<1>1. Busy' = Busy \cup {j} /\ j \notin Busy
  BY DEF Busy, LibcoreTypeOK
<1> QED
  BY <1>1, BusyFinite, FS_AddElement

\* The end of a call makes one caller less busy.
LEMMA OneLess ==
  ASSUME LibcoreTypeOK, NEW j \in Callers, caller[j] # "idle",
         caller' = [caller EXCEPT ![j] = "idle"]
  PROVE  Cardinality(Busy') = Cardinality(Busy) - 1
<1>1. Busy' = Busy \ {j} /\ j \in Busy
  BY DEF Busy, LibcoreTypeOK
<1> QED
  BY <1>1, BusyFinite, FS_RemoveElement

\* A busy caller that goes on is still busy.
LEMMA AsMany ==
  ASSUME LibcoreTypeOK, NEW j \in Callers, caller[j] # "idle", NEW s, s # "idle",
         caller' = [caller EXCEPT ![j] = s]
  PROVE  Busy' = Busy /\ Busy # {}
  BY DEF Busy, LibcoreTypeOK

(***************************************************************************)
(* The invariant is kept.                                                  *)
(***************************************************************************)

\* What comes first in the queue is an item.
LEMMA HeadIsItem ==
  ASSUME QueueOK, afterLibcoreFlushes # <<>>
  PROVE  Head(afterLibcoreFlushes) \in Items
  BY DEF QueueOK

\* Items alone are queued.
LEMMA ItemsStep == QueueOK /\ [LibcoreNext]_libcoreVars => QueueOK'
<1> SUFFICES ASSUME QueueOK, [LibcoreNext]_libcoreVars PROVE QueueOK'
  OBVIOUS
<1>a. ASSUME UNCHANGED afterLibcoreFlushes PROVE QueueOK'
  BY <1>a DEF QueueOK
<1>1. ASSUME NEW f \in Flushes, FlushGoesOn(f) PROVE QueueOK'
  <2>1. /\ afterLibcoreFlushes # <<>>
        /\ afterLibcoreFlushes' = Tail(afterLibcoreFlushes)
    BY <1>1 DEF FlushGoesOn
  <2> QED
    BY <2>1 DEF QueueOK
<1>2. ASSUME NEW i \in Items, afterLibcoreGC(i) PROVE QueueOK'
  <2>1. \/ afterLibcoreFlushes' = Append(afterLibcoreFlushes, i)
        \/ UNCHANGED afterLibcoreFlushes
    BY <1>2 DEF afterLibcoreGC
  <2> QED
    BY <2>1 DEF QueueOK
<1>3. ASSUME NEW j \in Callers,
             withLibcore(j) \/ Loaded(j) \/ LoadFails(j) \/ JobBegins(j) \/ JobDone(j)
      PROVE  QueueOK'
  BY <1>3, <1>a DEF withLibcore, Loaded, LoadFails, JobBegins, JobDone
<1>4. ASSUME NEW f \in Flushes, TimerFires(f) \/ FlushEnds(f) \/ FlushFails(f) PROVE QueueOK'
  BY <1>4, <1>a DEF TimerFires, FlushEnds, FlushFails
<1>5. CASE CoreLoads \/ Reset \/ ResetEnds
  BY <1>5, <1>a DEF CoreLoads, Reset, ResetEnds
<1>6. CASE UNCHANGED libcoreVars
  BY <1>6, <1>a DEF libcoreVars
<1> QED
  BY <1>1, <1>2, <1>3, <1>4, <1>5, <1>6 DEF LibcoreNext

\* Every action keeps the types.
LEMMA TypeStep == LibcoreTypeOK /\ QueueOK /\ [LibcoreNext]_libcoreVars => LibcoreTypeOK'
<1> SUFFICES ASSUME LibcoreTypeOK, QueueOK, [LibcoreNext]_libcoreVars PROVE LibcoreTypeOK'
  OBVIOUS
<1> USE DEF LibcoreTypeOK
<1>1. ASSUME NEW j \in Callers, withLibcore(j) PROVE LibcoreTypeOK'
  BY <1>1 DEF withLibcore
<1>2. ASSUME NEW j \in Callers, Loaded(j) PROVE LibcoreTypeOK'
  BY <1>2 DEF Loaded
<1>3. ASSUME NEW j \in Callers, LoadFails(j) PROVE LibcoreTypeOK'
  BY <1>3 DEF LoadFails
<1>4. ASSUME NEW j \in Callers, JobBegins(j) PROVE LibcoreTypeOK'
  BY <1>4 DEF JobBegins
<1>5. ASSUME NEW j \in Callers, JobDone(j) PROVE LibcoreTypeOK'
  BY <1>5 DEF JobDone
<1>6. CASE CoreLoads
  BY <1>6 DEF CoreLoads
<1>7. ASSUME NEW f \in Flushes, TimerFires(f) PROVE LibcoreTypeOK'
  BY <1>7 DEF TimerFires
<1>8. ASSUME NEW f \in Flushes, FlushGoesOn(f) PROVE LibcoreTypeOK'
  <2>1. Head(afterLibcoreFlushes) \in Items
    BY <1>8, HeadIsItem DEF FlushGoesOn
  <2> QED
    BY <1>8, <2>1 DEF FlushGoesOn
<1>9. ASSUME NEW f \in Flushes, FlushEnds(f) PROVE LibcoreTypeOK'
  BY <1>9 DEF FlushEnds, Resolve
<1>10. ASSUME NEW f \in Flushes, FlushFails(f) PROVE LibcoreTypeOK'
  BY <1>10 DEF FlushFails, Resolve
<1>11. ASSUME NEW i \in Items, afterLibcoreGC(i) PROVE LibcoreTypeOK'
  BY <1>11 DEF afterLibcoreGC
<1>12. CASE Reset
  BY <1>12 DEF Reset
<1>13. CASE ResetEnds
  BY <1>13 DEF ResetEnds
<1>14. CASE UNCHANGED libcoreVars
  BY <1>14 DEF libcoreVars
<1> QED
  BY <1>1, <1>2, <1>3, <1>4, <1>5, <1>6, <1>7, <1>8, <1>9, <1>10, <1>11, <1>12, <1>13,
     <1>14 DEF LibcoreNext

\* The counter, the timer and the callers stay in step.
LEMMA CounterStep ==
  ASSUME LibcoreTypeOK, Counted, TimerAlone, [LibcoreNext]_libcoreVars
  PROVE  (Counted /\ TimerAlone)'
<1>a. ASSUME UNCHANGED <<caller, libcoreJobsCounter>>, flushTimeout' => flushTimeout
      PROVE  (Counted /\ TimerAlone)'
  BY <1>a DEF Counted, TimerAlone, Busy
<1>1. ASSUME NEW j \in Callers, withLibcore(j) PROVE (Counted /\ TimerAlone)'
  <2>1. Cardinality(Busy') = Cardinality(Busy) + 1
    <3> DEFINE s == IF core THEN "has core" ELSE "loading"
    <3>1. /\ caller[j] = "idle"
          /\ caller' = [caller EXCEPT ![j] = s]
      BY <1>1 DEF withLibcore
    <3>2. s # "idle"
      OBVIOUS
    <3> HIDE DEF s
    <3> QED
      BY <3>1, <3>2, OneMore
  <2> QED
    BY <1>1, <2>1 DEF withLibcore, Counted, TimerAlone
<1>2. ASSUME NEW j \in Callers, Loaded(j) \/ JobBegins(j) PROVE (Counted /\ TimerAlone)'
  <2>1. Busy' = Busy
    BY <1>2, AsMany DEF Loaded, JobBegins
  <2>2. UNCHANGED <<libcoreJobsCounter, flushTimeout>>
    BY <1>2 DEF Loaded, JobBegins
  <2> QED
    BY <2>1, <2>2 DEF Counted, TimerAlone
<1>3. ASSUME NEW j \in Callers, LoadFails(j) \/ JobDone(j) PROVE (Counted /\ TimerAlone)'
  <2>1. Cardinality(Busy') = Cardinality(Busy) - 1
    BY <1>3, OneLess DEF LoadFails, JobDone
  <2>2. libcoreJobsCounter' = libcoreJobsCounter - 1
    BY <1>3 DEF LoadFails, JobDone
  <2>3. Counted'
    BY <2>1, <2>2, BusyFinite DEF Counted
  <2>4. ~flushTimeout
    BY <1>3 DEF TimerAlone, Busy, LoadFails, JobDone
  <2>5. flushTimeout' => libcoreJobsCounter' = 0
    BY <1>3, <2>4 DEF LoadFails, JobDone
  <2>6. libcoreJobsCounter' = 0 => Busy' = {}
    <3>1. Cardinality(Busy') = 0 <=> Busy' = {}
      <4>1. IsFiniteSet(Busy')
        BY LibcoreAssumption, FS_Subset DEF Busy, LibcoreAssumption
      <4> QED
        BY <4>1, FS_EmptySet
    <3> QED
      BY <2>3, <3>1 DEF Counted
  <2> QED
    BY <2>3, <2>5, <2>6 DEF TimerAlone
<1>4. CASE CoreLoads
  BY <1>4, <1>a DEF CoreLoads
<1>5. ASSUME NEW f \in Flushes, TimerFires(f) \/ FlushGoesOn(f) \/ FlushEnds(f) \/ FlushFails(f)
      PROVE  (Counted /\ TimerAlone)'
  BY <1>5, <1>a DEF TimerFires, FlushGoesOn, FlushEnds, FlushFails
<1>6. ASSUME NEW i \in Items, afterLibcoreGC(i) PROVE (Counted /\ TimerAlone)'
  <2>1. UNCHANGED <<caller, libcoreJobsCounter>>
    BY <1>6 DEF afterLibcoreGC
  <2>2. flushTimeout' => flushTimeout \/ libcoreJobsCounter = 0
    BY <1>6 DEF afterLibcoreGC
  <2>3. flushTimeout' => Busy = {}
    BY <2>2, BusyFinite DEF Counted, TimerAlone
  <2> QED
    BY <2>1, <2>3 DEF Counted, TimerAlone, Busy
<1>7. CASE Reset \/ ResetEnds
  BY <1>7, <1>a DEF Reset, ResetEnds
<1>8. CASE UNCHANGED libcoreVars
  BY <1>8, <1>a DEF libcoreVars
<1> QED
  BY <1>1, <1>2, <1>3, <1>4, <1>5, <1>6, <1>7, <1>8 DEF LibcoreNext

\* Callers wait for the last flush.
LEMMA AwaitsStep ==
  ASSUME LibcoreTypeOK, TimerAlone, AwaitsLast, [LibcoreNext]_libcoreVars
  PROVE  AwaitsLast'
<1> USE DEF LibcoreTypeOK, AwaitsLast
<1>a. ASSUME UNCHANGED <<caller, awaits, lastFlush>> PROVE AwaitsLast'
  BY <1>a
<1>1. ASSUME NEW j \in Callers, withLibcore(j) PROVE AwaitsLast'
  BY <1>1 DEF withLibcore
<1>2. ASSUME NEW j \in Callers, Loaded(j) PROVE AwaitsLast'
  BY <1>2 DEF Loaded
<1>3. ASSUME NEW j \in Callers, LoadFails(j) PROVE AwaitsLast'
  BY <1>3 DEF LoadFails
<1>4. ASSUME NEW j \in Callers, JobBegins(j) PROVE AwaitsLast'
  BY <1>4 DEF JobBegins
<1>5. ASSUME NEW j \in Callers, JobDone(j) PROVE AwaitsLast'
  BY <1>5 DEF JobDone
<1>6. ASSUME NEW f \in Flushes, TimerFires(f) PROVE AwaitsLast'
  <2>1. \A j \in Callers : caller[j] = "idle"
    BY <1>6 DEF TimerFires, TimerAlone, Busy
  <2> QED
    BY <1>6, <2>1 DEF TimerFires
<1>7. ASSUME NEW f \in Flushes, Resolve(f), UNCHANGED caller PROVE AwaitsLast'
  <2>1. NoFlush # f
    BY LibcoreAssumption DEF LibcoreAssumption
  <2> QED
    BY <1>7, <2>1 DEF Resolve
<1>8. ASSUME NEW f \in Flushes, FlushEnds(f) \/ FlushFails(f) PROVE AwaitsLast'
  BY <1>8, <1>7 DEF FlushEnds, FlushFails
<1>9. ASSUME NEW f \in Flushes, FlushGoesOn(f) PROVE AwaitsLast'
  BY <1>9, <1>a DEF FlushGoesOn
<1>10. ASSUME NEW i \in Items, afterLibcoreGC(i) PROVE AwaitsLast'
  BY <1>10, <1>a DEF afterLibcoreGC
<1>11. CASE CoreLoads \/ Reset \/ ResetEnds
  BY <1>11, <1>a DEF CoreLoads, Reset, ResetEnds
<1>12. CASE UNCHANGED libcoreVars
  BY <1>12, <1>a DEF libcoreVars
<1> QED
  BY <1>1, <1>2, <1>3, <1>4, <1>5, <1>6, <1>8, <1>9, <1>10, <1>11, <1>12 DEF LibcoreNext

\* Without afterLibcoreGC flushes come one after the other.
LEMMA OneFlushStep ==
  ASSUME LibcoreTypeOK, QueueOK, AwaitsLast, OneFlush, [LibcoreNext]_libcoreVars
  PROVE  OneFlush'
<1> USE DEF LibcoreTypeOK, OneFlush
<1>0. NoFlush \notin Flushes
  BY LibcoreAssumption DEF LibcoreAssumption
<1>a. ASSUME UNCHANGED <<items, flushing, lastFlush>>, flushTimeout' => flushTimeout
      PROVE  OneFlush'
  BY <1>a
<1>1. ASSUME NEW j \in Callers, withLibcore(j) \/ Loaded(j) \/ LoadFails(j) \/ JobBegins(j)
      PROVE  OneFlush'
  BY <1>1, <1>a DEF withLibcore, Loaded, LoadFails, JobBegins
<1>2. ASSUME NEW j \in Callers, JobDone(j) PROVE OneFlush'
  <2>1. lastFlush = NoFlush
    BY <1>2 DEF JobDone, AwaitsLast
  <2> QED
    BY <1>2, <2>1, <1>0 DEF JobDone
<1>3. ASSUME NEW f \in Flushes, TimerFires(f) PROVE OneFlush'
  BY <1>3 DEF TimerFires
<1>4. ASSUME NEW f \in Flushes, FlushGoesOn(f) PROVE OneFlush'
  <2>1. Head(afterLibcoreFlushes) \in Items
    BY <1>4, HeadIsItem DEF FlushGoesOn
  <2>2. items'[Head(afterLibcoreFlushes)] = "running"
    BY <1>4, <2>1 DEF FlushGoesOn
  <2> QED
    BY <2>1, <2>2
<1>5. ASSUME NEW f \in Flushes, FlushEnds(f) \/ FlushFails(f) PROVE OneFlush'
  <2>1. (\A i \in Items : items'[i] = "new") => \A i \in Items : items[i] = "new"
    BY <1>5 DEF FlushEnds, FlushFails
  <2>2. flushing' = [flushing EXCEPT ![f] = "none"]
    BY <1>5 DEF FlushEnds, FlushFails, Resolve
  <2>3. lastFlush' = IF lastFlush = f THEN NoFlush ELSE lastFlush
    BY <1>5 DEF FlushEnds, FlushFails, Resolve
  <2>4. flushTimeout' = flushTimeout
    BY <1>5 DEF FlushEnds, FlushFails
  <2> QED
    BY <2>1, <2>2, <2>3, <2>4
<1>6. ASSUME NEW i \in Items, afterLibcoreGC(i) PROVE OneFlush'
  <2>1. items'[i] # "new"
    BY <1>6 DEF afterLibcoreGC
  <2> QED
    BY <2>1
<1>7. CASE CoreLoads \/ Reset \/ ResetEnds
  BY <1>7, <1>a DEF CoreLoads, Reset, ResetEnds
<1>8. CASE UNCHANGED libcoreVars
  BY <1>8, <1>a DEF libcoreVars
<1> QED
  BY <1>1, <1>2, <1>3, <1>4, <1>5, <1>6, <1>7, <1>8 DEF LibcoreNext

\* What waits for a flush has something to wait for.
LEMMA ServedStep ==
  ASSUME LibcoreTypeOK, QueueOK, Counted, ItemsServed, [LibcoreNext]_libcoreVars
  PROVE  ItemsServed'
<1> USE DEF LibcoreTypeOK, ItemsServed
<1>a. ASSUME UNCHANGED <<caller, flushing, afterLibcoreFlushes, failed>>,
             flushTimeout => flushTimeout'
      PROVE  ItemsServed'
  BY <1>a
<1>b. ASSUME NEW j \in Callers, caller'[j] # "idle" PROVE ItemsServed'
  BY <1>b
<1>c. Busy = {} \/ \E j \in Callers : caller[j] # "idle"
  BY DEF Busy
<1>1. ASSUME NEW j \in Callers, withLibcore(j) PROVE ItemsServed'
  BY <1>1, <1>b DEF withLibcore
<1>2. ASSUME NEW j \in Callers, Loaded(j) \/ JobBegins(j) PROVE ItemsServed'
  BY <1>2, <1>b DEF Loaded, JobBegins
<1>3. ASSUME NEW j \in Callers, LoadFails(j) PROVE ItemsServed'
  BY <1>3 DEF LoadFails
<1>4. ASSUME NEW j \in Callers, JobDone(j) PROVE ItemsServed'
  <2>1. Cardinality(Busy') = Cardinality(Busy) - 1
    BY <1>4, OneLess DEF JobDone
  <2>2. libcoreJobsCounter' = Cardinality(Busy')
    BY <1>4, <2>1, BusyFinite DEF JobDone, Counted
  <2>3. CASE Busy' = {}
    BY <1>4, <2>2, <2>3, FS_EmptySet DEF JobDone
  <2>4. CASE Busy' # {}
    BY <2>4, <1>b DEF Busy
  <2> QED
    BY <2>3, <2>4
<1>5. ASSUME NEW f \in Flushes, TimerFires(f) PROVE ItemsServed'
  BY <1>5 DEF TimerFires
<1>6. ASSUME NEW f \in Flushes, FlushGoesOn(f) PROVE ItemsServed'
  <2>1. Head(afterLibcoreFlushes) \in Items
    BY <1>6, HeadIsItem DEF FlushGoesOn
  <2>2. flushing'[f] # "none"
    BY <1>6, <2>1, LibcoreAssumption DEF FlushGoesOn, LibcoreAssumption
  <2> QED
    BY <2>2
<1>7. ASSUME NEW f \in Flushes, FlushEnds(f) PROVE ItemsServed'
  BY <1>7 DEF FlushEnds
<1>8. ASSUME NEW f \in Flushes, FlushFails(f) PROVE ItemsServed'
  BY <1>8 DEF FlushFails
<1>9. ASSUME NEW i \in Items, afterLibcoreGC(i) PROVE ItemsServed'
  <2>1. CASE ~core
    BY <1>9, <2>1, <1>a DEF afterLibcoreGC
  <2>2. CASE libcoreJobsCounter = 0 /\ core
    BY <1>9, <2>2 DEF afterLibcoreGC
  <2>3. CASE libcoreJobsCounter # 0
    <3>1. \E j \in Callers : caller[j] # "idle"
      BY <2>3, <1>c, FS_EmptySet DEF Counted
    <3> QED
      BY <1>9, <3>1 DEF afterLibcoreGC
  <2> QED
    BY <2>1, <2>2, <2>3
<1>10. CASE CoreLoads \/ Reset \/ ResetEnds
  BY <1>10, <1>a DEF CoreLoads, Reset, ResetEnds
<1>11. CASE UNCHANGED libcoreVars
  BY <1>11, <1>a DEF libcoreVars
<1> QED
  BY <1>1, <1>2, <1>3, <1>4, <1>5, <1>6, <1>7, <1>8, <1>9, <1>10, <1>11 DEF LibcoreNext

\* The invariant holds at the start.
LEMMA InvInit == LibcoreInit => LibcoreInv
<1> SUFFICES ASSUME LibcoreInit PROVE LibcoreInv
  OBVIOUS
<1>0. QueueOK
  BY DEF LibcoreInit, QueueOK
<1>1. LibcoreTypeOK
  BY DEF LibcoreInit, LibcoreTypeOK
<1>2. Busy = {}
  BY DEF LibcoreInit, Busy
<1>3. Counted /\ TimerAlone
  BY <1>2, FS_EmptySet DEF LibcoreInit, Counted, TimerAlone
<1>4. AwaitsLast /\ OneFlush /\ ItemsServed
  BY DEF LibcoreInit, AwaitsLast, OneFlush, ItemsServed
<1> QED
  BY <1>0, <1>1, <1>3, <1>4 DEF LibcoreInv

\* The invariant holds of every behaviour.
LEMMA InvCorrect == LibcoreSpec => []LibcoreInv
<1>1. LibcoreInv /\ [LibcoreNext]_libcoreVars => LibcoreInv'
  BY TypeStep, ItemsStep, CounterStep, AwaitsStep, OneFlushStep, ServedStep DEF LibcoreInv
<1> QED
  BY InvInit, <1>1, PTL DEF LibcoreSpec

(***************************************************************************)
(* Theorems.                                                               *)
(***************************************************************************)

\* Every variable of libcore/access.ts keeps its type.
THEOREM LibcoreTypeCorrect == LibcoreSpec => [](LibcoreTypeOK /\ QueueOK)
<1>1. LibcoreInv => LibcoreTypeOK /\ QueueOK
  BY DEF LibcoreInv
<1> QED
  BY InvCorrect, <1>1, PTL

\* libcoreJobsCounter counts the callers of withLibcore that were not answered, whatever
\* fails: it never stays above zero, which would end all flushes.
THEOREM CounterCorrect == LibcoreSpec => []Counted
<1>1. LibcoreInv => Counted
  BY DEF LibcoreInv
<1> QED
  BY InvCorrect, <1>1, PTL

\* withLibcore awaits lastFlush: no job runs during the last flush, and none during any
\* flush as long as afterLibcoreGC is not used.
THEOREM JobsExcludeFlush == LibcoreSpec => []JobsAwaitFlush
<1>1. LibcoreInv => JobsAwaitFlush
  <2> SUFFICES ASSUME LibcoreInv, NEW j \in Callers, caller[j] = "running"
               PROVE  /\ lastFlush = NoFlush
                      /\ (\A i \in Items : items[i] = "new") =>
                           \A f \in Flushes : flushing[f] = "none"
    BY DEF JobsAwaitFlush
  <2>1. lastFlush = NoFlush
    BY DEF LibcoreInv, AwaitsLast
  <2> QED
    BY <2>1, LibcoreAssumption DEF LibcoreInv, OneFlush, LibcoreAssumption
<1> QED
  BY InvCorrect, <1>1, PTL

\* The timer of the flush never runs while a caller is loading, waiting or working.
THEOREM NoTimerUnderJob == LibcoreSpec => []NoFlushDue
<1>1. LibcoreInv => NoFlushDue
  BY DEF LibcoreInv, TimerAlone, Busy, NoFlushDue
<1> QED
  BY InvCorrect, <1>1, PTL

\* What waits in afterLibcoreFlushes has something to wait for unless something failed.
THEOREM ItemsWait == LibcoreSpec => []ItemsServed
<1>1. LibcoreInv => ItemsServed
  BY DEF LibcoreInv
<1> QED
  BY InvCorrect, <1>1, PTL

(***************************************************************************)
(* The scheduler of the synchronisations, for any accounts, priorities and *)
(* number of workers.                                                      *)
(***************************************************************************)

\* The variables that the properties are about.
SyncView == <<state, known, seen, running, stale>>

\* The states React renders are states of accounts.
SyncTyped ==
  /\ state \in [AccountIds -> SyncStates]
  /\ seen.state \in [AccountIds -> SyncStates]
  /\ running \in [AccountIds -> Nat]

\* Every step but those of React and of the workers leaves the view alone.
LEMMA SyncSteps ==
  ASSUME [SyncNext]_syncVars
  PROVE  \/ UNCHANGED SyncView
         \/ \E ids \in SUBSET AccountIds : Rerender(state, ids) /\ UNCHANGED <<running, stale>>
         \/ UNCHANGED <<state, known, running, stale>> /\ seen' = Rendered
         \/ \E a \in AccountIds :
              \/ /\ Wanted(a) /\ TakenUp(a)
                 /\ SetAccountSyncState(a, "error") /\ UNCHANGED running
              \/ /\ Wanted(a) /\ TakenUp(a)
                 /\ SetAccountSyncState(a, "pending")
                 /\ running' = [running EXCEPT ![a] = @ + 1]
              \/ \E error \in BOOLEAN :
                   /\ running[a] > 0
                   /\ Ended(a, error)
                   /\ running' = [running EXCEPT ![a] = @ - 1]
                   /\ stale' = stale
<1> USE DEF SyncView
<1>1. CASE UNCHANGED syncVars
  BY <1>1 DEF syncVars
<1>2. CASE SyncUser
  <2>1. ASSUME NEW p \in Priorities,
               \/ SyncAllAccounts(p)
               \/ \E a \in AccountIds : SyncOneAccount(a, p)
               \/ \E upToDate \in BOOLEAN : SetSkipUnderPriority(p, upToDate)
        PROVE  UNCHANGED SyncView
    BY <2>1 DEF SyncAllAccounts, SyncOneAccount, SyncSomeAccounts,
       SetSkipUnderPriority
  <2>2. ASSUME NEW ids \in SUBSET AccountIds, SetAccounts(ids)
        PROVE  Rerender(state, ids) /\ UNCHANGED <<running, stale>>
    BY <2>2 DEF SetAccounts
  <2> QED
    BY <1>2, <2>1, <2>2 DEF SyncUser
<1>3. CASE BackgroundTick \/ PendingTick \/ StartProcessing \/ StopProcessing
  BY <1>3 DEF BackgroundTick, PendingTick, StartProcessing, StopProcessing
<1>4. CASE RunEffects
  BY <1>4 DEF RunEffects
<1>5. ASSUME NEW a \in AccountIds, Worker(a) \/ End(a)
      PROVE  \/ UNCHANGED SyncView
             \/ /\ Wanted(a) /\ TakenUp(a)
                /\ SetAccountSyncState(a, "error") /\ UNCHANGED running
             \/ /\ Wanted(a) /\ TakenUp(a)
                /\ SetAccountSyncState(a, "pending")
                /\ running' = [running EXCEPT ![a] = @ + 1]
             \/ \E error \in BOOLEAN :
                  /\ running[a] > 0
                  /\ Ended(a, error)
                  /\ running' = [running EXCEPT ![a] = @ - 1]
                  /\ stale' = stale
  BY <1>5 DEF Worker, DropTask, StartFails, StartSync, End, EndSync
<1> QED
  BY <1>1, <1>2, <1>3, <1>4, <1>5 DEF SyncNext

LEMMA TypedInit == SyncInit => SyncTyped
  BY DEF SyncInit, SyncTyped, SyncStates

LEMMA TypedStep == SyncTyped /\ [SyncNext]_syncVars => SyncTyped'
<1> SUFFICES ASSUME SyncTyped, [SyncNext]_syncVars PROVE SyncTyped'
  OBVIOUS
<1> QED
  BY SyncSteps DEF SyncTyped, SyncView, Rerender, Rendered, SetAccountSyncState, Ended,
     SyncStates

LEMMA PhantomStep ==
  SyncTyped /\ NoPhantomPending /\ [SyncNext]_syncVars => NoPhantomPending'
<1> SUFFICES ASSUME SyncTyped, NoPhantomPending, [SyncNext]_syncVars
             PROVE  NoPhantomPending'
  OBVIOUS
<1> QED
  BY SyncSteps DEF NoPhantomPending, SyncTyped, SyncView, Rerender, SetAccountSyncState,
     Ended, SyncStates

\* The guard of a worker sees the state of the account, or marks it.
LEMMA OneSyncStep ==
  SyncTyped /\ OneSync /\ [SyncNext]_syncVars => OneSync'
<1> SUFFICES ASSUME SyncTyped, OneSync, [SyncNext]_syncVars,
                    NEW a \in AccountIds, a \notin stale'
             PROVE  running'[a] = IF state'[a] = "pending" THEN 1 ELSE 0
  BY DEF OneSync
<1>1. stale \subseteq stale'
  BY SyncSteps DEF SyncView, TakenUp
<1>2. running[a] = IF state[a] = "pending" THEN 1 ELSE 0
  BY <1>1 DEF OneSync
<1>3. Wanted(a) /\ TakenUp(a) => state[a] # "pending"
  BY DEF Wanted, TakenUp
<1> QED
  BY <1>2, <1>3, SyncSteps
  DEF SyncTyped, SyncView, Rerender, SetAccountSyncState, Ended, SyncStates

\* However late the effects run and however often it is queued, an account that is
\* shown as pending has a sync that will end it, and one that no worker took up with
\* a closure that did not know its state is pending exactly while one sync of it runs.
THEOREM OneSyncAtATime == SyncSpec => []PendingIsOneSync
<1>1. SyncInit => SyncTyped /\ PendingIsOneSync
  BY TypedInit DEF SyncInit, PendingIsOneSync, NoPhantomPending, OneSync
<1>2. (SyncTyped /\ PendingIsOneSync) /\ [SyncNext]_syncVars
        => (SyncTyped /\ PendingIsOneSync)'
  BY TypedStep, PhantomStep, OneSyncStep DEF PendingIsOneSync
<1> QED
  BY <1>1, <1>2, PTL DEF SyncSpec

(***************************************************************************)
(* The form.                                                               *)
(***************************************************************************)

FormPhases == {"debounce", "prepare", "check", "retry"}

Works ==
  [phase : FormPhases, account : Accounts, transaction : Transactions,
   result : Transactions \cup {NoTx}]

Forms ==
  [account : Accounts \cup {NoAccount}, transaction : Transactions \cup {NoTx},
   statusOnTransaction : Transactions \cup {NoTx},
   about : [account : Accounts \cup {NoAccount},
            transaction : Transactions \cup {NoTx}],
   errorAccount : BOOLEAN, errorStatus : BOOLEAN]

LEMMA NoTxIsNone == NoTx \notin Transactions
BY DEF NoTx, Transactions

\* A copy is a transaction and says the same.
LEMMA NewIsCopy ==
  ASSUME NEW s \in Forms, NEW t \in Transactions
  PROVE  /\ New(s, t) \in Transactions
         /\ New(s, t).edit = t.edit
         /\ New(s, t).account = t.account
<1> DEFINE Other(c) ==
      [t EXCEPT !.copy = c] \notin {s.transaction, s.statusOnTransaction}
<1>1. \E c \in Copies : Other(c)
  <2>1. \E b \in Copies : \A c \in Copies : c # b => [t EXCEPT !.copy = c] # s.transaction
    BY FormAssumption, NoTxIsNone DEF Forms, Transactions
  <2>2. \E b \in Copies :
          \A c \in Copies : c # b => [t EXCEPT !.copy = c] # s.statusOnTransaction
    BY FormAssumption, NoTxIsNone DEF Forms, Transactions
  <2> QED
    BY <2>1, <2>2, FormAssumption
<1>2. (CHOOSE c \in Copies : Other(c)) \in Copies
  BY <1>1
<1> QED
  BY <1>2 DEF New, Transactions

LEMMA EffectTyped ==
  ASSUME NEW s \in Forms, NEW busy \in BOOLEAN
  PROVE  Effect(s, busy) \in Works \cup {Idle}
BY DEF Effect, Doing, Forms, Works, FormPhases

\* A render leaves the types alone.
LEMMA RenderTyped ==
  ASSUME FormTypeOK, NEW s \in Forms, NEW now \in Works \cup {Idle}, NEW busy \in BOOLEAN,
         Render(s, now, busy)
  PROVE  /\ form' \in Forms
         /\ work' \in Works \cup {Idle}
         /\ dirty' \in BOOLEAN /\ pending' \in BOOLEAN
<1>1. form \in Forms
  BY DEF FormTypeOK, Forms
<1>2. /\ Effect(s, busy) \in Works \cup {Idle}
      /\ Effect(form, busy) \in Works \cup {Idle}
  BY <1>1, EffectTyped
<1>3. setting.late \in BOOLEAN
  BY FormAssumption DEF FormTypeOK
<1> QED
  BY <1>1, <1>2, <1>3 DEF Render, RunEffect

LEMMA SetAccountTyped ==
  ASSUME NEW s \in Forms, NEW a \in Accounts PROVE setAccount(s, a) \in Forms
<1>1. createTransaction(a) \in Transactions
  BY FormAssumption DEF createTransaction, Transactions
<1>2. New(s, createTransaction(a)) \in Transactions
  BY <1>1, NewIsCopy
<1> QED
  BY <1>2 DEF setAccount, initial, Forms

LEMMA InitialTyped == initial \in Forms
BY DEF initial, Forms

LEMMA SetTransactionTyped ==
  ASSUME NEW s \in Forms, NEW t \in Transactions
  PROVE  setTransaction(s, t) \in Forms
BY DEF setTransaction, Forms

LEMMA OptionalTyped == optionalInit \subseteq Forms
<1>1. ASSUME NEW t \in Transactions
      PROVE  LET s == setAccount(initial, t.account)
             IN  setTransaction(s, New(s, t)) \in Forms
  <2> DEFINE s == setAccount(initial, t.account)
  <2>1. s \in Forms
    BY InitialTyped, SetAccountTyped DEF Transactions
  <2> HIDE DEF s
  <2>2. setTransaction(s, New(s, t)) \in Forms
    BY <2>1, NewIsCopy, SetTransactionTyped
  <2> QED
    BY <2>2 DEF s
<1> QED
  BY <1>1, InitialTyped, SetAccountTyped DEF optionalInit

LEMMA AskedTyped ==
  ASSUME NEW s \in Forms
  PROVE  Asked(s) \in [account : Accounts \cup {NoAccount}, edit : Edits \cup {"none"}]
BY DEF Asked, Forms, Transactions, NoTx

\* What FormTypeOK says in the terms of this module.
LEMMA Typed ==
  FormTypeOK <=> /\ setting \in Settings
                 /\ form \in Forms
                 /\ dirty \in BOOLEAN /\ pending \in BOOLEAN
                 /\ work \in Works \cup {Idle}
                 /\ leaked \subseteq Transactions
                 /\ wanted \in [account : Accounts \cup {NoAccount}, edit : Edits \cup {"none"}]
                 /\ overtaken \in BOOLEAN
BY DEF FormTypeOK, Forms, Works, FormPhases

\* The state of the form keeps its type, whatever the bridge answers and when.
THEOREM FormTypeCorrect == FormSpec => []FormTypeOK
<1>1. FormInit => FormTypeOK
  <2> SUFFICES ASSUME FormInit PROVE FormTypeOK
    OBVIOUS
  <2>1. form \in Forms
    BY OptionalTyped DEF FormInit
  <2>2. work \in Works \cup {Idle}
    BY <2>1, EffectTyped DEF FormInit
  <2>3. dirty \in BOOLEAN /\ pending \in BOOLEAN
    BY FormAssumption DEF FormInit
  <2> QED
    BY <2>1, <2>2, <2>3, AskedTyped, Typed DEF FormInit
<1>2. FormTypeOK /\ [FormNext]_formVars => FormTypeOK'
  <2> SUFFICES ASSUME FormTypeOK, [FormNext]_formVars PROVE FormTypeOK'
    OBVIOUS
  <2>1. /\ setting \in Settings /\ form \in Forms
        /\ dirty \in BOOLEAN /\ pending \in BOOLEAN
        /\ work \in Works \cup {Idle} /\ leaked \subseteq Transactions
        /\ wanted \in [account : Accounts \cup {NoAccount}, edit : Edits \cup {"none"}]
        /\ overtaken \in BOOLEAN
    BY Typed
  <2> SUFFICES /\ setting' \in Settings /\ form' \in Forms
               /\ dirty' \in BOOLEAN /\ pending' \in BOOLEAN
               /\ work' \in Works \cup {Idle} /\ leaked' \subseteq Transactions
               /\ wanted' \in [account : Accounts \cup {NoAccount},
                               edit : Edits \cup {"none"}]
               /\ overtaken' \in BOOLEAN
    BY DEF FormTypeOK, Forms, Works, FormPhases
  <2>2. ASSUME NEW s \in Forms, UserRenders(s)
        PROVE  /\ setting' = setting /\ leaked' = leaked
               /\ form' \in Forms /\ work' \in Works \cup {Idle}
               /\ dirty' \in BOOLEAN /\ pending' \in BOOLEAN
               /\ wanted' = Asked(s) /\ overtaken' \in BOOLEAN
    <3>1. Render(s, work, pending)
      BY <2>2 DEF UserRenders
    <3> QED
      BY <2>1, <2>2, <3>1, RenderTyped DEF UserRenders
  <2>3. CASE SetAccount
    BY <2>1, <2>2, <2>3, SetAccountTyped, AskedTyped DEF SetAccount
  <2>4. CASE Edit
    <3>1. PICK edit \in Edits : UserRenders(setTransaction(form,
            New(form, [form.transaction EXCEPT !.edit = edit, !.prepared = FALSE])))
      BY <2>4 DEF Edit
    <3> DEFINE t == [form.transaction EXCEPT !.edit = edit, !.prepared = FALSE]
    <3>2. t \in Transactions
      BY <2>1, <2>4 DEF Edit, Forms, Transactions
    <3> HIDE DEF t
    <3>3. setTransaction(form, New(form, t)) \in Forms
      BY <2>1, <3>2, NewIsCopy, SetTransactionTyped
    <3>4. UserRenders(setTransaction(form, New(form, t)))
      BY <3>1 DEF t
    <3> QED
      BY <2>1, <2>2, <3>3, <3>4, AskedTyped
  <2>5. CASE Restore
    <3>1. setTransaction(form, form.statusOnTransaction) \in Forms
      BY <2>1, <2>5 DEF Restore, setTransaction, Forms
    <3> QED
      BY <2>1, <2>2, <2>5, <3>1, AskedTyped DEF Restore
  <2>6. CASE LateEffect
    BY <2>1, <2>6, EffectTyped DEF LateEffect, RunEffect
  <2>7. CASE DebounceEnds
    BY <2>1, <2>7 DEF DebounceEnds, Works, FormPhases, Idle
  <2>8. CASE Prepared
    <3>1. work \in Works
      BY <2>1, <2>8 DEF Prepared, Idle
    <3>2. PICK t \in {work.transaction, [work.transaction EXCEPT !.prepared = TRUE]} :
            work' = [work EXCEPT !.phase = "check", !.result = t]
      BY <2>8 DEF Prepared
    <3>3. t \in Transactions
      BY <3>1 DEF Works, Transactions
    <3>4. work' \in Works
      BY <3>1, <3>2, <3>3 DEF Works, FormPhases
    <3> QED
      BY <2>1, <2>8, <3>4 DEF Prepared
  <2>9. CASE StatusOk
    <3>1. work \in Works
      BY <2>1, <2>9 DEF StatusOk, Idle
    <3>2. PICK s : s = onStatus(form, work.account, work.result)
      OBVIOUS
    <3>3. s \in Forms
      BY <2>1, <3>1, <3>2 DEF onStatus, Forms, Works
    <3>4. Render(s, Idle, FALSE)
      BY <2>9, <3>2 DEF StatusOk
    <3> QED
      BY <2>1, <2>9, <3>3, <3>4, RenderTyped DEF StatusOk
  <2>10. CASE Fails
    <3>1. work \in Works
      BY <2>1, <2>10 DEF Fails, Idle
    <3>2. [work EXCEPT !.phase = "retry"] \in Works
      BY <3>1 DEF Works, FormPhases
    <3>3. onStatusError(form) \in Forms
      BY <2>1 DEF onStatusError, Forms
    <3>4. [work.transaction EXCEPT !.copy = 0] \in Transactions
      BY <3>1, FormAssumption DEF Works, Transactions
    <3>5. Render(onStatusError(form), [work EXCEPT !.phase = "retry"], FALSE)
      BY <2>10 DEF Fails
    <3> QED
      BY <2>1, <2>10, <3>2, <3>3, <3>4, <3>5, RenderTyped DEF Fails
  <2>11. CASE RetryTimer
    <3>1. work \in Works
      BY <2>1, <2>11 DEF RetryTimer, Idle
    <3>2. setTransaction(form, New(form, work.transaction)) \in Forms
      BY <2>1, <3>1, NewIsCopy, SetTransactionTyped DEF Works
    <3> QED
      BY <2>1, <2>11, <3>2, RenderTyped DEF RetryTimer
  <2>12. CASE LeakedRetry
    <3>1. PICK old \in leaked :
            /\ leaked' = leaked \ {old}
            /\ Render(setTransaction(form, New(form, old)), work, pending)
      BY <2>12 DEF LeakedRetry
    <3>2. setTransaction(form, New(form, old)) \in Forms
      BY <2>1, NewIsCopy, SetTransactionTyped
    <3> QED
      BY <2>1, <2>12, <3>1, <3>2, RenderTyped DEF LeakedRetry
  <2>13. CASE UNCHANGED formVars
    BY <2>1, <2>13 DEF formVars
  <2> QED
    BY <2>3, <2>4, <2>5, <2>6, <2>7, <2>8, <2>9, <2>10, <2>11, <2>12, <2>13
    DEF FormNext, User
<1> QED
  BY <1>1, <1>2, PTL DEF FormSpec

(***************************************************************************)
(* What is worked on is what the form shows.                               *)
(***************************************************************************)

FormFits(s) ==
  /\ s.transaction # NoTx => s.transaction.account = s.account
  /\ s.statusOnTransaction # NoTx => /\ s.about.account = s.account
                                     /\ s.statusOnTransaction.account = s.account

WorkFits(s, w) ==
  w # Idle =>
    /\ w.account = s.account /\ w.transaction = s.transaction
    /\ w.phase = "check" => /\ w.result.edit = w.transaction.edit
                            /\ w.result.account = w.transaction.account

InTime == ~dirty /\ leaked = {} /\ FormFits(form) /\ ~overtaken

FormInv ==
  /\ form.statusOnTransaction = form.about.transaction
  /\ ~dirty => WorkFits(form, work)
  /\ ~overtaken => wanted = Asked(form)
  /\ ~setting.late => InTime

LEMMA EffectFits ==
  ASSUME NEW s, NEW busy PROVE WorkFits(s, Effect(s, busy))
BY DEF WorkFits, Effect, Doing, Idle

\* Once its effect has run, what a render leaves is work for what it shows.
LEMMA RenderFits ==
  ASSUME NEW s, NEW now, NEW busy, setting.late \/ ~dirty, Render(s, now, busy),
         ~dirty /\ Deps(s) = Deps(form) => WorkFits(s, now)
  PROVE  form' = s /\ (~setting.late => ~dirty') /\ (~dirty' => WorkFits(s, work'))
<1>1. CASE ~setting.late
  BY <1>1, EffectFits DEF Render, RunEffect
<1>2. CASE setting.late
  <2> SUFFICES ASSUME Deps(s) = Deps(form) PROVE WorkFits(s, work')
    BY <1>2 DEF Render
  <2>1. CASE dirty
    <3>1. work' = Effect(form, busy)
      BY <1>2, <2>1 DEF Render, RunEffect
    <3>2. WorkFits(form, work') => WorkFits(s, work')
      BY DEF Deps, WorkFits
    <3> QED
      BY <3>1, <3>2, EffectFits
  <2>2. CASE ~dirty
    BY <1>2, <2>2 DEF Render
  <2> QED
    BY <2>1, <2>2
<1> QED
  BY <1>1, <1>2

LEMMA SetAccountFits ==
  ASSUME NEW s \in Forms, NEW a \in Accounts
  PROVE  /\ FormFits(setAccount(s, a))
         /\ setAccount(s, a).statusOnTransaction = setAccount(s, a).about.transaction
         /\ setAccount(s, a).account = a
<1>1. initial.statusOnTransaction = NoTx /\ initial.about.transaction = NoTx
      /\ initial.transaction = NoTx
  BY DEF initial
<1>2. CASE a \in Broken
  BY <1>1, <1>2 DEF setAccount, FormFits, initial
<1>3. CASE a \notin Broken
  <2>1. createTransaction(a) \in Transactions /\ createTransaction(a).account = a
    BY FormAssumption DEF createTransaction, Transactions
  <2>2. New(s, createTransaction(a)).account = a
    BY <2>1, NewIsCopy
  <2> QED
    BY <1>1, <1>3, <2>2 DEF setAccount, FormFits, initial
<1> QED
  BY <1>2, <1>3

LEMMA OptionalFits ==
  ASSUME NEW s \in optionalInit
  PROVE  s.statusOnTransaction = s.about.transaction /\ FormFits(s)
<1>1. CASE s = initial
  BY <1>1 DEF initial, FormFits
<1>2. ASSUME NEW a \in Accounts, s = setAccount(initial, a)
      PROVE  s.statusOnTransaction = s.about.transaction /\ FormFits(s)
  BY <1>2, InitialTyped, SetAccountFits
<1>3. ASSUME NEW t \in Transactions,
             s = setTransaction(setAccount(initial, t.account),
                                New(setAccount(initial, t.account), t))
      PROVE  s.statusOnTransaction = s.about.transaction /\ FormFits(s)
  <2> DEFINE f == setAccount(initial, t.account)
  <2>1. t.account \in Accounts
    BY DEF Transactions
  <2>2. /\ f \in Forms /\ FormFits(f)
        /\ f.statusOnTransaction = f.about.transaction /\ f.account = t.account
    BY <2>1, InitialTyped, SetAccountTyped, SetAccountFits
  <2>3. s = setTransaction(f, New(f, t))
    BY <1>3
  <2> HIDE DEF f
  <2>4. New(f, t).account = t.account
    BY <2>2, NewIsCopy
  <2>5. /\ s.account = f.account /\ s.transaction = New(f, t)
        /\ s.statusOnTransaction = f.statusOnTransaction /\ s.about = f.about
    BY <2>2, <2>3 DEF setTransaction, Forms
  <2> QED
    BY <2>2, <2>4, <2>5 DEF FormFits
<1> QED
  BY <1>1, <1>2, <1>3 DEF optionalInit

LEMMA FormInvHolds == FormSpec => []FormInv
<1>1. FormInit => FormInv
  BY OptionalFits, EffectFits DEF FormInit, FormInv, InTime
<1>2. FormTypeOK /\ FormInv /\ [FormNext]_formVars => FormInv'
  <2> SUFFICES ASSUME FormTypeOK, FormInv, [FormNext]_formVars PROVE FormInv'
    OBVIOUS
  <2>1. form \in Forms /\ work \in Works \cup {Idle} /\ leaked \subseteq Transactions
        /\ setting.late \in BOOLEAN /\ dirty \in BOOLEAN /\ overtaken \in BOOLEAN
    BY Typed, FormAssumption
  <2>2. setting' = setting
    BY DEF FormNext, User, SetAccount, Edit, Restore, UserRenders, LateEffect,
           DebounceEnds, Prepared, StatusOk, Fails, RetryTimer, LeakedRetry, formVars
  <2> DEFINE InTurn == setting.late \/ ~dirty
  <2>3. InTurn
    BY DEF FormInv, InTime
  <2>4. ASSUME NEW s \in Forms, UserRenders(s), ~setting.late => FormFits(s),
               s.statusOnTransaction = s.about.transaction,
               ~dirty /\ Deps(s) = Deps(form) => WorkFits(s, work)
        PROVE  FormInv'
    <3>1. Render(s, work, pending)
      BY <2>4 DEF UserRenders
    <3>2. form' = s /\ (~setting.late => ~dirty') /\ (~dirty' => WorkFits(s, work'))
      BY <2>3, <2>4, <3>1, RenderFits
    <3> QED
      BY <2>2, <2>4, <3>2 DEF UserRenders, FormInv, InTime, Asked
  <2>5. CASE SetAccount
    <3>1. PICK a \in Accounts : UserRenders(setAccount(form, a))
      BY <2>5 DEF SetAccount
    <3>2. ~dirty /\ Deps(setAccount(form, a)) = Deps(form)
            => WorkFits(setAccount(form, a), work)
      BY DEF FormInv, WorkFits, Deps
    <3> QED
      BY <2>1, <2>4, <3>1, <3>2, SetAccountFits, SetAccountTyped
  <2>6. ASSUME NEW t \in Transactions, UserRenders(setTransaction(form, t)),
               ~setting.late => t.account = form.account
        PROVE  FormInv'
    <3> DEFINE s == setTransaction(form, t)
    <3>1. s \in Forms
      BY <2>1, SetTransactionTyped
    <3>2. ~setting.late => FormFits(s)
      BY <2>1, <2>6 DEF FormInv, InTime, FormFits, setTransaction, Forms
    <3>3. ~dirty /\ Deps(s) = Deps(form) => WorkFits(s, work)
      BY <2>1 DEF FormInv, WorkFits, Deps, setTransaction, Forms
    <3>4. s.statusOnTransaction = s.about.transaction
      BY <2>1 DEF FormInv, setTransaction, Forms
    <3> QED
      BY <2>4, <2>6, <3>1, <3>2, <3>3, <3>4
  <2>7. CASE Edit
    <3>1. PICK edit \in Edits : UserRenders(setTransaction(form,
            New(form, [form.transaction EXCEPT !.edit = edit, !.prepared = FALSE])))
      BY <2>7 DEF Edit
    <3> DEFINE t == [form.transaction EXCEPT !.edit = edit, !.prepared = FALSE]
    <3>2. t \in Transactions /\ t.account = form.transaction.account
      BY <2>1, <2>7 DEF Edit, Forms, Transactions
    <3>3. UserRenders(setTransaction(form, New(form, t)))
      BY <3>1
    <3> HIDE DEF t
    <3>4. New(form, t) \in Transactions /\ New(form, t).account = t.account
      BY <2>1, <3>2, NewIsCopy
    <3>5. ~setting.late => t.account = form.account
      BY <2>7, <3>2 DEF Edit, FormInv, InTime, FormFits
    <3> QED
      BY <2>6, <3>3, <3>4, <3>5
  <2>8. CASE Restore
    BY <2>1, <2>6, <2>8 DEF Restore, FormInv, InTime, FormFits, Forms
  <2>9. CASE LateEffect
    BY <2>2, <2>9, EffectFits DEF LateEffect, RunEffect, FormInv, InTime, Asked
  <2>10. ASSUME WorkFits(form, work) => WorkFits(form, work'),
                UNCHANGED <<setting, form, dirty, leaked, pending, wanted, overtaken>>
         PROVE  FormInv'
    BY <2>10 DEF FormInv, InTime, Asked
  <2>11. CASE DebounceEnds
    <3>1. work \in Works
      BY <2>1, <2>11 DEF DebounceEnds, Idle
    <3>2. WorkFits(form, work) => WorkFits(form, work')
      BY <2>11, <3>1 DEF DebounceEnds, WorkFits, Works, Idle
    <3> QED
      BY <2>10, <2>11, <3>2 DEF DebounceEnds
  <2>12. CASE Prepared
    <3>1. work \in Works
      BY <2>1, <2>12 DEF Prepared, Idle
    <3>2. PICK t \in {work.transaction, [work.transaction EXCEPT !.prepared = TRUE]} :
            work' = [work EXCEPT !.phase = "check", !.result = t]
      BY <2>12 DEF Prepared
    <3>3. t.edit = work.transaction.edit /\ t.account = work.transaction.account
      BY <3>1 DEF Works, Transactions
    <3>4. /\ work'.account = work.account /\ work'.transaction = work.transaction
          /\ work'.result = t
      BY <3>1, <3>2 DEF Works
    <3>5. work # Idle
      BY <2>12 DEF Prepared, Idle
    <3>6. WorkFits(form, work) => WorkFits(form, work')
      BY <3>3, <3>4, <3>5 DEF WorkFits
    <3> QED
      BY <2>10, <2>12, <3>6 DEF Prepared
  <2>13. CASE StatusOk
    <3> DEFINE s == onStatus(form, work.account, work.result)
    <3>1. work \in Works /\ work # Idle /\ work.phase = "check"
      BY <2>1, <2>13 DEF StatusOk, Idle
    <3>2. /\ s.account = form.account /\ s.transaction = work.result
          /\ s.statusOnTransaction = work.result /\ s.about.transaction = work.result
          /\ s.about.account = work.account
      BY <2>1 DEF onStatus, Forms
    <3>3. Render(s, Idle, FALSE)
      BY <2>13 DEF StatusOk
    <3> HIDE DEF s
    <3>4. WorkFits(s, Idle)
      BY DEF WorkFits
    <3>5. form' = s /\ (~setting.late => ~dirty') /\ (~dirty' => WorkFits(s, work'))
      BY <2>3, <3>3, <3>4, RenderFits
    <3>6. ~dirty => /\ work.account = form.account
                    /\ work.result.account = form.transaction.account
                    /\ work.result.edit = form.transaction.edit
                    /\ form.transaction # NoTx
      <4>1. work.transaction # NoTx
        BY <3>1, NoTxIsNone DEF Works
      <4> QED
        BY <3>1, <4>1 DEF FormInv, WorkFits
    <3>7. ~setting.late => FormFits(s)
      BY <3>2, <3>6 DEF FormFits, FormInv, InTime
    <3>8. overtaken' = (overtaken \/ dirty) /\ wanted' = wanted /\ leaked' = leaked
      BY <2>13 DEF StatusOk
    <3>9. ~overtaken' => wanted' = Asked(s)
      BY <3>2, <3>6, <3>8 DEF FormInv, Asked
    <3>10. ~setting.late => InTime'
      BY <3>5, <3>7, <3>8 DEF FormInv, InTime
    <3> QED
      BY <2>2, <3>2, <3>5, <3>9, <3>10 DEF FormInv, Asked
  <2>14. CASE Fails
    <3> DEFINE s == onStatusError(form)
               now == [work EXCEPT !.phase = "retry"]
    <3>1. work \in Works /\ work # Idle
      BY <2>1, <2>14 DEF Fails, Idle
    <3>2. /\ s.account = form.account /\ s.transaction = form.transaction
          /\ s.statusOnTransaction = form.statusOnTransaction
          /\ s.about = form.about
      BY <2>1 DEF onStatusError, Forms
    <3>3. /\ now.account = work.account /\ now.transaction = work.transaction
          /\ now.phase = "retry"
      BY <3>1 DEF Works
    <3>4. Render(s, now, FALSE)
      BY <2>14 DEF Fails
    <3> HIDE DEF s, now
    <3>5. ~dirty => WorkFits(s, now)
      BY <3>1, <3>2, <3>3 DEF FormInv, WorkFits
    <3>6. form' = s /\ (~setting.late => ~dirty') /\ (~dirty' => WorkFits(s, work'))
      BY <2>3, <3>4, <3>5, RenderFits
    <3>7. ~overtaken' => wanted' = Asked(s)
      BY <2>14, <3>2 DEF Fails, FormInv, Asked
    <3>8. ~setting.late => InTime'
      BY <2>14, <3>2, <3>6 DEF Fails, FormInv, InTime, FormFits
    <3> QED
      BY <2>2, <3>2, <3>6, <3>7, <3>8 DEF FormInv, Asked
  <2>15. CASE RetryTimer \/ LeakedRetry
    <3>1. PICK old \in Transactions, now \in {Idle, work} :
            /\ Render(setTransaction(form, New(form, old)), now, pending)
            /\ ~overtaken' => old = form.transaction /\ ~overtaken
            /\ ~dirty => WorkFits(setTransaction(form, New(form, old)), now) \/ now = work
            /\ ~setting.late => ~overtaken' /\ leaked' = {}
            /\ wanted' = wanted
      <4>1. CASE RetryTimer
        <5>1. work \in Works /\ work # Idle
          BY <2>1, <4>1 DEF RetryTimer, Idle
        <5>2. work.transaction \in Transactions
          BY <5>1 DEF Works
        <5>3. WorkFits(setTransaction(form, New(form, work.transaction)), Idle)
          BY DEF WorkFits
        <5>4. ~dirty => work.transaction = form.transaction
          BY <5>1 DEF FormInv, WorkFits
        <5>5. ~setting.late => ~dirty /\ ~overtaken /\ leaked = {}
          BY DEF FormInv, InTime
        <5> QED
          BY <4>1, <5>2, <5>3, <5>4, <5>5 DEF RetryTimer
      <4>2. CASE LeakedRetry
        <5>1. PICK old \in leaked :
                /\ Render(setTransaction(form, New(form, old)), work, pending)
                /\ overtaken' = TRUE /\ wanted' = wanted
          BY <4>2 DEF LeakedRetry
        <5>2. setting.late
          BY <5>1 DEF FormInv, InTime
        <5> QED
          BY <2>1, <5>1, <5>2
      <4> QED
        BY <2>15, <4>1, <4>2
    <3> DEFINE s == setTransaction(form, New(form, old))
    <3>2. /\ New(form, old) \in Transactions /\ New(form, old).edit = old.edit
          /\ New(form, old).account = old.account
      BY <2>1, NewIsCopy
    <3>3. /\ s.account = form.account /\ s.transaction = New(form, old)
          /\ s.statusOnTransaction = form.statusOnTransaction
          /\ s.about = form.about
      BY <2>1 DEF setTransaction, Forms
    <3>4. Render(s, now, pending)
      BY <3>1
    <3>5. ~dirty /\ Deps(s) = Deps(form) => WorkFits(s, now)
      <4>1. ~dirty /\ Deps(s) = Deps(form) => WorkFits(s, work)
        BY <3>3 DEF FormInv, WorkFits, Deps
      <4> QED
        BY <3>1, <4>1
    <3> HIDE DEF s
    <3>6. form' = s /\ (~setting.late => ~dirty') /\ (~dirty' => WorkFits(s, work'))
      BY <2>3, <3>4, <3>5, RenderFits
    <3>7. ~overtaken' => wanted' = Asked(s)
      BY <3>1, <3>2, <3>3 DEF FormInv, Asked
    <3>8. ~setting.late => FormFits(s)
      <4> SUFFICES ASSUME ~setting.late PROVE FormFits(s)
        OBVIOUS
      <4>1. form.transaction # NoTx /\ old = form.transaction
        BY <3>1, NoTxIsNone
      <4> QED
        BY <3>2, <3>3, <4>1 DEF FormInv, InTime, FormFits
    <3>9. ~setting.late => InTime'
      BY <3>1, <3>6, <3>8 DEF InTime
    <3> QED
      BY <2>2, <3>3, <3>6, <3>7, <3>9 DEF FormInv, Asked
  <2>16. CASE UNCHANGED formVars
    BY <2>10, <2>16 DEF formVars
  <2> QED
    BY <2>5, <2>7, <2>8, <2>9, <2>11, <2>12, <2>13, <2>14, <2>15, <2>16
    DEF FormNext, User
<1> QED
  BY <1>1, <1>2, FormTypeCorrect, PTL DEF FormSpec

\* For any accounts and edits: the status of a form that is not pending was
\* computed from its transaction and for its account.
THEOREM StatusIsOfForm == FormSpec => []StatusFits
<1>1. FormInv /\ FormTypeOK => StatusFits
  BY DEF FormInv, InTime, FormFits, StatusFits, Settled, bridgePending
<1> QED
  BY <1>1, FormInvHolds, FormTypeCorrect, PTL

\* For any accounts and edits, and however late the effects are: what the user typed
\* stays in the form, unless an answer or a retry came between a render and its
\* effect, or a retry that nothing can cancel.
THEOREM EditsAreKept == FormSpec => []NothingLost
<1>1. FormInv => NothingLost
  BY DEF FormInv, InTime, NothingLost
<1> QED
  BY <1>1, FormInvHolds, PTL

=============================================================================
