-------------------------- MODULE ConnectionProofs --------------------------
(***************************************************************************)
(* What is said to a device, by an app of the user and by a server.        *)
(***************************************************************************)
EXTENDS AppConnection, DeviceSocket, TLAPS

(***************************************************************************)
(* AppConnection.  The polling of hw/actions/app.ts goes on while somebody *)
(* is subscribed, and one command runs at a time: for any devices, delays, *)
(* answers and acts of the user.  What is told, and when, does not matter: *)
(* an event never ends the subscription, only what is shown after a        *)
(* debounce does.  On one device, an app that is told to be opened has its *)
(* dependencies.                                                           *)
(***************************************************************************)

HookFields ==
  {"sub", "device", "last", "scan", "shown", "debounce", "timers", "selected", "deps"}

TimerFields == {"init", "loop", "disconnect", "leaked"}

\* The fields of h, whatever is in them; delays are counted down to Off.
HookOK(h) ==
  /\ DOMAIN h = HookFields
  /\ DOMAIN h.timers = TimerFields
  /\ h.sub \in BOOLEAN
  /\ h.timers.loop \in Nat \cup {Off}

JobOK(j) ==
  /\ DOMAIN j = {"phase", "device", "deps", "unresponsive", "timeout"}
  /\ j.phase = "none" => j = NoJob

\* Between a command and the next one nothing is left of the former.
Inv == HookOK(hook) /\ JobOK(job) /\ OnePoll

-----------------------------------------------------------------------------
\* What the operations of the hook leave alone.

Same(h, g) == HookOK(g) /\ g.sub = h.sub /\ g.timers.loop = h.timers.loop

LEMMA UnsubscribeEnds ==
  ASSUME NEW h, HookOK(h)
  PROVE  LET g == Unsubscribe(h)
         IN  HookOK(g) /\ ~g.sub /\ g.timers = NoTimers /\ g.debounce = Off
  BY DEF Unsubscribe, HookOK, HookFields, TimerFields, NoTimers, Off

LEMMA ShowKeeps ==
  ASSUME NEW h, HookOK(h)
  PROVE  /\ HookOK(Show(h))
         /\ Show(h).sub => Same(h, Show(h))
         /\ ~Show(h).sub /\ h.sub => Show(h).timers = NoTimers /\ Show(h).debounce = Off
         /\ h.scan.view \notin Final => Same(h, Show(h))
<1> DEFINE k == [h EXCEPT !.shown = h.scan, !.debounce = Off]
<1>1. Same(h, k)
  BY DEF Same, HookOK, HookFields, TimerFields
<1>2. Show(h) = IF h.scan.view \in Final THEN Unsubscribe(k) ELSE k
  BY DEF Show
<1> HIDE DEF k
<1>3. HookOK(Unsubscribe(k)) /\ ~Unsubscribe(k).sub
  BY <1>1, UnsubscribeEnds DEF Same
<1>4. Unsubscribe(k).timers = NoTimers /\ Unsubscribe(k).debounce = Off
  BY <1>1, UnsubscribeEnds DEF Same
<1> QED
  BY <1>1, <1>2, <1>3, <1>4 DEF Same

LEMMA TellKeeps ==
  ASSUME NEW h, NEW e, HookOK(h)
  PROVE  Same(h, Tell(h, e)) /\ Tell(h, e).timers = h.timers
<1> DEFINE h1 == [h EXCEPT !.last = e, !.scan = reducer(h.scan, e)]
<1>1. Same(h, h1) /\ HookOK(h1) /\ h1.timers = h.timers
  BY DEF Same, HookOK, HookFields, TimerFields
<1>2. CASE ~h.sub \/ e = h.last
  BY <1>2 DEF Tell, Same
<1>3. CASE ~(~h.sub \/ e = h.last) /\ h1.scan.view \in {"device-permission-granted", "stream-install"}
  <2>1. Tell(h, e) = Show(h1)
    BY <1>3 DEF Tell
  <2>2. h1.scan.view \notin Final
    BY <1>3 DEF Final, Opened
  <2> HIDE DEF h1
  <2>3. Same(h1, Show(h1)) /\ Show(h1).timers = h1.timers
    BY <1>1, <2>2, ShowKeeps DEF Show, HookOK, HookFields, TimerFields
  <2> QED
    BY <1>1, <2>1, <2>3 DEF Same
<1>4. CASE ~(~h.sub \/ e = h.last) /\ h1.scan.view \notin {"device-permission-granted", "stream-install"}
  <2>1. Tell(h, e) = [h1 EXCEPT !.debounce = UI_DEBOUNCE]
    BY <1>4 DEF Tell
  <2> HIDE DEF h1
  <2> QED
    BY <1>1, <2>1 DEF Same, HookOK, HookFields, TimerFields
<1> QED
  BY <1>2, <1>3, <1>4

LEMMA OnEventKeeps ==
  ASSUME NEW h, NEW e, HookOK(h)
  PROVE  Same(h, OnEvent(h, e))
<1> DEFINE u == UnscheduleDisconnect(h)
           g == [u EXCEPT !.timers.init = Off]
           k == [g EXCEPT !.device = g.selected]
<1>1. Same(h, u)
  BY DEF UnscheduleDisconnect, Same, HookOK, HookFields, TimerFields
<1>2. Same(h, g)
  <2> HIDE DEF u
  <2> QED
    BY <1>1 DEF Same, HookOK, HookFields, TimerFields
<1>3. OnEvent(h, e) =
        IF e.type = "unresponsiveDevice" THEN g
        ELSE IF e.type = "disconnected" THEN [g EXCEPT !.timers.disconnect = DISCONNECT_DEBOUNCE]
        ELSE Tell(IF g.device = g.selected THEN g ELSE Tell(k, DeviceChange(g.selected)), e)
  BY DEF OnEvent
<1> HIDE DEF g, u
<1>4. Same(h, [g EXCEPT !.timers.disconnect = DISCONNECT_DEBOUNCE])
  BY <1>2 DEF Same, HookOK, HookFields, TimerFields
<1>5. Same(h, k)
  BY <1>2 DEF Same, HookOK, HookFields, TimerFields
<1> HIDE DEF k
<1>6. Same(h, Tell(g, e))
  BY <1>2, TellKeeps DEF Same
<1>7. Same(h, Tell(k, DeviceChange(g.selected)))
  BY <1>5, TellKeeps DEF Same
<1>8. Same(h, Tell(Tell(k, DeviceChange(g.selected)), e))
  BY <1>7, TellKeeps DEF Same
<1> QED
  BY <1>2, <1>3, <1>4, <1>6, <1>8

LEMMA TellDisconnectKeeps ==
  ASSUME NEW h, HookOK(h)
  PROVE  Same(h, TellDisconnect(h))
<1> DEFINE g == [h EXCEPT !.device = NoDevice]
<1>1. Same(h, g)
  BY DEF Same, HookOK, HookFields, TimerFields
<1> HIDE DEF g
<1>2. Same(g, Tell(g, Event("disconnected")))
  BY <1>1, TellKeeps DEF Same
<1>3. TellDisconnect(h) = Tell(g, Event("disconnected"))
  BY DEF TellDisconnect, g
<1> QED
  BY <1>1, <1>2, <1>3 DEF Same

LEMMA SubscribeStarts ==
  ASSUME NEW h, HookOK(h)
  PROVE  HookOK(Subscribe(h)) /\ Subscribe(h).sub /\ Subscribe(h).timers.loop = 0
  BY DEF HookOK, HookFields, TimerFields, Subscribe, NoTimers, Off

-----------------------------------------------------------------------------
\* The steps.

\* A command runs only for a subscriber.
LEMMA RunsSubscribed ==
  ASSUME Inv, job.phase # "none"
  PROVE  hook.sub /\ hook.timers.loop = Off
  BY DEF Inv, HookOK, HookFields, TimerFields, OnePoll, NoJob

LEMMA EmitInv ==
  ASSUME Inv, job.phase # "none", NEW e, NEW next, JobOK(next), next.phase # "none", Emit(e, next)
  PROVE  Inv'
<1>1. hook.sub /\ hook.timers.loop = Off /\ HookOK(hook)
  BY RunsSubscribed DEF Inv
<1>2. Same(hook, OnEvent(hook, e)) /\ hook' = OnEvent(hook, e)
  BY <1>1, OnEventKeeps DEF Emit
<1>3. job' = [next EXCEPT !.timeout = DEVICE_POLLING_TIMEOUT]
  BY <1>1, <1>2 DEF Emit, Same
<1>4. HookOK(hook)' /\ hook'.sub /\ hook'.timers.loop = Off
  BY <1>1, <1>2 DEF Same, HookOK, HookFields, TimerFields
<1>5. JobOK(job)' /\ job'.phase # "none"
  BY <1>3 DEF JobOK
<1> QED
  BY <1>4, <1>5 DEF Inv, OnePoll

LEMMA EmitLastInv ==
  ASSUME Inv, job.phase # "none", NEW e, EmitLast(e)
  PROVE  Inv'
<1>1. hook.sub /\ HookOK(hook)
  BY RunsSubscribed DEF Inv
<1> DEFINE h == OnEvent(hook, e)
<1>2. Same(hook, h)
  BY <1>1, OnEventKeeps
<1>3. hook' = IF h.sub THEN [h EXCEPT !.timers.loop = POLLING] ELSE h
  BY DEF EmitLast
<1> HIDE DEF h
<1>4. HookOK(hook)' /\ hook'.sub /\ hook'.timers.loop = POLLING
  BY <1>1, <1>2, <1>3, AppAssumption DEF Same, HookOK, HookFields, TimerFields
<1>5. job' = NoJob
  BY DEF EmitLast
<1>6. POLLING # Off
  BY AppAssumption DEF Off
<1> QED
  BY <1>4, <1>5, <1>6 DEF Inv, OnePoll, JobOK, NoJob

\* A step that only moves the command on.
LEMMA JobInv ==
  ASSUME Inv, job.phase # "none", JobOK(job)', job'.phase # "none", Same(hook, hook')
  PROVE  Inv'
<1>1. hook.sub /\ hook.timers.loop = Off
  BY RunsSubscribed
<1>2. HookOK(hook)' /\ hook'.sub /\ hook'.timers.loop = Off
  BY <1>1 DEF Same, HookOK, HookFields, TimerFields
<1> QED
  BY <1>2 DEF Inv, OnePoll

LEMMA AskOpenInv ==
  ASSUME Inv, job.phase # "none", AskOpen
  PROVE  Inv'
<1> DEFINE next == [job EXCEPT !.phase = "user", !.deps = FALSE, !.unresponsive = Off]
<1>1. JobOK(next) /\ next.phase # "none"
  BY DEF Inv, JobOK
<1>2. Emit(Event("ask-open-app"), next)
  BY DEF AskOpen
<1> HIDE DEF next
<1> QED
  BY <1>1, <1>2, EmitInv

LEMMA ListAppsInv ==
  ASSUME Inv, job.phase # "none", ListApps
  PROVE  Inv'
<1> DEFINE next == [job EXCEPT !.phase = "list", !.unresponsive = Off]
<1>1. JobOK(next) /\ next.phase # "none"
  BY DEF Inv, JobOK
<1>2. Emit(Event("listing-apps"), next)
  BY DEF ListApps
<1> HIDE DEF next
<1> QED
  BY <1>1, <1>2, EmitInv

\* A command that goes on in another phase.
LEMMA PhaseInv ==
  ASSUME Inv, job.phase # "none", NEW e, NEW phase, phase # "none",
         Emit(e, [job EXCEPT !.phase = phase])
  PROVE  Inv'
<1> DEFINE next == [job EXCEPT !.phase = phase]
<1>1. JobOK(next) /\ next.phase # "none"
  BY DEF Inv, JobOK
<1>2. Emit(e, next)
  OBVIOUS
<1> HIDE DEF next
<1> QED
  BY <1>1, <1>2, EmitInv

LEMMA InstalledInv ==
  ASSUME Inv, job.phase # "none", Installed
  PROVE  Inv'
<1>1. CASE job.deps
  <2> DEFINE k == [hook EXCEPT !.deps = IF Missing = {} THEN "resolved" ELSE "cut"]
  <2>1. Same(hook, k)
    BY DEF Inv, Same, HookOK, HookFields, TimerFields
  <2>2. hook' = OnEvent(k, Event("dependencies-resolved"))
    BY <1>1 DEF Installed
  <2> HIDE DEF k
  <2>3. Same(hook, hook')
    BY <2>1, <2>2, OnEventKeeps DEF Same
  <2>4. job' = [job EXCEPT !.phase = "version", !.deps = FALSE,
                           !.timeout = DEVICE_POLLING_TIMEOUT]
    BY <1>1 DEF Installed
  <2>5. JobOK(job)' /\ job'.phase # "none"
    BY <2>4 DEF Inv, JobOK
  <2> QED
    BY <2>3, <2>5, JobInv
<1>2. CASE ~job.deps
  BY <1>2, AskOpenInv DEF Installed
<1> QED
  BY <1>1, <1>2

-----------------------------------------------------------------------------

LEMMA CommandInv ==
  ASSUME Inv, Command
  PROVE  Inv'
<1>1. CASE OpenOk
  <2>1. job.phase # "none" /\ JobOK(job)' /\ job'.phase # "none"
    BY <1>1 DEF OpenOk, Answers, Inv, JobOK
  <2>2. Same(hook, hook')
    BY <1>1 DEF OpenOk, Inv, Same
  <2> QED
    BY <2>1, <2>2, JobInv
<1>2. CASE OpenFails
  BY <1>2, EmitLastInv DEF OpenFails
<1>3. CASE InDashboard
  BY <1>3, AskOpenInv, ListAppsInv DEF InDashboard, Answers
<1>4. CASE Quits
  BY <1>4, EmitLastInv DEF Quits, Quit, AskQuit, Answers
<1>5. CASE RightApp
  <2>1. CASE setting.derives
    <3>1. job.phase # "none" /\ JobOK(job)' /\ job'.phase # "none"
      BY <1>5, <2>1 DEF RightApp, Answers, Inv, JobOK
    <3>2. Same(hook, hook')
      BY <1>5, <2>1 DEF RightApp, Inv, Same
    <3> QED
      BY <3>1, <3>2, JobInv
  <2>2. CASE ~setting.derives
    BY <1>5, <2>2, EmitLastInv DEF RightApp, Answers
  <2> QED
    BY <2>1, <2>2
<1>13. CASE Fallback
  <2>1. CASE setting.derives
    <3>1. job.phase # "none" /\ JobOK(job)' /\ job'.phase # "none"
      BY <1>13, <2>1 DEF Fallback, Inv, JobOK
    <3>2. Same(hook, hook')
      BY <1>13, <2>1 DEF Fallback, Inv, Same
    <3> QED
      BY <3>1, <3>2, JobInv
  <2>2. CASE ~setting.derives
    BY <1>13, <2>2, EmitLastInv DEF Fallback
  <2> QED
    BY <2>1, <2>2
<1>6. CASE Derived
  <2>1. PICK e : EmitLast(e)
    BY <1>6 DEF Derived, Quit, AskQuit
  <2> QED
    BY <1>6, <2>1, EmitLastInv DEF Derived
<1>7. CASE AllowManager
  BY <1>7, PhaseInv DEF AllowManager, Answers
<1>8. CASE ManagerAllowed
  BY <1>8, PhaseInv, EmitLastInv DEF ManagerAllowed, Answers
<1>9. CASE Listed
  BY <1>9, InstalledInv, PhaseInv, EmitLastInv DEF Listed
<1>14. CASE Install
  <2>1. job.phase # "none" /\ JobOK(job) /\ Emit(Event("stream-install"), job)
    BY <1>14 DEF Install, Answers, Inv
  <2> QED
    BY <2>1, EmitInv
<1>10. CASE InstallEnds
  BY <1>10, InstalledInv DEF InstallEnds
<1>11. CASE UserAnswers
  BY <1>11, EmitLastInv, ListAppsInv DEF UserAnswers, Answers
<1>12. CASE Disconnected
  BY <1>12, EmitLastInv DEF Disconnected
<1> QED
  BY <1>1, <1>2, <1>3, <1>4, <1>5, <1>6, <1>7, <1>8, <1>9, <1>10, <1>11, <1>12, <1>13, <1>14 DEF Command

\* A timer that fires has somebody to tell: nothing is left of a subscription that ended.
LEMMA TimersSubscribed ==
  ASSUME Inv, hook.timers # NoTimers \/ hook.debounce # Off
  PROVE  hook.sub
  BY DEF Inv, OnePoll, HookOK, HookFields, TimerFields

\* A step of a subscribed hook that neither starts nor ends a command.
LEMMA HookInv ==
  ASSUME Inv, hook.sub, Same(hook, hook'), UNCHANGED job
  PROVE  Inv'
<1>1. HookOK(hook)' /\ hook'.sub /\ hook'.timers.loop = hook.timers.loop
  BY DEF Same
<1>2. JobOK(job)' /\ job'.phase = job.phase
  BY DEF Inv, JobOK
<1>3. (job.phase = "none") # (hook.timers.loop = Off)
  BY DEF Inv, OnePoll
<1> QED
  BY <1>1, <1>2, <1>3 DEF Inv, OnePoll

LEMMA FiresInv ==
  ASSUME Inv, Fires
  PROVE  Inv'
<1>1. CASE Loop
  <2>1. hook.sub /\ job.phase = "none" /\ HookOK(hook)
    <3>1. hook.timers.loop = 0 /\ hook.timers # NoTimers
      BY <1>1 DEF Loop, NoTimers, Off
    <3> QED
      BY <3>1, TimersSubscribed DEF Inv, OnePoll, Off
  <2>2. CASE hook.selected = NoDevice
    <3>1. hook' = [hook EXCEPT !.timers.loop = POLLING] /\ job' = job
      BY <1>1, <2>2 DEF Loop
    <3>2. HookOK(hook)' /\ hook'.sub /\ hook'.timers.loop # Off
      <4>1. POLLING \in Nat
        BY AppAssumption
      <4>2. DOMAIN hook' = HookFields /\ hook'.sub
        BY <2>1, <3>1 DEF HookOK, HookFields
      <4>3. DOMAIN hook'.timers = TimerFields /\ hook'.timers.loop = POLLING
        BY <2>1, <3>1 DEF HookOK, HookFields, TimerFields
      <4> QED
        BY <4>1, <4>2, <4>3 DEF HookOK, Off
    <3>3. JobOK(job)' /\ job'.phase = "none"
      BY <2>1, <3>1 DEF Inv, JobOK
    <3> QED
      BY <3>2, <3>3 DEF Inv, OnePoll
  <2>3. CASE hook.selected # NoDevice
    <3>1. /\ hook' = [hook EXCEPT !.timers.loop = Off]
          /\ job' = [NoJob EXCEPT !.phase = "open", !.device = hook.selected,
                                  !.deps = hook.deps = "no", !.timeout = DEVICE_POLLING_TIMEOUT]
      BY <1>1, <2>3 DEF Loop
    <3>2. HookOK(hook)' /\ hook'.sub /\ hook'.timers.loop = Off
      BY <2>1, <3>1 DEF HookOK, HookFields, TimerFields, Off
    <3>3. JobOK(job)' /\ job'.phase # "none"
      BY <3>1 DEF JobOK, NoJob
    <3> QED
      BY <3>2, <3>3 DEF Inv, OnePoll
  <2> QED
    BY <2>2, <2>3
<1>2. CASE Unresponsive
  <2> DEFINE next == [job EXCEPT !.unresponsive = Off]
  <2>1. job.phase # "none"
    BY <1>2 DEF Unresponsive, Inv, JobOK, NoJob, Off
  <2>2. JobOK(next) /\ next.phase # "none"
    BY <2>1 DEF Inv, JobOK
  <2>3. Emit(Event("unresponsiveDevice"), next)
    BY <1>2 DEF Unresponsive
  <2> HIDE DEF next
  <2> QED
    BY <2>1, <2>2, <2>3, EmitInv
<1>3. CASE TimesOut
  <2>1. job.phase # "none"
    BY <1>3 DEF TimesOut, Inv, JobOK, NoJob, Off
  <2> QED
    BY <1>3, <2>1, EmitLastInv DEF TimesOut
<1>4. CASE InitFires
  <2> DEFINE g == [hook EXCEPT !.timers.init = Off]
             t == Tell(g, DeviceChange(NoDevice))
  <2>1. hook.sub
    BY <1>4, TimersSubscribed DEF InitFires, NoTimers, Off
  <2>2. Same(hook, g)
    BY DEF Inv, Same, HookOK, HookFields, TimerFields
  <2>3. hook' = [t EXCEPT !.device = NoDevice] /\ UNCHANGED job
    BY <1>4 DEF InitFires
  <2> HIDE DEF g
  <2>4. Same(hook, t)
    BY <2>2, TellKeeps DEF Same
  <2> HIDE DEF t
  <2>5. Same(hook, hook')
    BY <2>3, <2>4 DEF Same, HookOK, HookFields, TimerFields
  <2> QED
    BY <2>1, <2>3, <2>5, HookInv
<1>5. CASE DisconnectFires
  <2> DEFINE g == [hook EXCEPT !.timers.disconnect = Off]
  <2>1. hook.sub
    BY <1>5, TimersSubscribed DEF DisconnectFires, NoTimers, Off
  <2>2. Same(hook, g)
    BY DEF Inv, Same, HookOK, HookFields, TimerFields
  <2>3. hook' = TellDisconnect(g) /\ UNCHANGED job
    BY <1>5 DEF DisconnectFires
  <2> HIDE DEF g
  <2>4. Same(hook, hook')
    BY <2>2, <2>3, TellDisconnectKeeps DEF Same
  <2> QED
    BY <2>1, <2>3, <2>4, HookInv
<1>6. CASE LeakedDisconnectFires
  <2> DEFINE g == [hook EXCEPT !.timers.leaked = @ \ {0}]
             u == UnscheduleDisconnect(g)
  <2>1. hook.sub
    BY <1>6, TimersSubscribed DEF LeakedDisconnectFires, NoTimers
  <2>2. Same(hook, g)
    BY DEF Inv, Same, HookOK, HookFields, TimerFields
  <2>3. hook' = TellDisconnect(u) /\ UNCHANGED job
    BY <1>6 DEF LeakedDisconnectFires
  <2> HIDE DEF g
  <2>4. Same(hook, u)
    BY <2>2 DEF UnscheduleDisconnect, Same, HookOK, HookFields, TimerFields
  <2> HIDE DEF u
  <2>5. Same(hook, hook')
    BY <2>3, <2>4, TellDisconnectKeeps DEF Same
  <2> QED
    BY <2>1, <2>3, <2>5, HookInv
<1>7. CASE DebounceEnds
  <2>1. hook.sub
    BY <1>7, TimersSubscribed DEF DebounceEnds, Off
  <2>2. hook' = Show(hook) /\ job' = IF hook'.sub THEN job ELSE NoJob
    BY <1>7 DEF DebounceEnds
  <2>3. CASE hook'.sub
    BY <2>1, <2>2, <2>3, ShowKeeps, HookInv DEF Inv
  <2>4. CASE ~hook'.sub
    <3>1. HookOK(hook)' /\ hook'.timers = NoTimers /\ hook'.debounce = Off
      BY <2>1, <2>2, <2>4, ShowKeeps DEF Inv
    <3>2. job' = NoJob
      BY <2>2, <2>4
    <3> QED
      BY <2>4, <3>1, <3>2 DEF Inv, OnePoll, JobOK, NoJob
  <2> QED
    BY <2>3, <2>4
<1> QED
  BY <1>1, <1>2, <1>3, <1>4, <1>5, <1>6, <1>7 DEF Fires

LEMMA TickInv ==
  ASSUME Inv, Tick
  PROVE  Inv'
<1>1. hook.sub
  <2> SUFFICES ASSUME ~hook.sub PROVE FALSE
    OBVIOUS
  <2>1. hook.timers = NoTimers /\ hook.debounce = Off /\ job = NoJob
    BY DEF Inv, OnePoll
  <2>2. Timers = {Off}
    BY <2>1 DEF Timers, NoTimers, NoJob
  <2> QED
    BY <2>2 DEF Tick
<1>2. /\ hook' = [hook EXCEPT
           !.timers = [init |-> Down(@.init), loop |-> Down(@.loop),
                       disconnect |-> Down(@.disconnect),
                       leaked |-> {t - 1 : t \in @.leaked}],
           !.debounce = Down(@)]
      /\ job' = [job EXCEPT !.unresponsive = Down(@), !.timeout = Down(@)]
      /\ hook.timers.loop # 0
  BY DEF Tick, Timers
<1>3. hook'.sub /\ hook'.timers.loop = Down(hook.timers.loop)
  BY <1>1, <1>2 DEF Inv, HookOK, HookFields, TimerFields
<1>4. /\ Down(hook.timers.loop) \in Nat \cup {Off}
      /\ Down(hook.timers.loop) = Off <=> hook.timers.loop = Off
  BY <1>2 DEF Inv, HookOK, HookFields, TimerFields, Down, Off
<1>5. HookOK(hook)'
  BY <1>2, <1>3, <1>4 DEF Inv, HookOK, HookFields, TimerFields
<1>6. JobOK(job)' /\ job'.phase = job.phase
  <2>1. CASE job.phase = "none"
    <3>1. job = NoJob
      BY <2>1 DEF Inv, JobOK
    <3>2. job' = [NoJob EXCEPT !.unresponsive = Off, !.timeout = Off]
      BY <1>2, <3>1 DEF NoJob, Down
    <3>3. job' = NoJob
      BY <3>2 DEF NoJob
    <3> QED
      BY <3>1, <3>3 DEF JobOK, NoJob
  <2>2. CASE job.phase # "none"
    <3>1. DOMAIN job' = DOMAIN job /\ job'.phase = job.phase
      BY <1>2 DEF Inv, JobOK
    <3> QED
      BY <2>2, <3>1 DEF Inv, JobOK
  <2> QED
    BY <2>1, <2>2
<1>7. (job.phase = "none") # (hook.timers.loop = Off)
  BY <1>1 DEF Inv, OnePoll
<1> QED
  BY <1>3, <1>4, <1>5, <1>6, <1>7 DEF Inv, OnePoll

LEMMA SelectInv ==
  ASSUME Inv, NEW d, hook' = [hook EXCEPT !.selected = d], UNCHANGED job
  PROVE  Inv'
<1>1. /\ HookOK(hook)' /\ hook'.sub = hook.sub /\ hook'.timers = hook.timers
      /\ hook'.debounce = hook.debounce
  BY DEF Inv, HookOK, HookFields, TimerFields
<1> QED
  BY <1>1 DEF Inv, OnePoll, JobOK

LEMMA UserInv ==
  ASSUME Inv, User
  PROVE  Inv'
<1>1. CASE UNCHANGED <<hook, job>>
  BY <1>1 DEF Inv, HookOK, HookFields, TimerFields, JobOK, OnePoll
<1>2. CASE Select
  <2>1. PICK d : hook' = [hook EXCEPT !.selected = d]
    BY <1>2 DEF Select
  <2> QED
    BY <1>2, <2>1, SelectInv DEF Select
<1>3. CASE onRetry
  <2> DEFINE k == [hook EXCEPT !.deps = "no", !.shown = getInitialState(hook.selected)]
  <2>1. HookOK(k)
    BY DEF Inv, HookOK, HookFields, TimerFields
  <2>2. hook' = Subscribe(k) /\ job' = job
    BY <1>3 DEF onRetry
  <2> HIDE DEF k
  <2>3. HookOK(hook)' /\ hook'.sub /\ hook'.timers.loop = 0
    BY <2>1, <2>2, SubscribeStarts
  <2>4. job' = NoJob
    BY <1>3, <2>2 DEF onRetry, Inv, OnePoll
  <2> QED
    BY <2>3, <2>4 DEF Inv, OnePoll, JobOK, NoJob, Off
<1> QED
  BY <1>1, <1>2, <1>3 DEF User, Plug, OpenOrQuit

LEMMA InitInv == Init => Inv
<1> SUFFICES ASSUME Init PROVE Inv
  OBVIOUS
<1>1. PICK d : hook = Subscribe([sub |-> TRUE, device |-> NoDevice, last |-> Event("none"),
                                 scan |-> getInitialState(NoDevice),
                                 shown |-> getInitialState(d), debounce |-> Off,
                                 timers |-> NoTimers, selected |-> d, deps |-> "no"])
  BY DEF Init
<1>2. HookOK(hook) /\ hook.sub /\ hook.timers.loop = 0
  BY <1>1 DEF HookOK, HookFields, TimerFields, Subscribe, NoTimers, Off
<1>3. job = NoJob
  BY DEF Init
<1> QED
  BY <1>2, <1>3 DEF Inv, OnePoll, JobOK, NoJob, Off

LEMMA StepInv == Inv /\ [Next]_vars => Inv'
<1> SUFFICES ASSUME Inv, [Next]_vars PROVE Inv'
  OBVIOUS
<1>1. CASE UNCHANGED vars
  BY <1>1 DEF vars, Inv, HookOK, HookFields, TimerFields, JobOK, OnePoll
<1> QED
  BY <1>1, CommandInv, FiresInv, TickInv, UserInv DEF Next

LEMMA Invariance == Spec => []Inv
  BY InitInv, StepInv, PTL DEF Spec

\* While somebody waits for the app either one command runs or the next one is scheduled,
\* never both, and a subscription that ended leaves neither a command nor a timer behind:
\* for any devices and delays, whatever they answer and whatever the user does.
THEOREM PollingGoesOn == Spec => []OnePoll
  BY Invariance, PTL DEF Inv

-----------------------------------------------------------------------------
\* What the app needs.

\* The apps are there, or the hook took an installation that was cut for one that was not.
Ready(h, apps) == h.deps = "cut" \/ apps = Apps

\* The hook, when all is done on the device d that has these apps.  What is to be shown is of
\* the device that the command is of, and an app that is opened has all it needs.
HookOf(h, d, apps) ==
  /\ DOMAIN h.scan = {"device", "view"}
  /\ h.selected \in {d, NoDevice} /\ h.device \in {h.selected, NoDevice}
  /\ h.deps \in {"no", "resolved", "cut"} /\ (h.deps = "resolved" => apps = Apps)
  /\ h.shown.view = "opened" => h.shown.device = d /\ h.selected = d /\ Ready(h, apps)
  /\ h.scan.view = "opened" => h.scan.device = d /\ h.selected = d /\ Ready(h, apps)
  /\ h.device # NoDevice => h.scan.device = h.device \/ h.scan.view = "error"
  /\ h.last.type = "error" => h.scan.view = "error"
  /\ h.last.type = "deviceChange" => h.scan.device = h.last.device

\* Besides: a command that does not care for the dependencies runs when they are there, and
\* an error is shown before there is another command.
OneDevice(d) ==
  /\ installed \in [Devices -> SUBSET Apps]
  /\ HookOf(hook, d, installed[d])
  /\ job.phase # "none" => /\ job.device = d /\ hook.selected = d
                           /\ job.deps => job.phase # "derive"
                           /\ ~job.deps => Ready(hook, installed[d])
  /\ hook.sub /\ hook.scan.view = "error" =>
       job.phase = "none" /\ hook.debounce \in 0..hook.timers.loop

OpenInv ==
  \A d \in Devices : setting.devices = {d} => OneDevice(d)

-----------------------------------------------------------------------------
\* What is told.

LEMMA ReducerIs ==
  ASSUME NEW s, DOMAIN s = {"device", "view"}, NEW e
  PROVE  LET r == reducer(s, e)
         IN  /\ DOMAIN r = {"device", "view"}
             /\ e.type = "disconnected" => r.device = NoDevice /\ r.view = "nothing"
             /\ e.type = "deviceChange" => r.device = e.device /\ r.view \in {"nothing", "loading"}
             /\ e.type = "error" => r.view = "error"
             /\ e.type \notin {"disconnected", "deviceChange", "error"} =>
                  r.device = s.device /\ r.view \in {s.view, e.type}
<1>1. CASE e.type = "disconnected"
  BY <1>1 DEF reducer, getInitialState
<1>2. CASE e.type = "deviceChange"
  BY <1>2 DEF reducer, getInitialState
<1>3. CASE e.type = "error"
  BY <1>3 DEF reducer
<1>4. CASE e.type \in {"listing-apps", "dependencies-resolved"}
  BY <1>4 DEF reducer
<1>5. CASE e.type \notin {"disconnected", "deviceChange", "error", "listing-apps",
                          "dependencies-resolved"}
  <2>1. reducer(s, e) = [s EXCEPT !.view = e.type]
    BY <1>5 DEF reducer
  <2> QED
    BY <1>5, <2>1
<1> QED
  BY <1>1, <1>2, <1>3, <1>4, <1>5

LEMMA NoDeviceIs ==
  ASSUME NEW s, DOMAIN s = {"device", "view"}, NEW e,
         e.type = "disconnected" \/ (e.type = "deviceChange" /\ e.device = NoDevice)
  PROVE  LET r == reducer(s, e)
         IN  /\ DOMAIN r = {"device", "view"} /\ r.device = NoDevice
             /\ r.view \in {"nothing", "loading"}
  BY DEF reducer, getInitialState

\* An event that is told is shown later, or now if it is that the user allowed something.
LEMMA TellIs ==
  ASSUME NEW h, NEW e, HookOK(h)
  PROVE  LET g == Tell(h, e)
         IN  /\ g.device = h.device /\ g.selected = h.selected /\ g.deps = h.deps
             /\ ~h.sub \/ e = h.last => g = h
             /\ h.sub /\ e # h.last =>
                  /\ g.last = e /\ g.scan = reducer(h.scan, e)
                  /\ \/ g.shown = h.shown /\ g.debounce = UI_DEBOUNCE
                     \/ /\ g.shown = g.scan
                        /\ g.scan.view \in {"device-permission-granted", "stream-install"}
<1> DEFINE h1 == [h EXCEPT !.last = e, !.scan = reducer(h.scan, e)]
<1>1. /\ DOMAIN h1 = HookFields /\ h1.device = h.device /\ h1.selected = h.selected
      /\ h1.deps = h.deps /\ h1.last = e /\ h1.scan = reducer(h.scan, e) /\ h1.shown = h.shown
  BY DEF HookOK, HookFields
<1>2. Tell(h, e) = IF ~h.sub \/ e = h.last THEN h
                   ELSE IF h1.scan.view \in {"device-permission-granted", "stream-install"}
                        THEN Show(h1) ELSE [h1 EXCEPT !.debounce = UI_DEBOUNCE]
  BY DEF Tell
<1> HIDE DEF h1
<1>3. CASE h1.scan.view \in {"device-permission-granted", "stream-install"}
  <2>1. Show(h1) = [h1 EXCEPT !.shown = h1.scan, !.debounce = Off]
    BY <1>3 DEF Show, Final, Opened
  <2> QED
    BY <1>1, <1>2, <1>3, <2>1 DEF HookFields
<1>4. CASE h1.scan.view \notin {"device-permission-granted", "stream-install"}
  BY <1>1, <1>2, <1>4 DEF HookFields
<1> QED
  BY <1>3, <1>4

\* The environment: one device.
LEMMA DeviceIs ==
  ASSUME NEW d \in Devices
  PROVE  d # NoDevice
  BY AppAssumption

\* An event of the command is of the device that was selected.
LEMMA OnEventOne ==
  ASSUME NEW d \in Devices, NEW apps, NEW h, NEW t,
         HookOK(h), HookOf(h, d, apps), h.sub, h.selected = d, h.scan.view # "error",
         t # "deviceChange", t = "opened" => Ready(h, apps)
  PROVE  LET g == OnEvent(h, Event(t))
         IN  /\ HookOf(g, d, apps) /\ g.selected = d /\ g.deps = h.deps
             /\ g.scan.view = "error" => t = "error" /\ g.debounce = UI_DEBOUNCE
<1> DEFINE u == UnscheduleDisconnect(h)
           v == [u EXCEPT !.timers.init = Off]
           k == [v EXCEPT !.device = v.selected]
           m == IF v.device = v.selected THEN v ELSE Tell(k, DeviceChange(v.selected))
           e == Event(t)
<1>1. /\ HookOK(u) /\ u.sub /\ u.device = h.device /\ u.selected = h.selected /\ u.deps = h.deps
      /\ u.shown = h.shown /\ u.scan = h.scan /\ u.last = h.last
  BY DEF UnscheduleDisconnect, HookOK, HookFields, TimerFields
<1>2. /\ HookOK(v) /\ v.sub /\ v.device = h.device /\ v.selected = h.selected /\ v.deps = h.deps
      /\ v.shown = h.shown /\ v.scan = h.scan /\ v.last = h.last
  <2> HIDE DEF u
  <2> QED
    BY <1>1 DEF HookOK, HookFields, TimerFields
<1>3. OnEvent(h, e) = IF t = "unresponsiveDevice" THEN v
                      ELSE IF t = "disconnected"
                           THEN [v EXCEPT !.timers.disconnect = DISCONNECT_DEBOUNCE]
                           ELSE Tell(m, e)
  BY DEF OnEvent, Event
<1> HIDE DEF u, v
<1>4. HookOf(v, d, apps) /\ v.selected = d /\ v.deps = h.deps /\ v.scan.view # "error"
  BY <1>2 DEF HookOf, Ready
<1>5. CASE t = "unresponsiveDevice"
  BY <1>3, <1>4, <1>5
<1>6. CASE t = "disconnected"
  <2> DEFINE g == [v EXCEPT !.timers.disconnect = DISCONNECT_DEBOUNCE]
  <2>1. /\ g.device = v.device /\ g.selected = v.selected /\ g.deps = v.deps
        /\ g.shown = v.shown /\ g.scan = v.scan /\ g.last = v.last
    BY <1>2 DEF HookOK, HookFields
  <2>2. OnEvent(h, e) = g
    BY <1>3, <1>6
  <2> HIDE DEF g
  <2>3. HookOf(g, d, apps) /\ g.selected = d /\ g.deps = h.deps /\ g.scan.view # "error"
    BY <1>4, <2>1 DEF HookOf, Ready
  <2> QED
    BY <2>2, <2>3
<1>7. CASE t \notin {"unresponsiveDevice", "disconnected"}
  <2>1. /\ HookOK(m) /\ m.sub /\ HookOf(m, d, apps) /\ m.selected = d
        /\ m.deps = h.deps /\ m.scan.device = d /\ m.scan.view # "error"
    <3>1. CASE v.device = v.selected
      <4>1. m = v
        BY <3>1
      <4> HIDE DEF m
      <4> QED
        BY <1>2, <1>4, <3>1, <4>1, DeviceIs DEF HookOf, Ready
    <3>2. CASE v.device # v.selected
      <4> DEFINE change == DeviceChange(d)
      <4>1. /\ HookOK(k) /\ k.sub /\ k.device = d /\ k.selected = d /\ k.deps = v.deps
            /\ k.shown = v.shown /\ k.scan = v.scan /\ k.last = v.last
        BY <1>2, <1>4 DEF HookOK, HookFields, TimerFields
      <4>2. m = Tell(k, change)
        BY <1>4, <3>2
      <4>3. change.type = "deviceChange" /\ change.device = d
        BY DEF DeviceChange
      <4> HIDE DEF m, k, change
      <4>4. HookOK(m) /\ m.sub /\ m.device = d /\ m.selected = d /\ m.deps = v.deps
        BY <4>1, <4>2, TellKeeps, TellIs DEF Same
      <4>5. CASE change = k.last
        <5>1. m = k
          BY <4>1, <4>2, <4>5, TellIs
        <5>2. k.scan.device = d
          BY <1>4, <4>1, <4>3, <4>5 DEF HookOf, Ready
        <5> QED
          BY <1>4, <4>1, <5>1, <5>2 DEF HookOf, Ready
      <4>6. CASE change # k.last
        <5>1. /\ m.last = change /\ m.scan = reducer(k.scan, change)
              /\ m.shown = k.shown \/ m.shown = m.scan
          BY <4>1, <4>2, <4>6, TellIs
        <5>2. DOMAIN k.scan = {"device", "view"}
          BY <1>4, <4>1 DEF HookOf, Ready
        <5>3. /\ DOMAIN m.scan = {"device", "view"} /\ m.scan.device = d
              /\ m.scan.view \in {"nothing", "loading"}
          <6> DEFINE r == reducer(k.scan, change)
          <6>1. /\ DOMAIN r = {"device", "view"} /\ r.device = change.device
                /\ r.view \in {"nothing", "loading"}
            BY <4>3, <5>2, ReducerIs
          <6> HIDE DEF r
          <6>2. m.scan = r
            BY <5>1 DEF r
          <6> QED
            BY <4>3, <6>1, <6>2
        <5> QED
          BY <1>4, <4>1, <4>3, <4>4, <5>1, <5>3 DEF HookOf, Ready
      <4> QED
        BY <4>5, <4>6
    <3> QED
      BY <3>1, <3>2
  <2> DEFINE g == Tell(m, e)
  <2>2. OnEvent(h, e) = g
    BY <1>3, <1>7
  <2>3. e.type = t
    BY DEF Event
  <2> HIDE DEF m, e, g
  <2>4. CASE e = m.last
    <3>1. g = m
      BY <2>1, <2>4, TellIs DEF g
    <3> QED
      BY <2>1, <2>2, <3>1 DEF e
  <2>5. CASE e # m.last
    <3>1. /\ g.device = m.device /\ g.selected = m.selected /\ g.deps = m.deps
          /\ g.last = e /\ g.scan = reducer(m.scan, e)
          /\ \/ g.shown = m.shown /\ g.debounce = UI_DEBOUNCE
             \/ /\ g.shown = g.scan
                /\ g.scan.view \in {"device-permission-granted", "stream-install"}
      BY <2>1, <2>5, TellIs DEF g
    <3>2. DOMAIN m.scan = {"device", "view"}
      BY <2>1 DEF HookOf, Ready
    <3>3. /\ DOMAIN g.scan = {"device", "view"}
          /\ t = "error" => g.scan.view = "error"
          /\ t # "error" => g.scan.device = d /\ g.scan.view \in {m.scan.view, t}
      <4> DEFINE r == reducer(m.scan, e)
      <4>1. /\ DOMAIN r = {"device", "view"}
            /\ t = "error" => r.view = "error"
            /\ t # "error" => r.device = m.scan.device /\ r.view \in {m.scan.view, t}
        BY <1>7, <2>1, <2>3, <3>2, ReducerIs
      <4> HIDE DEF r
      <4>2. g.scan = r
        BY <3>1 DEF r
      <4> QED
        BY <2>1, <4>1, <4>2
    <3>4. g.scan.view = "error" => t = "error" /\ g.debounce = UI_DEBOUNCE
      BY <2>1, <3>1, <3>3
    <3>5. HookOf(g, d, apps)
      <4>1. g.shown.view = "opened" => g.shown.device = d /\ g.selected = d /\ Ready(g, apps)
        BY <2>1, <3>1 DEF HookOf, Ready
      <4>2. g.scan.view = "opened" => g.scan.device = d /\ g.selected = d /\ Ready(g, apps)
        BY <2>1, <3>1, <3>3 DEF HookOf, Ready
      <4>3. g.device # NoDevice => g.scan.device = g.device \/ g.scan.view = "error"
        BY <2>1, <3>1, <3>3 DEF HookOf, Ready
      <4> QED
        BY <2>1, <2>3, <3>1, <3>3, <4>1, <4>2, <4>3 DEF HookOf, Ready
    <3> QED
      BY <2>1, <2>2, <3>1, <3>4, <3>5 DEF e
  <2> QED
    BY <2>4, <2>5
<1> QED
  BY <1>5, <1>6, <1>7

\* That no device is there may be told at any time; k is the hook after it.
LEMMA TellNoDevice ==
  ASSUME NEW d, NEW apps, NEW h, NEW e, HookOK(h), HookOf(h, d, apps), h.sub,
         e.type = "disconnected" \/ (e.type = "deviceChange" /\ e.device = NoDevice),
         NEW k, k.device = NoDevice, k.selected = Tell(h, e).selected,
         k.deps = Tell(h, e).deps, k.last = Tell(h, e).last, k.scan = Tell(h, e).scan,
         k.shown = Tell(h, e).shown
  PROVE  /\ HookOf(k, d, apps)
         /\ k.scan.view = "error" =>
              h.scan.view = "error" /\ Tell(h, e).debounce = h.debounce
<1> DEFINE g == Tell(h, e)
<1>1. g.selected = h.selected /\ g.deps = h.deps
  BY TellIs
<1>2. CASE e = h.last
  <2>1. g = h
    BY <1>2, TellIs
  <2> QED
    BY <2>1 DEF HookOf, Ready
<1>3. CASE e # h.last
  <2>1. /\ g.last = e /\ g.scan = reducer(h.scan, e)
        /\ g.shown = h.shown \/ g.shown = g.scan
    BY <1>3, TellIs
  <2>2. DOMAIN h.scan = {"device", "view"}
    BY DEF HookOf, Ready
  <2>3. /\ DOMAIN g.scan = {"device", "view"} /\ g.scan.device = NoDevice
        /\ g.scan.view \in {"nothing", "loading"}
    <3> DEFINE r == reducer(h.scan, e)
    <3>1. /\ DOMAIN r = {"device", "view"} /\ r.device = NoDevice
          /\ r.view \in {"nothing", "loading"}
      BY <2>2, NoDeviceIs
    <3> HIDE DEF r, g
    <3>2. g.scan = r
      BY <2>1 DEF r
    <3> QED
      BY <3>1, <3>2
  <2>4. /\ k.selected = g.selected /\ k.deps = g.deps /\ k.last = g.last /\ k.scan = g.scan
        /\ k.shown = g.shown
    OBVIOUS
  <2> HIDE DEF g
  <2>5. HookOf(k, d, apps)
    BY <1>1, <2>1, <2>3, <2>4 DEF HookOf, Ready
  <2> QED
    BY <2>3, <2>4, <2>5
<1> QED
  BY <1>2, <1>3

LEMMA ShowOne ==
  ASSUME NEW d, NEW apps, NEW h, HookOK(h), HookOf(h, d, apps)
  PROVE  /\ HookOf(Show(h), d, apps) /\ Show(h).selected = h.selected
         /\ Show(h).deps = h.deps
         /\ Show(h).sub => Show(h).scan.view # "error"
<1> DEFINE k == [h EXCEPT !.shown = h.scan, !.debounce = Off]
<1>1. /\ DOMAIN k = HookFields /\ k.device = h.device /\ k.selected = h.selected
      /\ k.deps = h.deps /\ k.last = h.last /\ k.scan = h.scan /\ k.shown = h.scan
  BY DEF HookOK, HookFields
<1>2. Show(h) = IF h.scan.view \in Final THEN Unsubscribe(k) ELSE k
  BY DEF Show
<1> HIDE DEF k
<1>3. LET g == Unsubscribe(k)
      IN  /\ g.device = k.device /\ g.selected = k.selected /\ g.deps = k.deps
          /\ g.last = k.last /\ g.scan = k.scan /\ g.shown = k.shown /\ ~g.sub
  BY <1>1 DEF Unsubscribe, HookFields
<1>4. HookOf(k, d, apps)
  BY <1>1 DEF HookOf, Ready
<1>5. HookOf(Unsubscribe(k), d, apps)
  BY <1>3, <1>4 DEF HookOf, Ready
<1>6. "error" \in Final
  BY DEF Final
<1> QED
  BY <1>1, <1>2, <1>3, <1>4, <1>5, <1>6

-----------------------------------------------------------------------------
\* The steps of one device.

LEMMA MoreApps ==
  ASSUME NEW h, NEW d, NEW apps, NEW more, HookOf(h, d, apps), apps \subseteq more,
         more \subseteq Apps
  PROVE  HookOf(h, d, more)
  BY DEF HookOf, Ready

LEMMA EmitOne ==
  ASSUME Inv, NEW d \in Devices, OneDevice(d), job.phase # "none",
         NEW t, t \notin {"error", "deviceChange", "opened"},
         NEW next, Emit(Event(t), next), JobOK(next), next.device = job.device,
         installed' \in [Devices -> SUBSET Apps], installed[d] \subseteq installed'[d],
         next.deps => next.phase # "derive", ~next.deps => Ready(hook, installed'[d])
  PROVE  OneDevice(d)'
<1> DEFINE h == OnEvent(hook, Event(t))
<1>1. hook.sub /\ HookOK(hook)
  BY RunsSubscribed DEF Inv
<1>2. /\ HookOf(hook, d, installed'[d]) /\ hook.selected = d /\ job.device = d
      /\ hook.scan.view # "error"
  <2>1. HookOf(hook, d, installed[d]) /\ installed'[d] \subseteq Apps
    BY DEF OneDevice
  <2> QED
    BY <2>1, <1>1, MoreApps DEF OneDevice
<1>3. /\ HookOf(h, d, installed'[d]) /\ h.selected = d /\ h.deps = hook.deps
      /\ h.scan.view # "error"
  BY <1>1, <1>2, OnEventOne
<1>4. HookOK(h) /\ h.sub
  BY <1>1, OnEventKeeps DEF Same
<1>5. hook' = h /\ job' = [next EXCEPT !.timeout = DEVICE_POLLING_TIMEOUT]
  BY <1>4 DEF Emit
<1> HIDE DEF h
<1>6. /\ job'.device = d
      /\ job'.deps => job'.phase # "derive"
      /\ ~job'.deps => Ready(hook', installed'[d])
  BY <1>2, <1>3, <1>5 DEF JobOK, Ready
<1> QED
  BY <1>3, <1>5, <1>6 DEF OneDevice

LEMMA EmitLastOne ==
  ASSUME Inv, NEW d \in Devices, OneDevice(d), job.phase # "none",
         NEW t, t # "deviceChange", t = "opened" => Ready(hook, installed[d]),
         EmitLast(Event(t)), UNCHANGED installed
  PROVE  OneDevice(d)'
<1> DEFINE h == OnEvent(hook, Event(t))
<1>1. hook.sub /\ HookOK(hook)
  BY RunsSubscribed DEF Inv
<1>2. /\ HookOf(hook, d, installed[d]) /\ hook.selected = d /\ job.device = d
      /\ hook.scan.view # "error"
  BY <1>1 DEF OneDevice
<1>3. /\ HookOf(h, d, installed[d]) /\ h.selected = d
      /\ h.scan.view = "error" => h.debounce = UI_DEBOUNCE
  BY <1>1, <1>2, OnEventOne
<1>4. HookOK(h) /\ h.sub
  BY <1>1, OnEventKeeps DEF Same
<1>5. hook' = [h EXCEPT !.timers.loop = POLLING] /\ job' = NoJob
  BY <1>4 DEF EmitLast
<1> HIDE DEF h
<1>6. /\ hook'.device = h.device /\ hook'.selected = h.selected /\ hook'.deps = h.deps
      /\ hook'.last = h.last /\ hook'.scan = h.scan /\ hook'.shown = h.shown
      /\ hook'.debounce = h.debounce /\ hook'.timers.loop = POLLING
  BY <1>4, <1>5 DEF HookOK, HookFields, TimerFields
<1>7. HookOf(hook', d, installed[d])
  BY <1>3, <1>6 DEF HookOf, Ready
<1>8. UI_DEBOUNCE \in 0..POLLING
  <2>1. UI_DEBOUNCE \in Nat /\ POLLING \in Nat
    BY AppAssumption
  <2> QED
    BY <2>1, DebounceAssumption
<1>9. job'.phase = "none"
  BY <1>5 DEF NoJob
<1>10. hook'.scan.view = "error" => hook'.debounce \in 0..hook'.timers.loop
  BY <1>3, <1>6, <1>8
<1>11. installed' \in [Devices -> SUBSET Apps] /\ installed'[d] = installed[d]
  BY DEF OneDevice
<1> QED
  BY <1>7, <1>9, <1>10, <1>11 DEF OneDevice

\* A command that goes on without telling anything.
LEMMA JobOne ==
  ASSUME Inv, NEW d \in Devices, OneDevice(d), job.phase # "none",
         job'.device = job.device, job'.deps = job.deps, job.deps => job'.phase # "derive",
         UNCHANGED <<hook, installed>>
  PROVE  OneDevice(d)'
<1>1. hook.sub
  BY RunsSubscribed
<1> QED
  BY <1>1 DEF OneDevice, HookOf, Ready

LEMMA AskOpenOne ==
  ASSUME Inv, NEW d \in Devices, OneDevice(d), job.phase # "none", ~job.deps, AskOpen,
         UNCHANGED installed
  PROVE  OneDevice(d)'
<1> DEFINE next == [job EXCEPT !.phase = "user", !.deps = FALSE, !.unresponsive = Off]
<1>1. JobOK(next) /\ next.device = job.device /\ next.phase # "derive"
  BY DEF Inv, JobOK
<1>2. Emit(Event("ask-open-app"), next)
  BY DEF AskOpen
<1>3. /\ Ready(hook, installed'[d]) /\ installed' \in [Devices -> SUBSET Apps]
      /\ installed[d] \subseteq installed'[d]
  BY DEF OneDevice
<1> HIDE DEF next
<1> QED
  BY <1>1, <1>2, <1>3, EmitOne

LEMMA PhaseOne ==
  ASSUME Inv, NEW d \in Devices, OneDevice(d), job.phase # "none",
         NEW t, t \notin {"error", "deviceChange", "opened"},
         NEW next, JobOK(next), next.device = job.device, next.deps = job.deps,
         next.deps => next.phase # "derive", Emit(Event(t), next), UNCHANGED installed
  PROVE  OneDevice(d)'
<1>1. installed' \in [Devices -> SUBSET Apps] /\ installed'[d] = installed[d]
  BY DEF OneDevice
<1>2. ~next.deps => Ready(hook, installed'[d])
  BY <1>1 DEF OneDevice
<1> QED
  BY <1>1, <1>2, EmitOne

LEMMA ListAppsOne ==
  ASSUME Inv, NEW d \in Devices, OneDevice(d), job.phase # "none", ListApps, UNCHANGED installed
  PROVE  OneDevice(d)'
<1> DEFINE next == [job EXCEPT !.phase = "list", !.unresponsive = Off]
<1>1. /\ JobOK(next) /\ next.device = job.device /\ next.deps = job.deps
      /\ next.phase # "derive"
  BY DEF Inv, JobOK
<1>2. Emit(Event("listing-apps"), next)
  BY DEF ListApps
<1> HIDE DEF next
<1> QED
  BY <1>1, <1>2, PhaseOne

\* An installation ends, and what was missing is installed or it was cut.
LEMMA InstalledOne ==
  ASSUME Inv, NEW d \in Devices, OneDevice(d), job.phase # "none", Installed,
         UNCHANGED installed
  PROVE  OneDevice(d)'
<1>1. job.device = d /\ installed \in [Devices -> SUBSET Apps]
  BY DEF OneDevice
<1>2. CASE job.deps
  <2> DEFINE k == [hook EXCEPT !.deps = IF Missing = {} THEN "resolved" ELSE "cut"]
             h == OnEvent(k, Event("dependencies-resolved"))
  <2>1. Missing = {} => installed[d] = Apps
    BY <1>1, <1>2 DEF Missing
  <2>2. /\ HookOK(k) /\ k.sub /\ k.device = hook.device /\ k.selected = hook.selected
        /\ k.last = hook.last /\ k.scan = hook.scan /\ k.shown = hook.shown
        /\ k.deps = IF Missing = {} THEN "resolved" ELSE "cut"
    BY RunsSubscribed DEF Inv, HookOK, HookFields, TimerFields
  <2>3. hook' = h /\ job' = [job EXCEPT !.phase = "version", !.deps = FALSE,
                                        !.timeout = DEVICE_POLLING_TIMEOUT]
    BY <1>2 DEF Installed
  <2> HIDE DEF k
  <2>4. /\ HookOf(k, d, installed[d]) /\ k.selected = d /\ k.scan.view # "error"
        /\ Ready(k, installed[d])
    BY <2>1, <2>2, RunsSubscribed DEF OneDevice, HookOf, Ready
  <2>5. /\ HookOf(h, d, installed[d]) /\ h.selected = d /\ h.deps = k.deps
        /\ h.scan.view # "error"
    <3>1. /\ HookOK(k) /\ HookOf(k, d, installed[d]) /\ k.sub /\ k.selected = d
          /\ k.scan.view # "error"
      BY <2>2, <2>4
    <3> DEFINE t == "dependencies-resolved"
               apps == installed[d]
    <3>2. t # "deviceChange" /\ t # "opened" /\ t # "error" /\ h = OnEvent(k, Event(t))
      OBVIOUS
    <3>3. HookOf(k, d, apps)
      BY <3>1
    <3> HIDE DEF h, t, apps
    <3>4. LET g == OnEvent(k, Event(t))
          IN  /\ HookOf(g, d, apps) /\ g.selected = d /\ g.deps = k.deps
              /\ g.scan.view = "error" => t = "error" /\ g.debounce = UI_DEBOUNCE
      <4>1. t = "opened" => Ready(k, apps)
        BY <3>2
      <4> QED
        BY <3>1, <3>2, <3>3, <4>1, OnEventOne
    <3> QED
      BY <3>2, <3>4 DEF apps
  <2> HIDE DEF h
  <2>6. job'.device = d /\ ~job'.deps
    BY <1>1, <2>3 DEF Inv, JobOK
  <2> QED
    BY <1>1, <2>3, <2>4, <2>5, <2>6 DEF OneDevice, Ready
<1>3. CASE ~job.deps
  BY <1>3, AskOpenOne DEF Installed
<1> QED
  BY <1>2, <1>3

LEMMA CommandOne ==
  ASSUME Inv, NEW d \in Devices, OneDevice(d), Command
  PROVE  OneDevice(d)'
<1>1. CASE OpenOk
  BY <1>1, JobOne DEF OpenOk, Answers, Inv, JobOK
<1>2. CASE OpenFails
  BY <1>2, EmitLastOne DEF OpenFails
<1>3. CASE InDashboard
  <2>1. job.phase # "none" /\ UNCHANGED installed /\ IF job.deps THEN ListApps ELSE AskOpen
    BY <1>3 DEF InDashboard, Answers
  <2> QED
    BY <2>1, AskOpenOne, ListAppsOne DEF OneDevice
<1>4. CASE Quits
  BY <1>4, EmitLastOne DEF Quits, Quit, AskQuit, Answers
<1>5. CASE RightApp
  <2>1. job.phase # "none" /\ ~job.deps /\ UNCHANGED installed
    BY <1>5 DEF RightApp, Answers
  <2>2. Ready(hook, installed[d])
    BY <2>1 DEF OneDevice
  <2>3. CASE setting.derives
    <3>1. /\ job'.device = job.device /\ job'.deps = job.deps /\ UNCHANGED hook
      BY <1>5, <2>3 DEF RightApp, Inv, JobOK
    <3> QED
      BY <2>1, <3>1, JobOne
  <2>4. CASE ~setting.derives
    <3>1. EmitLast(Event("opened"))
      BY <1>5, <2>4 DEF RightApp
    <3> QED
      BY <2>1, <2>2, <3>1, EmitLastOne
  <2> QED
    BY <2>3, <2>4
<1>13. CASE Fallback
  <2>1. job.phase # "none" /\ UNCHANGED installed
    BY <1>13 DEF Fallback
  <2>2. CASE setting.derives
    <3>1. /\ job'.device = job.device /\ job'.deps = job.deps /\ job'.phase = "fallback"
          /\ UNCHANGED hook
      BY <1>13, <2>2 DEF Fallback, Inv, JobOK
    <3> QED
      BY <2>1, <3>1, JobOne
  <2>3. CASE ~setting.derives
    <3>1. EmitLast(Event("error"))
      BY <1>13, <2>3 DEF Fallback
    <3> QED
      BY <2>1, <3>1, EmitLastOne
  <2> QED
    BY <2>2, <2>3
<1>6. CASE Derived
  <2>1. job.phase \in {"derive", "fallback"} /\ UNCHANGED installed
    BY <1>6 DEF Derived
  <2>2. PICK t : /\ EmitLast(Event(t)) /\ t # "deviceChange"
                 /\ t = "opened" => job.phase = "derive"
    BY <1>6 DEF Derived, Quit, AskQuit
  <2>3. job.phase = "derive" => Ready(hook, installed[d])
    BY <2>1 DEF OneDevice
  <2> QED
    BY <2>1, <2>2, <2>3, EmitLastOne
<1>7. CASE AllowManager
  <2> DEFINE next == [job EXCEPT !.phase = "permission"]
  <2>1. /\ job.phase # "none" /\ JobOK(next)
        /\ next.device = job.device /\ next.deps = job.deps /\ next.phase # "derive"
    BY <1>7 DEF AllowManager, Answers, Inv, JobOK
  <2>2. Emit(Event("device-permission-requested"), next) /\ UNCHANGED installed
    BY <1>7 DEF AllowManager
  <2> HIDE DEF next
  <2> QED
    BY <2>1, <2>2, PhaseOne
<1>8. CASE ManagerAllowed
  <2> DEFINE next == [job EXCEPT !.phase = "listed"]
  <2>1. /\ job.phase # "none" /\ JobOK(next)
        /\ next.device = job.device /\ next.deps = job.deps /\ next.phase # "derive"
    BY <1>8 DEF ManagerAllowed, Answers, Inv, JobOK
  <2>2. /\ Emit(Event("device-permission-granted"), next) \/ EmitLast(Event("error"))
        /\ UNCHANGED installed
    BY <1>8 DEF ManagerAllowed
  <2> HIDE DEF next
  <2> QED
    BY <2>1, <2>2, PhaseOne, EmitLastOne
<1>9. CASE Listed
  <2> DEFINE next == [job EXCEPT !.phase = "install"]
  <2>1. /\ job.phase # "none" /\ JobOK(next)
        /\ next.device = job.device /\ next.deps = job.deps /\ next.phase # "derive"
    BY <1>9 DEF Listed, Inv, JobOK
  <2>2. /\ Installed \/ EmitLast(Event("app-not-installed")) \/ Emit(Event("stream-install"), next)
        /\ UNCHANGED installed
    BY <1>9 DEF Listed
  <2> HIDE DEF next
  <2> QED
    BY <2>1, <2>2, PhaseOne, EmitLastOne, InstalledOne
<1>14. CASE Install
  <2>1. /\ job.phase = "install" /\ Emit(Event("stream-install"), job)
        /\ \E app \in Missing : installed' = [installed EXCEPT ![job.device] = @ \cup {app}]
    BY <1>14 DEF Install, Answers
  <2>2. JobOK(job) /\ job.device = d
    BY <2>1 DEF Inv, OneDevice
  <2>3. /\ installed' \in [Devices -> SUBSET Apps] /\ installed[d] \subseteq installed'[d]
    BY <2>1, <2>2 DEF OneDevice, Missing, Apps
  <2>4. ~job.deps => Ready(hook, installed'[d])
    BY <2>1, <2>3 DEF OneDevice, Ready
  <2> QED
    BY <2>1, <2>2, <2>3, <2>4, EmitOne
<1>10. CASE InstallEnds
  BY <1>10, InstalledOne DEF InstallEnds
<1>11. CASE UserAnswers
  BY <1>11, EmitLastOne, ListAppsOne DEF UserAnswers, Answers
<1>12. CASE Disconnected
  BY <1>12, EmitLastOne DEF Disconnected
<1> QED
  BY <1>1, <1>2, <1>3, <1>4, <1>5, <1>6, <1>7, <1>8, <1>9, <1>10, <1>11, <1>12, <1>13, <1>14 DEF Command

\* A step of the hook alone.
LEMMA HookStepOne ==
  ASSUME Inv, NEW d \in Devices, OneDevice(d), hook.sub, HookOf(hook', d, installed[d]),
         hook'.selected = hook.selected, hook'.deps = hook.deps,
         hook'.scan.view = "error" =>
           /\ hook.scan.view = "error" /\ hook'.debounce = hook.debounce
           /\ hook'.timers.loop = hook.timers.loop,
         UNCHANGED <<job, installed>>
  PROVE  OneDevice(d)'
  BY DEF OneDevice, Ready

LEMMA TellDisconnectOne ==
  ASSUME NEW d, NEW apps, NEW h, HookOK(h), HookOf(h, d, apps), h.sub
  PROVE  LET g == TellDisconnect(h)
         IN  /\ HookOf(g, d, apps) /\ g.selected = h.selected /\ g.deps = h.deps
             /\ g.scan.view = "error" => h.scan.view = "error" /\ g.debounce = h.debounce
<1> DEFINE k == [h EXCEPT !.device = NoDevice]
           e == Event("disconnected")
<1>1. /\ HookOK(k) /\ k.sub /\ k.device = NoDevice /\ k.selected = h.selected
      /\ k.deps = h.deps /\ k.last = h.last /\ k.scan = h.scan /\ k.shown = h.shown
      /\ k.debounce = h.debounce
  BY DEF HookOK, HookFields, TimerFields
<1>2. TellDisconnect(h) = Tell(k, e) /\ e.type = "disconnected"
  BY DEF TellDisconnect, Event
<1> HIDE DEF k, e
<1>3. HookOf(k, d, apps)
  BY <1>1 DEF HookOf, Ready
<1> DEFINE g == Tell(k, e)
<1>4. g.selected = k.selected /\ g.deps = k.deps /\ g.device = NoDevice
  BY <1>1, TellIs
<1>5. /\ HookOf(g, d, apps)
      /\ g.scan.view = "error" => k.scan.view = "error" /\ g.debounce = k.debounce
  BY <1>1, <1>2, <1>3, <1>4, TellNoDevice
<1> QED
  BY <1>1, <1>2, <1>4, <1>5

LEMMA LoopOne ==
  ASSUME Inv, NEW d \in Devices, OneDevice(d), Loop
  PROVE  OneDevice(d)'
<1>1. hook.sub /\ job.phase = "none" /\ HookOK(hook)
  <2>1. hook.timers.loop = 0 /\ hook.timers # NoTimers
    BY DEF Loop, NoTimers, Off
  <2> QED
    BY <2>1, TimersSubscribed DEF Inv, OnePoll, Off
<1>2. hook.scan.view # "error"
  <2> SUFFICES ASSUME hook.scan.view = "error" PROVE FALSE
    OBVIOUS
  <2>1. hook.debounce \in 0..0
    BY <1>1 DEF OneDevice, Loop
  <2> QED
    BY <2>1 DEF Loop
<1>3. \E to : hook' = [hook EXCEPT !.timers.loop = to]
  BY DEF Loop
<1>4. /\ hook'.device = hook.device /\ hook'.selected = hook.selected
      /\ hook'.deps = hook.deps /\ hook'.last = hook.last /\ hook'.scan = hook.scan
      /\ hook'.shown = hook.shown
  BY <1>1, <1>3 DEF HookOK, HookFields
<1>5. HookOf(hook', d, installed[d])
  BY <1>4 DEF OneDevice, HookOf, Ready
<1>6. CASE hook.selected = NoDevice
  <2>1. job' = job /\ installed' = installed
    BY <1>6 DEF Loop
  <2> QED
    BY <1>1, <1>2, <1>4, <1>5, <2>1 DEF OneDevice
<1>7. CASE hook.selected # NoDevice
  <2>1. job' = [NoJob EXCEPT !.phase = "open", !.device = hook.selected,
                             !.deps = hook.deps = "no", !.timeout = DEVICE_POLLING_TIMEOUT]
    BY <1>7 DEF Loop
  <2>2. /\ job'.phase = "open" /\ job'.device = hook.selected
        /\ ~job'.deps => hook.deps # "no"
    BY <2>1 DEF NoJob
  <2>3. hook.selected = d /\ (hook.deps # "no" => Ready(hook', installed[d]))
    BY <1>4, <1>7 DEF OneDevice, HookOf, Ready
  <2>4. installed' = installed /\ installed \in [Devices -> SUBSET Apps]
    BY DEF Loop, OneDevice
  <2> QED
    BY <1>2, <1>4, <1>5, <2>2, <2>3, <2>4 DEF OneDevice
<1> QED
  BY <1>6, <1>7

LEMMA FiresOne ==
  ASSUME Inv, NEW d \in Devices, OneDevice(d), Fires
  PROVE  OneDevice(d)'
<1>0. HookOK(hook) /\ HookOf(hook, d, installed[d])
  BY DEF Inv, OneDevice
<1>1. CASE Loop
  BY <1>1, LoopOne
<1>2. CASE Unresponsive
  <2> DEFINE next == [job EXCEPT !.unresponsive = Off]
  <2>1. job.phase # "none"
    BY <1>2 DEF Unresponsive, Inv, JobOK, NoJob, Off
  <2>2. /\ JobOK(next) /\ next.device = job.device /\ next.deps = job.deps
        /\ next.phase = job.phase
    BY <2>1 DEF Inv, JobOK
  <2>3. Emit(Event("unresponsiveDevice"), next) /\ UNCHANGED installed
    BY <1>2 DEF Unresponsive
  <2> HIDE DEF next
  <2>4. next.deps => next.phase # "derive"
    BY <2>1, <2>2 DEF OneDevice
  <2> QED
    BY <2>1, <2>2, <2>3, <2>4, PhaseOne
<1>3. CASE TimesOut
  <2>1. job.phase # "none"
    BY <1>3 DEF TimesOut, Inv, JobOK, NoJob, Off
  <2> QED
    BY <1>3, <2>1, EmitLastOne DEF TimesOut
<1>4. CASE InitFires
  <2> DEFINE e == DeviceChange(NoDevice)
             g == [hook EXCEPT !.timers.init = Off]
             t == Tell(g, e)
  <2>1. hook.sub
    BY <1>4, TimersSubscribed DEF InitFires, NoTimers, Off
  <2>2. /\ HookOK(g) /\ g.sub /\ g.selected = hook.selected /\ g.device = hook.device
        /\ g.deps = hook.deps /\ g.last = hook.last /\ g.scan = hook.scan
        /\ g.shown = hook.shown /\ g.debounce = hook.debounce
        /\ g.timers.loop = hook.timers.loop
    BY <1>0, <2>1 DEF HookOK, HookFields, TimerFields
  <2>3. hook' = [t EXCEPT !.device = NoDevice] /\ UNCHANGED <<job, installed>>
    BY <1>4 DEF InitFires
  <2>4. e.type = "deviceChange" /\ e.device = NoDevice
    BY DEF DeviceChange
  <2> HIDE DEF g, e
  <2>5. HookOf(g, d, installed[d])
    BY <1>0, <2>2 DEF HookOf, Ready
  <2>6. HookOK(t) /\ t.timers = g.timers /\ t.selected = g.selected /\ t.deps = g.deps
    BY <2>2, TellKeeps, TellIs DEF Same
  <2>7. /\ hook'.device = NoDevice /\ hook'.selected = t.selected /\ hook'.deps = t.deps
        /\ hook'.last = t.last /\ hook'.scan = t.scan /\ hook'.shown = t.shown
        /\ hook'.debounce = t.debounce /\ hook'.timers = t.timers
    BY <2>3, <2>6 DEF HookOK, HookFields
  <2>8. /\ HookOf(hook', d, installed[d])
        /\ hook'.scan.view = "error" => g.scan.view = "error" /\ t.debounce = g.debounce
    BY <2>2, <2>4, <2>5, <2>7, TellNoDevice
  <2> HIDE DEF t
  <2> QED
    BY <2>1, <2>2, <2>3, <2>6, <2>7, <2>8, HookStepOne
<1>5. CASE DisconnectFires
  <2> DEFINE g == [hook EXCEPT !.timers.disconnect = Off]
  <2>1. hook.sub
    BY <1>5, TimersSubscribed DEF DisconnectFires, NoTimers, Off
  <2>2. /\ HookOK(g) /\ g.sub /\ g.device = hook.device /\ g.selected = hook.selected
        /\ g.deps = hook.deps /\ g.last = hook.last /\ g.scan = hook.scan
        /\ g.shown = hook.shown /\ g.debounce = hook.debounce
        /\ g.timers.loop = hook.timers.loop
    BY <1>0, <2>1 DEF HookOK, HookFields, TimerFields
  <2>3. hook' = TellDisconnect(g) /\ UNCHANGED <<job, installed>>
    BY <1>5 DEF DisconnectFires
  <2> HIDE DEF g
  <2>4. HookOf(g, d, installed[d])
    BY <1>0, <2>2 DEF HookOf, Ready
  <2>5. /\ HookOf(hook', d, installed[d]) /\ hook'.selected = g.selected
        /\ hook'.deps = g.deps
        /\ hook'.scan.view = "error" => g.scan.view = "error" /\ hook'.debounce = g.debounce
    BY <2>2, <2>3, <2>4, TellDisconnectOne
  <2>6. hook'.timers.loop = g.timers.loop
    BY <2>2, <2>3, TellDisconnectKeeps DEF Same
  <2> QED
    BY <2>1, <2>2, <2>3, <2>5, <2>6, HookStepOne
<1>6. CASE LeakedDisconnectFires
  <2> DEFINE g == [hook EXCEPT !.timers.leaked = @ \ {0}]
             u == UnscheduleDisconnect(g)
  <2>1. hook.sub
    BY <1>6, TimersSubscribed DEF LeakedDisconnectFires, NoTimers
  <2>2. /\ HookOK(g) /\ g.sub /\ g.device = hook.device /\ g.selected = hook.selected
        /\ g.deps = hook.deps /\ g.last = hook.last /\ g.scan = hook.scan
        /\ g.shown = hook.shown /\ g.debounce = hook.debounce
        /\ g.timers.loop = hook.timers.loop
    BY <1>0, <2>1 DEF HookOK, HookFields, TimerFields
  <2>3. hook' = TellDisconnect(u) /\ UNCHANGED <<job, installed>>
    BY <1>6 DEF LeakedDisconnectFires
  <2> HIDE DEF g
  <2>4. /\ HookOK(u) /\ u.sub /\ u.device = g.device /\ u.selected = g.selected
        /\ u.deps = g.deps /\ u.last = g.last /\ u.scan = g.scan
        /\ u.shown = g.shown /\ u.debounce = g.debounce
        /\ u.timers.loop = g.timers.loop
    BY <2>2 DEF UnscheduleDisconnect, HookOK, HookFields, TimerFields
  <2> HIDE DEF u
  <2>5. HookOf(u, d, installed[d])
    BY <1>0, <2>2, <2>4 DEF HookOf, Ready
  <2>6. /\ HookOf(hook', d, installed[d]) /\ hook'.selected = u.selected
        /\ hook'.deps = u.deps
        /\ hook'.scan.view = "error" => u.scan.view = "error" /\ hook'.debounce = u.debounce
    BY <2>3, <2>4, <2>5, TellDisconnectOne
  <2>7. hook'.timers.loop = u.timers.loop
    BY <2>3, <2>4, TellDisconnectKeeps DEF Same
  <2> QED
    BY <2>1, <2>2, <2>3, <2>4, <2>6, <2>7, HookStepOne
<1>7. CASE DebounceEnds
  <2>1. hook.sub
    BY <1>7, TimersSubscribed DEF DebounceEnds, Off
  <2>2. /\ hook' = Show(hook) /\ job' = IF hook'.sub THEN job ELSE NoJob
        /\ UNCHANGED installed
    BY <1>7 DEF DebounceEnds
  <2>3. /\ HookOf(hook', d, installed[d]) /\ hook'.selected = hook.selected
        /\ hook'.deps = hook.deps
        /\ hook'.sub => hook'.scan.view # "error"
    BY <1>0, <2>2, ShowOne
  <2> QED
    BY <2>2, <2>3 DEF OneDevice, Ready, NoJob
<1> QED
  BY <1>1, <1>2, <1>3, <1>4, <1>5, <1>6, <1>7 DEF Fires

LEMMA TickOne ==
  ASSUME Inv, NEW d \in Devices, OneDevice(d), Tick
  PROVE  OneDevice(d)'
<1> DEFINE timers == [init |-> Down(hook.timers.init), loop |-> Down(hook.timers.loop),
                       disconnect |-> Down(hook.timers.disconnect),
                       leaked |-> {t - 1 : t \in hook.timers.leaked}]
<1>1. /\ hook' = [hook EXCEPT !.timers = timers, !.debounce = Down(@)]
      /\ job' = [job EXCEPT !.unresponsive = Down(@), !.timeout = Down(@)]
      /\ UNCHANGED installed
  BY DEF Tick
<1>2. hook.debounce # 0 /\ hook.timers.loop # 0
  BY DEF Tick, Timers
<1>3. timers.loop = Down(hook.timers.loop)
  OBVIOUS
<1> HIDE DEF timers
<1>4. /\ hook'.device = hook.device /\ hook'.selected = hook.selected /\ hook'.sub = hook.sub
      /\ hook'.deps = hook.deps /\ hook'.last = hook.last /\ hook'.scan = hook.scan
      /\ hook'.shown = hook.shown /\ hook'.debounce = Down(hook.debounce)
      /\ hook'.timers.loop = Down(hook.timers.loop)
  BY <1>1, <1>3 DEF Inv, HookOK, HookFields
<1>5. job'.phase = job.phase /\ job'.device = job.device /\ job'.deps = job.deps
  BY <1>1 DEF Inv, JobOK
<1>6. HookOf(hook', d, installed[d])
  BY <1>4 DEF OneDevice, HookOf, Ready
<1>7. ASSUME hook.debounce \in 0..hook.timers.loop
      PROVE  Down(hook.debounce) \in 0..Down(hook.timers.loop)
  BY <1>2, <1>7 DEF Inv, HookOK, Down, Off
<1> QED
  BY <1>1, <1>4, <1>5, <1>6, <1>7 DEF OneDevice, Ready

LEMMA UserOne ==
  ASSUME Inv, NEW d \in Devices, OneDevice(d), setting.devices = {d}, User
  PROVE  OneDevice(d)'
<1>0. HookOK(hook) /\ HookOf(hook, d, installed[d]) /\ UNCHANGED installed
  BY DEF Inv, OneDevice, User, Plug, OpenOrQuit, Select, onRetry, Moves
<1>1. CASE UNCHANGED <<hook, job>>
  BY <1>0, <1>1 DEF OneDevice, HookOf, Ready
<1>2. CASE Select
  <2>1. d # hook.selected /\ hook' = [hook EXCEPT !.selected = d] /\ job' = job
    BY <1>2 DEF Select
  <2>2. /\ hook'.device = hook.device /\ hook'.selected = d /\ hook'.sub = hook.sub
        /\ hook'.deps = hook.deps /\ hook'.last = hook.last /\ hook'.scan = hook.scan
        /\ hook'.shown = hook.shown /\ hook'.debounce = hook.debounce
        /\ hook'.timers = hook.timers
    BY <1>0, <2>1 DEF HookOK, HookFields
  <2>3. HookOf(hook', d, installed[d])
    BY <1>0, <2>1, <2>2 DEF HookOf, Ready
  <2> QED
    BY <1>0, <2>1, <2>2, <2>3 DEF OneDevice
<1>3. CASE onRetry
  <2> DEFINE k == [hook EXCEPT !.deps = "no", !.shown = getInitialState(hook.selected)]
  <2>1. job = NoJob /\ hook' = Subscribe(k) /\ job' = job
    BY <1>3 DEF onRetry, Inv, OnePoll
  <2>2. /\ DOMAIN k = HookFields /\ k.selected = hook.selected /\ k.deps = "no"
        /\ k.shown = getInitialState(hook.selected)
    BY <1>0 DEF HookOK, HookFields
  <2> HIDE DEF k
  <2>3. /\ hook'.device = NoDevice /\ hook'.selected = k.selected /\ hook'.deps = "no"
        /\ hook'.last = Event("none") /\ hook'.scan = getInitialState(NoDevice)
        /\ hook'.shown = k.shown
    BY <2>1, <2>2 DEF Subscribe, HookFields
  <2>4. HookOf(hook', d, installed[d])
    BY <1>0, <2>2, <2>3 DEF HookOf, Ready, getInitialState, Event
  <2>5. hook'.scan.view # "error"
    BY <2>3 DEF getInitialState
  <2> QED
    BY <1>0, <2>1, <2>4, <2>5 DEF OneDevice, NoJob
<1> QED
  BY <1>1, <1>2, <1>3 DEF User, Plug, OpenOrQuit

LEMMA InitOpen == Init => OpenInv
<1> SUFFICES ASSUME Init, NEW d \in Devices, setting.devices = {d}
             PROVE  OneDevice(d)
  BY DEF OpenInv
<1>1. PICK s \in {d, NoDevice} :
        hook = Subscribe([sub |-> TRUE, device |-> NoDevice, last |-> Event("none"),
                          scan |-> getInitialState(NoDevice), shown |-> getInitialState(s),
                          debounce |-> Off, timers |-> NoTimers, selected |-> s,
                          deps |-> "no"])
  BY DEF Init
<1>2. /\ hook.device = NoDevice /\ hook.selected = s /\ hook.deps = "no"
      /\ hook.last = Event("none") /\ hook.scan = getInitialState(NoDevice)
      /\ hook.shown = getInitialState(s)
  BY <1>1 DEF Subscribe
<1>3. HookOf(hook, d, installed[d])
  BY <1>2 DEF HookOf, Ready, getInitialState, Event
<1>4. hook.scan.view # "error"
  BY <1>2 DEF getInitialState
<1>5. job = NoJob /\ installed \in [Devices -> SUBSET Apps]
  BY DEF Init
<1> QED
  BY <1>3, <1>4, <1>5 DEF OneDevice, NoJob

LEMMA StepOpen == Inv /\ OpenInv /\ [Next]_vars => OpenInv'
<1> SUFFICES ASSUME Inv, OpenInv, [Next]_vars,
                    NEW d \in Devices, setting'.devices = {d}
             PROVE  OneDevice(d)'
  BY DEF OpenInv
<1>1. setting' = setting
  BY DEF Next, vars, Command, OpenOk, OpenFails, InDashboard, Quits, RightApp, Fallback,
     Derived, AllowManager, ManagerAllowed, Listed, Install, InstallEnds, UserAnswers, Disconnected,
     Fires, Loop, Unresponsive, TimesOut, InitFires, DisconnectFires, LeakedDisconnectFires,
     DebounceEnds, Tick, User, Plug, OpenOrQuit, Select, onRetry, Moves
<1>2. OneDevice(d) /\ setting.devices = {d}
  BY <1>1 DEF OpenInv
<1>3. CASE UNCHANGED vars
  BY <1>2, <1>3 DEF vars, OneDevice, HookOf, Ready
<1> QED
  BY <1>2, <1>3, CommandOne, FiresOne, TickOne, UserOne DEF Next

LEMMA OpenInvariance == Spec => []OpenInv
  BY InitOpen, StepOpen, Invariance, PTL DEF Spec

\* An app that the user is told to be opened, by its name and version, has its dependencies
\* on the device that is shown, if all is done on one device and no installation of them was
\* cut since the last retry: for any delays of which the debounce is not the longer, any
\* answers, refusals, failures and acts of the user.
THEOREM OpenedAppsAreReady == Spec => []DependenciesReady
<1>1. OpenInv => DependenciesReady
  <2> SUFFICES ASSUME OpenInv, hook.shown.view = "opened", hook.deps # "cut",
                      NEW d \in Devices, setting.devices = {d}
               PROVE  hook.shown.device = hook.selected /\ installed[hook.shown.device] = Apps
    BY DEF DependenciesReady, AllOnOneDevice
  <2>1. HookOf(hook, d, installed[d])
    BY DEF OpenInv, OneDevice
  <2> QED
    BY <2>1 DEF HookOf, Ready
<1> QED
  BY <1>1, OpenInvariance, PTL

(***************************************************************************)
(* DeviceSocket.  Whoever ends a socket and when, a bulk that is cut is    *)
(* flushed, and the timer of a permission does not outlive its exchange.   *)
(***************************************************************************)

\* What the code knows about the message that it handles.
SocketTyped ==
  /\ ws \in {"connecting", "open", "closing", "closed"}
  /\ ended \in {"no", "complete", "error", "unsubscribed"}
  /\ {deviceError, correctlyFinished, inBulk, flush} \subseteq BOOLEAN
  /\ timeoutForAllowManager \in {"null", "runs", "set"}
  /\ handler \in {"none", "exchange", "manager", "bulk"}
  /\ device \in {"idle", "busy", "gone"}

\* What has failed or finished has ended, and a bulk that goes on is marked and works behind
\* a socket that says nothing any more.
BulkMarked ==
  ~unsubscribed =>
    /\ ~deviceError /\ ~correctlyFinished
    /\ handler = "bulk" => inBulk /\ ws \in {"closing", "closed"}

\* Only a timer that has fired asks the user.
AskedByTimer == ~unsubscribed /\ told = "requested" => timeoutForAllowManager = "set"

SocketInv == SocketTyped /\ BulkMarked /\ InterruptedIsFlushed /\ AskedByTimer /\ PermissionAnswered

-----------------------------------------------------------------------------

LEMMA SocketInitInv == SocketInit => SocketInv
  BY DEF SocketInit, SocketInv, SocketTyped, BulkMarked, InterruptedIsFlushed, AskedByTimer,
         PermissionAnswered, unsubscribed

LEMMA SocketStepInv == SocketInv /\ [SocketNext]_socketVars => SocketInv'
<1> SUFFICES ASSUME SocketInv, [SocketNext]_socketVars PROVE SocketInv'
  OBVIOUS
<1> USE DEF SocketInv, SocketTyped, BulkMarked, InterruptedIsFlushed, AskedByTimer,
            PermissionAnswered, unsubscribed, flags, socket
<1>1. CASE Opens
  <2>1. SocketTyped'
    BY <1>1 DEF Opens
  <2>2. BulkMarked'
    BY <1>1 DEF Opens
  <2>3. InterruptedIsFlushed'
    BY <1>1 DEF Opens
  <2>4. AskedByTimer'
    BY <1>1 DEF Opens
  <2>5. PermissionAnswered'
    BY <1>1 DEF Opens
  <2> QED
    BY <2>1, <2>2, <2>3, <2>4, <2>5
<1>2. ASSUME NEW fails \in BOOLEAN, Closes(fails) PROVE SocketInv'
  <2>1. SocketTyped'
    BY <1>2 DEF Closes
  <2>2. BulkMarked'
    BY <1>2 DEF Closes
  <2>3. InterruptedIsFlushed'
    BY <1>2 DEF Closes
  <2>4. AskedByTimer'
    BY <1>2 DEF Closes
  <2>5. PermissionAnswered'
    BY <1>2 DEF Closes
  <2> QED
    BY <2>1, <2>2, <2>3, <2>4, <2>5
<1>3. ASSUME NEW manager \in BOOLEAN, Exchange(manager) PROVE SocketInv'
  <2>1. SocketTyped'
    BY <1>3 DEF Exchange, Message
  <2>2. BulkMarked'
    BY <1>3 DEF Exchange, Message
  <2>3. InterruptedIsFlushed'
    BY <1>3 DEF Exchange, Message
  <2>4. AskedByTimer'
    BY <1>3 DEF Exchange, Message
  <2>5. PermissionAnswered'
    BY <1>3 DEF Exchange, Message
  <2> QED
    BY <2>1, <2>2, <2>3, <2>4, <2>5
<1>4. ASSUME NEW n \in 0 .. BulkSize, Bulk(n) PROVE SocketInv'
  <2>1. SocketTyped'
    BY <1>4, SocketAssumption DEF Bulk, Message, End
  <2>2. BulkMarked'
    <3>1. CASE n = 0
      BY <1>4, <3>1 DEF Bulk, Message, End
    <3>2. CASE n # 0
      <4>1. correctlyFinished' = FALSE
        BY <1>4, <3>2 DEF Bulk
      <4>2. inBulk' /\ ~deviceError'
        BY <1>4, <3>2 DEF Bulk, Message
      <4>3. ws' \in {"closing", "closed"}
        BY <1>4, <3>2 DEF Bulk
      <4> QED
        BY <4>1, <4>2, <4>3
    <3> QED
      BY <3>1, <3>2
  <2>3. InterruptedIsFlushed'
    BY <1>4, SocketAssumption DEF Bulk, Message, End
  <2>4. AskedByTimer'
    BY <1>4, SocketAssumption DEF Bulk, Message, End
  <2>5. PermissionAnswered'
    BY <1>4, SocketAssumption DEF Bulk, Message, End
  <2> QED
    BY <2>1, <2>2, <2>3, <2>4, <2>5
<1>5. CASE Success
  <2>1. SocketTyped'
    BY <1>5 DEF Success, Message, End
  <2>2. BulkMarked'
    BY <1>5 DEF Success, Message, End
  <2>3. InterruptedIsFlushed'
    BY <1>5 DEF Success, Message, End
  <2>4. AskedByTimer'
    BY <1>5 DEF Success, Message, End
  <2>5. PermissionAnswered'
    BY <1>5 DEF Success, Message, End
  <2> QED
    BY <2>1, <2>2, <2>3, <2>4, <2>5
<1>6. CASE ServerFails
  <2>1. SocketTyped'
    BY <1>6 DEF ServerFails, Message, End
  <2>2. BulkMarked'
    BY <1>6 DEF ServerFails, Message, End
  <2>3. InterruptedIsFlushed'
    BY <1>6 DEF ServerFails, Message, End
  <2>4. AskedByTimer'
    BY <1>6 DEF ServerFails, Message, End
  <2>5. PermissionAnswered'
    BY <1>6 DEF ServerFails, Message, End
  <2> QED
    BY <2>1, <2>2, <2>3, <2>4, <2>5
<1>7. ASSUME NEW status \in Statuses, Answered(status) PROVE SocketInv'
  <2>1. SocketTyped'
    BY <1>7 DEF Answered, Idle, End
  <2>2. BulkMarked'
    BY <1>7 DEF Answered, Idle, End
  <2>3. InterruptedIsFlushed'
    BY <1>7 DEF Answered, Idle, End
  <2>4. AskedByTimer'
    BY <1>7 DEF Answered, Idle, End
  <2>5. PermissionAnswered'
    BY <1>7 DEF Answered, Idle, End
  <2> QED
    BY <2>1, <2>2, <2>3, <2>4, <2>5
<1>8. ASSUME NEW status \in Statuses, AnsweredBulk(status) PROVE SocketInv'
  <2>1. SocketTyped'
    BY <1>8 DEF AnsweredBulk, Idle, End
  <2>2. BulkMarked'
    BY <1>8 DEF AnsweredBulk, Idle, End
  <2>3. InterruptedIsFlushed'
    BY <1>8 DEF AnsweredBulk, Idle, End
  <2>4. AskedByTimer'
    BY <1>8 DEF AnsweredBulk, Idle, End
  <2>5. PermissionAnswered'
    BY <1>8 DEF AnsweredBulk, Idle, End
  <2> QED
    BY <2>1, <2>2, <2>3, <2>4, <2>5
<1>9. CASE ExchangeFails
  <2>1. SocketTyped'
    BY <1>9 DEF ExchangeFails, End
  <2>2. BulkMarked'
    BY <1>9 DEF ExchangeFails, End
  <2>3. InterruptedIsFlushed'
    BY <1>9 DEF ExchangeFails, End
  <2>4. AskedByTimer'
    BY <1>9 DEF ExchangeFails, End
  <2>5. PermissionAnswered'
    BY <1>9 DEF ExchangeFails, End
  <2> QED
    BY <2>1, <2>2, <2>3, <2>4, <2>5
<1>10. CASE AllowManagerFires
  <2>1. SocketTyped'
    BY <1>10 DEF AllowManagerFires
  <2>2. BulkMarked'
    BY <1>10 DEF AllowManagerFires
  <2>3. InterruptedIsFlushed'
    BY <1>10 DEF AllowManagerFires
  <2>4. AskedByTimer'
    BY <1>10 DEF AllowManagerFires
  <2>5. PermissionAnswered'
    BY <1>10 DEF AllowManagerFires
  <2> QED
    BY <2>1, <2>2, <2>3, <2>4, <2>5
<1>11. CASE onDisconnect
  <2>1. SocketTyped'
    BY <1>11 DEF onDisconnect, End
  <2>2. BulkMarked'
    BY <1>11 DEF onDisconnect, End
  <2>3. InterruptedIsFlushed'
    BY <1>11 DEF onDisconnect, End
  <2>4. AskedByTimer'
    BY <1>11 DEF onDisconnect, End
  <2>5. PermissionAnswered'
    BY <1>11 DEF onDisconnect, End
  <2> QED
    BY <2>1, <2>2, <2>3, <2>4, <2>5
<1>12. CASE onUnresponsiveDevice
  <2>1. SocketTyped'
    BY <1>12 DEF onUnresponsiveDevice, End
  <2>2. BulkMarked'
    BY <1>12 DEF onUnresponsiveDevice, End
  <2>3. InterruptedIsFlushed'
    BY <1>12 DEF onUnresponsiveDevice, End
  <2>4. AskedByTimer'
    BY <1>12 DEF onUnresponsiveDevice, End
  <2>5. PermissionAnswered'
    BY <1>12 DEF onUnresponsiveDevice, End
  <2> QED
    BY <2>1, <2>2, <2>3, <2>4, <2>5
<1>13. CASE SubscriberLeaves
  <2>1. SocketTyped'
    BY <1>13 DEF SubscriberLeaves, End
  <2>2. BulkMarked'
    BY <1>13 DEF SubscriberLeaves, End
  <2>3. InterruptedIsFlushed'
    BY <1>13 DEF SubscriberLeaves, End
  <2>4. AskedByTimer'
    BY <1>13 DEF SubscriberLeaves, End
  <2>5. PermissionAnswered'
    BY <1>13 DEF SubscriberLeaves, End
  <2> QED
    BY <2>1, <2>2, <2>3, <2>4, <2>5
<1>14. CASE UNCHANGED socketVars
  <2>1. SocketTyped'
    BY <1>14 DEF socketVars
  <2>2. BulkMarked'
    BY <1>14 DEF socketVars
  <2>3. InterruptedIsFlushed'
    BY <1>14 DEF socketVars
  <2>4. AskedByTimer'
    BY <1>14 DEF socketVars
  <2>5. PermissionAnswered'
    BY <1>14 DEF socketVars
  <2> QED
    BY <2>1, <2>2, <2>3, <2>4, <2>5
<1> QED
  BY <1>1, <1>2, <1>3, <1>4, <1>5, <1>6, <1>7, <1>8, <1>9, <1>10, <1>11, <1>12, <1>13, <1>14
     DEF SocketNext, Network, Server, Device

LEMMA SocketInvariance == SocketSpec => []SocketInv
  BY SocketInitInv, SocketStepInv, PTL DEF SocketSpec

\* However a bulk is cut while the device works on it, the device is flushed afterwards.
THEOREM BulkIsFlushed == SocketSpec => []InterruptedIsFlushed
  BY SocketInvariance, PTL DEF SocketInv

\* The timer of a permission says nothing after its exchange, in any number of exchanges.
THEOREM PermissionIsOfExchange == SocketSpec => []PermissionAnswered
  BY SocketInvariance, PTL DEF SocketInv
=============================================================================
