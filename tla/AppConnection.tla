--------------------------- MODULE AppConnection ---------------------------
(***************************************************************************)
(* Opening an app on the device: the polling implementation and the hook   *)
(* of hw/actions/app.ts, and the command that it polls, hw/connectApp.ts.  *)
(*                                                                         *)
(* Time goes by in ticks of one second.  A timer is the number of ticks    *)
(* that are left; a timer that has none left fires before the next tick.   *)
(* The device, its user and the transport are the environment: they answer *)
(* after any number of ticks, or never.                                    *)
(*                                                                         *)
(* An app and one dependency are requested.  The firmware check, upgrade   *)
(* warnings and the implementation for events are left out.                *)
(***************************************************************************)
EXTENDS Integers

CONSTANTS
  Devices,
  POLLING, INIT_DEBOUNCE, DISCONNECT_DEBOUNCE, DEVICE_POLLING_TIMEOUT,
  UI_DEBOUNCE,   \* of the state, and
  UNRESPONSIVE,  \* of the command that has no answer, in seconds
  Settings       \* the settings to check, see below

NoDevice == "no device"
Off == -1

ASSUME AppAssumption ==
  /\ NoDevice \notin Devices
  /\ {POLLING, INIT_DEBOUNCE, DISCONNECT_DEBOUNCE, DEVICE_POLLING_TIMEOUT,
      UI_DEBOUNCE, UNRESPONSIVE} \subseteq Nat \ {0}
  /\ Settings \subseteq
       [devices : SUBSET Devices, faults : BOOLEAN, derives : BOOLEAN, moves : Nat]

\* What ends the subscription is shown before the next command runs.
ASSUME DebounceAssumption == UI_DEBOUNCE <= POLLING

VARIABLES
  setting,    \* what may happen, the same for ever:
              \*   devices  that the user has
              \*   faults   commands may be refused and installations fail
              \*   derives  an address is asked for when the app runs
              \*   moves    how often the user acts without being asked
  moves,      \* how often that was
  plugged,    \* the device that is connected
  running,    \* what each device runs
  installed,  \* the apps on each device
  hook,       \* the state of the hook and the variables of the polling
  job         \* the command that runs

vars == <<setting, moves, plugged, running, installed, hook, job>>

Apps == {"app", "dependency"}

(***************************************************************************)
(* The hook: `sub` says that it is subscribed, `scan` is the state of the  *)
(* reducer, `shown` that of React, `last` the last event.  `deps` is the   *)
(* ref dependenciesResolvedRef: "no" when it is not set, and when it is,   *)
(* whether all was installed ("resolved") or the installation was cut      *)
(* ("cut"), which the code does not know and only the properties look at.  *)
(***************************************************************************)

getInitialState(d) ==
  [device |-> d, view |-> IF d = NoDevice THEN "nothing" ELSE "loading"]

\* Events that ask for something or tell the end show just that.  An app is opened with
\* its name and version, or without them when the device could not tell them.
reducer(s, e) ==
  CASE e.type = "disconnected" -> getInitialState(NoDevice)
    [] e.type = "deviceChange" -> getInitialState(e.device)
    [] e.type = "error" -> [device |-> NoDevice, view |-> "error"]
    [] e.type \in {"listing-apps", "dependencies-resolved"} -> s
    [] OTHER -> [s EXCEPT !.view = e.type]

Opened == {"opened", "opened-unknown"}

\* What ends the subscription when it is shown.
Final == {"error", "app-not-installed"} \cup Opened

Event(type) == [type |-> type, device |-> NoDevice]
DeviceChange(d) == [type |-> "deviceChange", device |-> d]

NoTimers == [init |-> Off, loop |-> Off, disconnect |-> Off, leaked |-> {}]

\* Mutant: the timer of the next command is not cleared.
UnsubscribeKeepsLoop(h) ==
  [h EXCEPT !.sub = FALSE, !.timers = [NoTimers EXCEPT !.loop = h.timers.loop], !.debounce = Off]

\* The subscription ends: what its variables still refer to is cleared, and timers that
\* they do not refer to have nobody to tell.
Unsubscribe(h) ==
  [h EXCEPT !.sub = FALSE, !.timers = NoTimers, !.debounce = Off]

\* takeWhile, setState, and the cleanup of the effect when the app is opened.
Show(h) ==
  LET shown == [h EXCEPT !.shown = h.scan, !.debounce = Off]
  IN  IF h.scan.view \in Final
      THEN Unsubscribe(shown) ELSE shown

\* An event reaches the reducer unless it is the same as the last one.
Tell(h, e) ==
  LET h1 == [h EXCEPT !.last = e, !.scan = reducer(h.scan, e)]
  IN  IF ~h.sub \/ e = h.last THEN h
      ELSE IF h1.scan.view \in {"device-permission-granted", "stream-install"}
           THEN Show(h1)
           ELSE [h1 EXCEPT !.debounce = UI_DEBOUNCE]

\* disconnectT is reset before it is given to clearTimeout, which clears nothing.
UnscheduleDisconnect(h) ==
  IF h.timers.disconnect = Off THEN h
  ELSE [h EXCEPT !.timers.leaked = @ \cup {h.timers.disconnect},
                 !.timers.disconnect = Off]

\* What the polling does with an event of the command.
OnEvent(h0, e) ==
  LET h == [UnscheduleDisconnect(h0) EXCEPT !.timers.init = Off]
  IN  IF e.type = "unresponsiveDevice" THEN h
      ELSE IF e.type = "disconnected"
           THEN [h EXCEPT !.timers.disconnect = DISCONNECT_DEBOUNCE]
           ELSE Tell(IF h.device = h.selected THEN h
                     ELSE Tell([h EXCEPT !.device = h.selected], DeviceChange(h.selected)), e)

\* A delayed disconnection is told, and disconnectT reset whichever timer it was of.
TellDisconnect(h) ==
  Tell([h EXCEPT !.device = NoDevice], Event("disconnected"))

\* The effect runs.
Subscribe(h) ==
  [h EXCEPT !.sub = TRUE, !.device = NoDevice, !.last = Event("none"),
            !.scan = getInitialState(NoDevice), !.debounce = Off,
            !.timers = [NoTimers EXCEPT !.init = INIT_DEBOUNCE, !.loop = 0]]

(***************************************************************************)
(* The command.  Its phase is what it waits for; `deps` are dependencies   *)
(* to be installed first.                                                  *)
(***************************************************************************)

NoJob == [phase |-> "none", device |-> NoDevice, deps |-> FALSE,
          unresponsive |-> Off, timeout |-> Off]

\* The job goes on after an event, which starts the timeout again.
Emit(e, next) ==
  LET h == OnEvent(hook, e)
  IN  /\ hook' = h
      /\ job' = IF h.sub THEN [next EXCEPT !.timeout = DEVICE_POLLING_TIMEOUT] ELSE NoJob

\* Mutant: a job that loses the device is not followed by another one.
EmitLastStopsPolling(e) ==
  LET h == OnEvent(hook, e)
  IN  /\ hook' = IF h.sub /\ e.type # "disconnected"
                 THEN [h EXCEPT !.timers.loop = POLLING] ELSE h
      /\ job' = NoJob

\* The last event of a job; the next one runs later.
EmitLast(e) ==
  LET h == OnEvent(hook, e)
  IN  /\ hook' = IF h.sub THEN [h EXCEPT !.timers.loop = POLLING] ELSE h
      /\ job' = NoJob

\* A debounce that is over at the same time began before, with the last event of the job.
Loop ==
  /\ hook.timers.loop = 0 /\ hook.debounce # 0
  /\ IF hook.selected = NoDevice
     THEN hook' = [hook EXCEPT !.timers.loop = POLLING] /\ UNCHANGED job
     ELSE /\ hook' = [hook EXCEPT !.timers.loop = Off]
          /\ job' = [NoJob EXCEPT !.phase = "open", !.device = hook.selected,
                                  !.deps = hook.deps = "no",
                                  !.timeout = DEVICE_POLLING_TIMEOUT]
  /\ UNCHANGED <<setting, moves, plugged, running, installed>>

Answers(phase) == job.phase = phase /\ plugged = job.device

OpenOk ==
  /\ Answers("open")
  /\ job' = [job EXCEPT !.phase = "version", !.unresponsive = UNRESPONSIVE]
  /\ UNCHANGED <<setting, moves, plugged, running, installed, hook>>

OpenFails ==
  /\ job.phase = "open"
  /\ plugged # job.device
  /\ EmitLast(Event("error"))
  /\ UNCHANGED <<setting, moves, plugged, running, installed>>

\* openAppFromDashboard
AskOpen ==
  Emit(Event("ask-open-app"), [job EXCEPT !.phase = "user", !.deps = FALSE, !.unresponsive = Off])

ListApps ==
  Emit(Event("listing-apps"), [job EXCEPT !.phase = "list", !.unresponsive = Off])

\* The dashboard runs: dependencies first, then the app.
InDashboard ==
  /\ Answers("version")
  /\ running[job.device] = "dashboard"
  /\ IF job.deps THEN ListApps ELSE AskOpen
  /\ UNCHANGED <<setting, moves, plugged, running, installed>>

\* attemptToQuitApp: some apps can be quit.
Quit ==
  /\ EmitLast(Event("disconnected"))
  /\ running' = [running EXCEPT ![job.device] = "dashboard"]

AskQuit == EmitLast(Event("ask-quit-app")) /\ UNCHANGED running

Quits ==
  /\ Answers("version")
  /\ running[job.device] # "dashboard" /\ (running[job.device] = "other" \/ job.deps)
  /\ Quit \/ AskQuit
  /\ UNCHANGED <<setting, moves, plugged, installed>>

RightApp ==
  /\ Answers("version")
  /\ running[job.device] = "app" /\ ~job.deps
  /\ IF setting.derives
     THEN job' = [job EXCEPT !.phase = "derive", !.unresponsive = Off] /\ UNCHANGED hook
     ELSE EmitLast(Event("opened"))
  /\ UNCHANGED <<setting, moves, plugged, running, installed>>

\* The old way: a device that does not know a command is asked for an address, whatever
\* the app and its dependencies.
Fallback ==
  /\ setting.faults
  /\ job.phase \in {"version", "list", "permission", "listed", "user", "derive"}
  /\ plugged = job.device
  /\ IF setting.derives THEN job' = [job EXCEPT !.phase = "fallback"] /\ UNCHANGED hook
     ELSE EmitLast(Event("error"))
  /\ UNCHANGED <<setting, moves, plugged, running, installed>>

\* derivationLogic: the app gives its address; what else there is on the device refuses.
Derived ==
  /\ job.phase \in {"derive", "fallback"} /\ plugged = job.device
  /\ \/ /\ running[job.device] = "app"
        /\ EmitLast(Event(IF job.phase = "derive" THEN "opened" ELSE "opened-unknown"))
        /\ UNCHANGED running
     \/ /\ setting.faults \/ running[job.device] # "app"
        /\ \/ \E type \in {"ask-open-app", "error"} : EmitLast(Event(type)) /\ UNCHANGED running
           \/ AskQuit
           \/ job.phase = "derive" /\ Quit
  /\ UNCHANGED <<setting, moves, plugged, installed>>

Missing == (IF job.deps THEN Apps ELSE {"app"}) \ installed[job.device]

\* onSuccessObs of the dependencies begins again without them, that of the app opens it.
Installed ==
  IF job.deps
  THEN /\ hook' = OnEvent([hook EXCEPT !.deps = IF Missing = {} THEN "resolved" ELSE "cut"],
                          Event("dependencies-resolved"))
       /\ job' = [job EXCEPT !.phase = "version", !.deps = FALSE,
                             !.timeout = DEVICE_POLLING_TIMEOUT]
  ELSE AskOpen

AllowManager ==
  /\ Answers("list")
  /\ Emit(Event("device-permission-requested"), [job EXCEPT !.phase = "permission"])
  /\ UNCHANGED <<setting, moves, plugged, running, installed>>

ManagerAllowed ==
  /\ Answers("permission")
  /\ \/ Emit(Event("device-permission-granted"), [job EXCEPT !.phase = "listed"])
     \/ EmitLast(Event("error"))
  /\ UNCHANGED <<setting, moves, plugged, running, installed>>

\* streamAppInstall, with the result of listApps
Listed ==
  /\ job.phase \in {"list", "listed"} /\ plugged = job.device
  /\ \/ Missing = {} /\ Installed
     \/ /\ Missing # {}
        /\ \/ EmitLast(Event("app-not-installed"))
           \/ Emit(Event("stream-install"), [job EXCEPT !.phase = "install"])
  /\ UNCHANGED <<setting, moves, plugged, running, installed>>

\* runAllWithProgress, one app after another.
Install ==
  /\ Answers("install")
  /\ \E app \in Missing : installed' = [installed EXCEPT ![job.device] = @ \cup {app}]
  /\ Emit(Event("stream-install"), job)
  /\ UNCHANGED <<setting, moves, plugged, running>>

\* An error is an event of the runner and ends the installation as a success does, that of
\* a device that is gone too.
InstallEnds ==
  /\ job.phase = "install"
  /\ Missing = {} \/ plugged # job.device \/ setting.faults
  /\ Installed
  /\ UNCHANGED <<setting, moves, plugged, running, installed>>

\* openApp: the user accepts or refuses, or the app has to be installed first.
UserAnswers ==
  /\ Answers("user")
  /\ \/ /\ "app" \in installed[job.device]
        /\ EmitLast(Event("device-permission-granted"))
        /\ running' = [running EXCEPT ![job.device] = "app"]
     \/ EmitLast(Event("error")) /\ UNCHANGED running
     \/ "app" \notin installed[job.device] /\ ListApps /\ UNCHANGED running
  /\ UNCHANGED <<setting, moves, plugged, installed>>

Disconnected ==
  /\ job.phase \notin {"none", "open", "install"}
  /\ plugged # job.device
  /\ EmitLast(Event("disconnected"))
  /\ UNCHANGED <<setting, moves, plugged, running, installed>>

(***************************************************************************)
(* Time.                                                                   *)
(***************************************************************************)

Unresponsive ==
  /\ job.unresponsive = 0
  /\ Emit(Event("unresponsiveDevice"), [job EXCEPT !.unresponsive = Off])
  /\ UNCHANGED <<setting, moves, plugged, running, installed>>

TimesOut ==
  /\ job.timeout = 0
  /\ EmitLast(Event("error"))
  /\ UNCHANGED <<setting, moves, plugged, running, installed>>

InitFires ==
  /\ hook.timers.init = 0
  /\ hook' = [Tell([hook EXCEPT !.timers.init = Off], DeviceChange(NoDevice))
                EXCEPT !.device = NoDevice]
  /\ UNCHANGED <<setting, moves, plugged, running, installed, job>>

DisconnectFires ==
  /\ hook.timers.disconnect = 0
  /\ hook' = TellDisconnect([hook EXCEPT !.timers.disconnect = Off])
  /\ UNCHANGED <<setting, moves, plugged, running, installed, job>>

LeakedDisconnectFires ==
  /\ 0 \in hook.timers.leaked
  /\ hook' = LET h == [hook EXCEPT !.timers.leaked = @ \ {0}]
             IN  TellDisconnect(UnscheduleDisconnect(h))
  /\ UNCHANGED <<setting, moves, plugged, running, installed, job>>

DebounceEnds ==
  /\ hook.debounce = 0
  /\ hook' = Show(hook)
  /\ job' = IF hook'.sub THEN job ELSE NoJob
  /\ UNCHANGED <<setting, moves, plugged, running, installed>>

Fires ==
  \/ Loop \/ Unresponsive \/ TimesOut \/ InitFires
  \/ DisconnectFires \/ LeakedDisconnectFires \/ DebounceEnds

Timers ==
  {hook.timers.init, hook.timers.loop, hook.timers.disconnect, hook.debounce,
   job.unresponsive, job.timeout} \cup hook.timers.leaked

Down(t) == IF t = Off THEN Off ELSE t - 1

Tick ==
  /\ 0 \notin Timers /\ Timers # {Off}
  /\ hook' = [hook EXCEPT
       !.timers = [init |-> Down(@.init), loop |-> Down(@.loop),
                   disconnect |-> Down(@.disconnect),
                   leaked |-> {t - 1 : t \in @.leaked}],
       !.debounce = Down(@)]
  /\ job' = [job EXCEPT !.unresponsive = Down(@), !.timeout = Down(@)]
  /\ UNCHANGED <<setting, moves, plugged, running, installed>>

(***************************************************************************)
(* The user, who is not asked.                                             *)
(***************************************************************************)

Moves ==
  /\ moves < setting.moves
  /\ moves' = moves + 1
  /\ UNCHANGED <<setting, installed>>

Plug ==
  /\ Moves
  /\ \E d \in setting.devices \cup {NoDevice} : d # plugged /\ plugged' = d
  /\ UNCHANGED <<running, hook, job>>

OpenOrQuit ==
  /\ Moves
  /\ plugged # NoDevice /\ job.phase # "install"
  /\ \E what \in {"dashboard", "other"} \cup ({"app"} \cap installed[plugged]) :
       running' = [running EXCEPT ![plugged] = what]
  /\ UNCHANGED <<plugged, hook, job>>

Select ==
  /\ Moves
  /\ \E d \in setting.devices : d # hook.selected /\ hook' = [hook EXCEPT !.selected = d]
  /\ UNCHANGED <<plugged, running, job>>

\* Mutant: the dependencies stay resolved after an error.
onRetryKeepsDeps ==
  /\ Moves
  /\ ~hook.sub /\ hook.shown.view \notin Opened
  /\ hook' = Subscribe([hook EXCEPT !.deps = IF @ = "no" THEN "no" ELSE "resolved",
                                    !.shown = getInitialState(hook.selected)])
  /\ UNCHANGED <<plugged, running, job>>

onRetry ==
  /\ Moves
  /\ ~hook.sub /\ hook.shown.view \notin Opened
  /\ hook' = Subscribe([hook EXCEPT !.deps = "no", !.shown = getInitialState(hook.selected)])
  /\ UNCHANGED <<plugged, running, job>>

User == Plug \/ OpenOrQuit \/ Select \/ onRetry

Init ==
  /\ setting \in Settings
  /\ moves = 0
  /\ plugged \in setting.devices \cup {NoDevice}
  /\ installed \in [Devices -> SUBSET Apps]
  /\ running \in [Devices -> {"dashboard", "other", "app"}]
  /\ \A d \in Devices : running[d] = "app" => "app" \in installed[d]
  /\ \A d \in Devices \ setting.devices : running[d] = "dashboard" /\ installed[d] = {}
  /\ \E d \in setting.devices \cup {NoDevice} :
       hook = Subscribe([sub |-> TRUE, device |-> NoDevice, last |-> Event("none"),
                         scan |-> getInitialState(NoDevice), shown |-> getInitialState(d),
                         debounce |-> Off, timers |-> NoTimers, selected |-> d,
                         deps |-> "no"])
  /\ job = NoJob

Command ==
  \/ OpenOk \/ OpenFails \/ InDashboard \/ Quits \/ RightApp \/ Fallback \/ Derived
  \/ AllowManager \/ ManagerAllowed \/ Listed \/ Install \/ InstallEnds \/ UserAnswers
  \/ Disconnected

Next == Command \/ Fires \/ Tick \/ User

Spec == Init /\ [][Next]_vars

\* Time goes by.
Fairness == WF_vars(Fires \/ Tick)

FairSpec == Spec /\ Fairness

(***************************************************************************)
(* Properties.                                                             *)
(***************************************************************************)

\* The polling neither dies nor runs twice: while there is a subscription either a
\* command runs or the next one is scheduled, and nothing is left of one that ended.
OnePoll ==
  IF hook.sub THEN (job.phase = "none") # (hook.timers.loop = Off)
  ELSE job = NoJob /\ hook.timers = NoTimers /\ hook.debounce = Off

AllOnOneDevice == \E d \in Devices : setting.devices = {d}

\* An app that the user is told to be opened, by its name and version, has its dependencies
\* on the device that is shown, whatever was unplugged, refused, quit or tried again before,
\* if all was done on one device and no installation of them was cut since the last retry.
DependenciesReady ==
  hook.shown.view = "opened" /\ hook.deps # "cut" /\ AllOnOneDevice =>
    /\ hook.shown.device = hook.selected
    /\ installed[hook.shown.device] = Apps

\* "any connect app event unschedule the disconnect debounced event": no disconnection
\* is told after the command has told something again.
Unscheduled == 0 \notin hook.timers.leaked

\* Once the chosen device stays connected the polling comes to an end, with the app, an
\* error or what is missing, unless the user is asked to quit an app that cannot be quit.
Ends ==
  ~setting.faults /\ <>[](hook.selected # NoDevice /\ plugged = hook.selected) =>
    <>(~hook.sub \/ hook.scan.view = "ask-quit-app")

=============================================================================
