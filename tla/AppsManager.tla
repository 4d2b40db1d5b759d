---------------------------- MODULE AppsManager ----------------------------
(***************************************************************************)
(* The apps manager: the reducer of src/apps/logic.ts, which keeps what is *)
(* installed and two queues of operations, and the runners that execute    *)
(* the queues on the device: useAppsRunner of src/apps/react.ts, which     *)
(* takes the next operation of the current state and lets the user act     *)
(* meanwhile, and runAll of src/apps/runner.ts, which follows the plan of  *)
(* the state it started from.                                              *)
(*                                                                         *)
(* installedAvailable is TRUE, the only value that listApps answers with.  *)
(* Progress events change nothing of the state and are left out.           *)
(*                                                                         *)
(* The device refuses to install an app without its dependencies and to    *)
(* uninstall one that others need: hw/installApp.ts and hw/uninstallApp.ts *)
(* turn these answers into ManagerAppDepInstallRequired and                *)
(* ManagerAppDepUninstallRequired.                                         *)
(***************************************************************************)
EXTENDS Integers, Sequences, FiniteSets, SequencesExt, Lists

CONSTANTS
  Apps,          \* the names of apps
  AppByName,     \* the keys of appByName, in order: the apps of the store
  Deps,          \* Deps[a]: App.dependencies of an app of the store
  Unnamed,       \* the app that the device lists with an empty name
  Initials,      \* the sets of apps on the device at the start
  Restores,      \* the lists given as appsToRestore
  Settings,      \* the settings of the runs to check, see below
  MaxActions,    \* bound: actions of the user
  NoOp           \* no operation

Listed == ToSet(AppByName)

DepsOf(a) == IF a \in Listed THEN Deps[a] ELSE <<>>

\* Apps have one level of dependencies, as apps/polyfill.ts declares them, and
\* nothing reaches the state that runAll works on.
ASSUME AppsAssumption ==
  /\ IsFiniteSet(Apps)
  /\ AppByName \in Seq(Apps)
  /\ Unnamed \in Apps \ Listed
  /\ Initials \subseteq SUBSET Apps
  /\ Restores \subseteq Seq(Apps)
  /\ Deps \in [Listed -> Seq(Listed)]
  /\ \A a \in Listed : \A d \in ToSet(Deps[a]) : Deps[d] = <<>>
  /\ \A S \in Initials, a \in Listed : a \in S => ToSet(Deps[a]) \subseteq S
  /\ Settings \subseteq [hook : BOOLEAN, overlap : BOOLEAN,
                          mixed : BOOLEAN, faults : BOOLEAN]
  /\ \A s \in Settings : s.overlap => s.hook

VARIABLES
  setting,   \* who runs the queues and what may happen, the same for ever:
             \*   hook     useAppsRunner runs them, and runAll otherwise
             \*   overlap  the user acts while something is queued or running
             \*   mixed    an app is outdated while one that needs it is not
             \*   faults   operations fail for a reason of their own
  state,     \* State of the reducer; currentError and updated are flags
  plan,      \* runAll: the operations that are left
  device,    \* the apps that are on the device
  goal,      \* history: the apps that the last action of the user asks for
  predicted, \* history: the apps predicted when the user acted last
  actions    \* bound: number of actions of the user

vars == <<setting, state, plan, device, goal, predicted, actions>>

Op(type, name) == [type |-> type, name |-> name]

(***************************************************************************)
(* The order of the queues.                                                *)
(***************************************************************************)

\* The list with the dependencies that are asked for and that it does not hold.
Pushed(list, deps, asked) ==
  LET upTo[i \in 0..Len(deps)] ==
        IF i = 0 THEN list
        ELSE LET before == upTo[i - 1]
             IN  IF deps[i] \in asked \ ToSet(before) THEN Append(before, deps[i])
                 ELSE before
  IN  upTo[Len(deps)]

\* Mutant: the queue of installs keeps the order of the requests.
KeepOrder(apps) == apps

reorderInstallQueue(apps) ==
  LET upTo[i \in 0..Len(apps)] ==
        IF i = 0 THEN <<>>
        ELSE LET before == upTo[i - 1]
             IN  IF apps[i] \in ToSet(before) THEN before
                 ELSE Append(Pushed(before, DepsOf(apps[i]), ToSet(apps)), apps[i])
  IN  upTo[Len(apps)]

\* Mutant: the queue of uninstalls keeps the order of the requests.
ReorderNothing(apps) == reorderInstallQueue(apps)

reorderUninstallQueue(apps) == Reverse(reorderInstallQueue(Reverse(apps)))

Dependents(name) == {a \in Listed : name \in ToSet(DepsOf(a))}

findDependents(name) == Keeping(AppByName, Dependents(name))

(***************************************************************************)
(* The reducer: one operator per action, from a State to a State.          *)
(***************************************************************************)

Installed(s) == ToSet(s.installed)

RunStart(s, op) == [s EXCEPT !.currentAppOp = op]

\* Mutant: the updates are still shown when everything is done.
RunSuccessKeepsUpdates(s, op) ==
  LET others == Without(s.installed, {op.name})
  IN  [s EXCEPT
        !.installed = IF op.type = "install" THEN Append(others, op.name)
                      ELSE others,
        !.installQueue = IF op.type = "install" THEN Without(@, {op.name}) ELSE @,
        !.uninstallQueue = IF op.type = "install" THEN @ ELSE Without(@, {op.name}),
        !.outdated = @ \ {op.name},
        !.currentAppOp = NoOp,
        !.currentError = FALSE]

\* Mutant: an operation that is done stays in its queue.
RunSuccessKeepsOp(s, op) ==
  [s EXCEPT
     !.installed = IF op.type = "install"
                   THEN Append(Without(@, {op.name}), op.name)
                   ELSE Without(@, {op.name}),
     !.outdated = @ \ {op.name},
     !.currentAppOp = NoOp]

RunSuccess(s, op) ==
  LET others == Without(s.installed, {op.name})
      next == IF op.type = "install"
              THEN [s EXCEPT !.installed = Append(others, op.name),
                             !.installQueue = Without(@, {op.name})]
              ELSE [s EXCEPT !.installed = others,
                             !.uninstallQueue = Without(@, {op.name})]
      over == next.installQueue = <<>> /\ next.uninstallQueue = <<>>
  IN  [next EXCEPT !.outdated = @ \ {op.name},
                   !.currentAppOp = NoOp,
                   !.currentError = FALSE,
                   !.updateAllQueue = IF over THEN <<>> ELSE @]

\* Mutant: the error is noted and the queues go on.
RunErrorGoesOn(s) == [s EXCEPT !.currentAppOp = NoOp, !.currentError = TRUE]

RunError(s) ==
  [s EXCEPT !.uninstallQueue = <<>>,
            !.installQueue = <<>>,
            !.updateAllQueue = <<>>,
            !.currentAppOp = NoOp,
            !.currentError = TRUE]

Queues(s, installs, uninstalls) ==
  [s EXCEPT !.currentError = FALSE,
            !.installQueue = installs,
            !.uninstallQueue = uninstalls]

Wipe(s) == Queues(s, <<>>, reorderUninstallQueue(s.installed))

UpdateAll(s) ==
  LET outdated == Keeping(s.installed, s.outdated \cap Listed)
      upTo[i \in 0..Len(outdated)] ==
        IF i = 0 THEN <<>>
        ELSE upTo[i - 1] \o <<outdated[i]>>
                         \o Keeping(s.installed, Dependents(outdated[i]))
      update == upTo[Len(outdated)]
      installs == reorderInstallQueue(s.installQueue \o update)
  IN  [Queues(s, installs, reorderUninstallQueue(s.uninstallQueue \o update))
         EXCEPT !.updateAllQueue = installs]

Install(s, name) ==
  LET deps == ToSet(DepsOf(name))
      related == {name} \cup deps
        \cup UNION {ToSet(findDependents(d)) : d \in {name} \cup deps}
      stale == {name} \cup deps
      update == IF stale \cap s.outdated # {}
                THEN Keeping(s.installed, s.outdated \cap related) ELSE <<>>
      kept == Without(s.uninstallQueue, stale)
      missing == Append(Without(DepsOf(name), Installed(s)), name)
  IN  IF \/ name \in ToSet(s.installQueue)
         \/ name \in Installed(s) \ s.outdated
      THEN s
      ELSE IF kept # s.uninstallQueue
      THEN Queues(s, reorderInstallQueue(s.installQueue),
                  reorderUninstallQueue(kept))
      ELSE Queues(s, reorderInstallQueue(s.installQueue \o update \o missing),
                  reorderUninstallQueue(kept \o update))

Uninstall(s, name, force) ==
  LET wanted == {name, Unnamed} \cap Installed(s) # {} \/ force
      dependents == Keeping(findDependents(name), Installed(s))
  IN  IF name \in ToSet(s.uninstallQueue) THEN s
      ELSE Queues(s, Without(s.installQueue, {name}),
             IF wanted THEN reorderUninstallQueue(
                              s.uninstallQueue \o Append(dependents, name))
             ELSE s.uninstallQueue)

Recover(s) == [s EXCEPT !.currentError = FALSE]

initState(installed, outdated, appsToRestore) ==
  LET s == [installed |-> installed, outdated |-> outdated,
            installQueue |-> <<>>, uninstallQueue |-> <<>>,
            updateAllQueue |-> <<>>, currentAppOp |-> NoOp,
            currentError |-> FALSE]
      wanted == Keeping(appsToRestore, Listed \ ToSet(installed))
      upTo[i \in 0..Len(wanted)] ==
        IF i = 0 THEN s ELSE Install(upTo[i - 1], wanted[i])
  IN  upTo[Len(wanted)]

\* Mutant: what is to be installed comes first.
PlanInstallsFirst(s) ==
  [i \in DOMAIN s.installQueue |-> Op("install", s.installQueue[i])]
    \o [i \in DOMAIN s.uninstallQueue |-> Op("uninstall", s.uninstallQueue[i])]

getActionPlan(s) ==
  [i \in DOMAIN s.uninstallQueue |-> Op("uninstall", s.uninstallQueue[i])]
    \o [i \in DOMAIN s.installQueue |-> Op("install", s.installQueue[i])]

predictOptimisticState(s) ==
  LET ops == getActionPlan(s)
      upTo[i \in 0..Len(ops)] ==
        IF i = 0 THEN s ELSE RunSuccess(upTo[i - 1], ops[i])
  IN  upTo[Len(ops)]

(***************************************************************************)
(* The user.                                                               *)
(***************************************************************************)

Queued(s) == s.installQueue # <<>> \/ s.uninstallQueue # <<>>

Idle == state.currentAppOp = NoOp /\ plan = <<>> /\ ~Queued(state)

\* The operation that the runner takes next.
Next1 == IF setting.hook THEN Head(getActionPlan(state)) ELSE Head(plan)

CanStart ==
  /\ state.currentAppOp = NoOp
  /\ IF setting.hook THEN Queued(state) ELSE plan # <<>>

\* What an action asks for: the apps on the device, and those up to date.
Goal(names, fresh) == [names |-> names, fresh |-> fresh]

WithDeps(name) == {name} \cup ToSet(DepsOf(name))

Init ==
  \E names \in Initials : \E outdated \in SUBSET (names \ {Unnamed}),
     installed \in SetToSeqs(names), appsToRestore \in Restores :
    /\ setting \in Settings
    /\ \/ setting.mixed
       \/ \A a \in names : WithDeps(a) \cap outdated # {} => a \in outdated
    /\ state = initState(installed, outdated, appsToRestore)
    /\ plan = <<>>
    /\ device = names
    /\ goal = Goal(names \cup UNION {WithDeps(a) : a \in ToSet(appsToRestore) \cap Listed},
                   {})
    /\ predicted = Installed(predictOptimisticState(state))
    /\ actions = 0

\* The effect of useAppsRunner runs before React handles an action that comes
\* after the render: what can start has started.
Dispatch(next, wanted) ==
  /\ actions < MaxActions
  /\ setting.overlap \/ Idle
  /\ IF setting.hook THEN ~CanStart ELSE plan = <<>> /\ state.currentAppOp = NoOp
  /\ state' = next
  /\ goal' = wanted
  /\ predicted' = Installed(predictOptimisticState(next))
  /\ actions' = actions + 1
  /\ UNCHANGED <<setting, plan, device>>

UserInstall(name) ==
  LET fresh == IF name \in Installed(state) \ state.outdated THEN {}
               ELSE WithDeps(name)
  IN  Dispatch(Install(state, name),
               Goal(Installed(state) \cup WithDeps(name), fresh))

UserUninstall(name, force) ==
  Dispatch(Uninstall(state, name, force),
           Goal(Installed(state) \ ({name} \cup ToSet(findDependents(name))), {}))

UserWipe == Dispatch(Wipe(state), Goal({}, {}))

UserUpdateAll == Dispatch(UpdateAll(state), Goal(Installed(state), Listed))

UserRecover ==
  /\ state.currentError
  /\ Dispatch(Recover(state), Goal(Installed(state), {}))

(***************************************************************************)
(* The runners.                                                            *)
(***************************************************************************)

\* runAll: the plan is made once.
Launch ==
  /\ ~setting.hook
  /\ plan = <<>>
  /\ state.currentAppOp = NoOp
  /\ Queued(state)
  /\ plan' = getActionPlan(state)
  /\ UNCHANGED <<setting, state, device, goal, predicted, actions>>

Start ==
  /\ CanStart
  /\ Next1.name \in Listed
  /\ state' = RunStart(state, Next1)
  /\ UNCHANGED <<setting, plan, device, goal, predicted, actions>>

Proceed == plan' = IF setting.hook THEN plan ELSE Tail(plan)

\* "app not in list, we skip it."
Skip ==
  /\ CanStart
  /\ Next1.name \notin Listed
  /\ state' = RunSuccess(state, Next1)
  /\ Proceed
  /\ UNCHANGED <<setting, device, goal, predicted, actions>>

\* The device has what the operation needs, and nothing that needs it.
Accepted(op) ==
  IF op.type = "install" THEN ToSet(DepsOf(op.name)) \subseteq device
  ELSE ToSet(findDependents(op.name)) \cap device = {}

Executed(op) ==
  IF op.type = "install" THEN device \cup {op.name} ELSE device \ {op.name}

Succeed ==
  /\ state.currentAppOp # NoOp
  /\ Accepted(state.currentAppOp)
  /\ device' = Executed(state.currentAppOp)
  /\ state' = RunSuccess(state, state.currentAppOp)
  /\ Proceed
  /\ UNCHANGED <<setting, goal, predicted, actions>>

\* The device refuses, or the operation fails before or after its effect.
Fail ==
  LET op == state.currentAppOp
  IN  /\ op # NoOp
      /\ \/ ~Accepted(op) /\ device' = device
         \/ Accepted(op) /\ setting.faults /\ device' \in {device, Executed(op)}
      /\ state' = RunError(state)
      /\ Proceed
      /\ UNCHANGED <<setting, goal, predicted, actions>>

Run == Launch \/ Start \/ Skip \/ Succeed \/ Fail

User ==
  \/ \E a \in Listed : UserInstall(a)
  \/ \E a \in Apps, force \in BOOLEAN : UserUninstall(a, force)
  \/ UserWipe
  \/ UserUpdateAll
  \/ UserRecover

\* Everything is done and the user has no action left.
Over == actions = MaxActions /\ Idle /\ UNCHANGED vars

Next == Run \/ User \/ Over

Spec == Init /\ [][Next]_vars /\ WF_vars(Run)

(***************************************************************************)
(* Properties.                                                             *)
(***************************************************************************)

\* Nobody comes twice in s, and who needs another comes after it.
InOrder(s) ==
  \A i, j \in DOMAIN s : i < j => s[i] # s[j] /\ s[j] \notin ToSet(DepsOf(s[i]))

\* Whatever the user adds and cancels while operations run, the queues hold
\* no app twice, dependencies are installed before the apps that need them
\* and uninstalled after them (reorderInstallQueue, reorderUninstallQueue).
QueuesInOrder ==
  /\ InOrder(state.installQueue)
  /\ InOrder(Reverse(state.uninstallQueue))

\* The user waits for the queues, and nothing fails by itself.
Undisturbed == ~setting.overlap /\ ~setting.faults

\* The runners never ask an undisturbed device for something that it refuses:
\* when an app is installed its dependencies are on the device, and when it is
\* uninstalled no app on the device needs it.  Needs apps that are outdated
\* whenever one of their dependencies is.
NeverRefused ==
  Undisturbed /\ ~setting.mixed /\ state.currentAppOp # NoOp
    => Accepted(state.currentAppOp)

\* When the queues have run, an undisturbed device holds what the user asked
\* for, and the list of installed apps is what he asked for and what was predicted
\* from the queues when he acted last.  An operation that runs meanwhile is not
\* part of the prediction, and neither are failures.
GoalReached ==
  Undisturbed /\ ~setting.mixed /\ Idle =>
    /\ Installed(state) = goal.names
    /\ Installed(state) = predicted
    /\ device \cap Listed = goal.names \cap Listed
    /\ goal.fresh \cap state.outdated = {}

\* "any other error stops everything": after an error the hook runs nothing until
\* the user acts again, whatever he did meanwhile.
HookStops == setting.hook /\ state.currentError => state.currentAppOp = NoOp

\* updateAllQueue, which the list of the updates is taken from, is empty
\* when nothing is left to run: no update is shown as in progress for ever.
UpdateAllEnds == Idle => state.updateAllQueue = <<>>

\* Whatever fails and whatever the user does, the runner empties the queues.
PlansEnd == []<>Idle

=============================================================================
