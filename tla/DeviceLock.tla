----------------------------- MODULE DeviceLock -----------------------------
(***************************************************************************)
(* What withDevice (src/hw/deviceAccess.ts) promises to its callers,       *)
(* whatever the transport does: each device is a first-come first-served   *)
(* lock.  A session asks for its device once, holds it after every session *)
(* that asked earlier has given it back, and gives it back once.           *)
(***************************************************************************)
CONSTANTS
  Sessions,   \* the subscriptions to withDevice(deviceId)(job)
  Device      \* Device[s]: the device that session s asks for

VARIABLES
  stage,      \* "out", then "waiting", "holding" and "back"
  ahead       \* ahead[s]: the sessions that asked for s's device before s

vars == <<stage, ahead>>

Init ==
  /\ stage = [s \in Sessions |-> "out"]
  /\ ahead = [s \in Sessions |-> {}]

\* A session joins the queue of its device, behind whoever is in it.
Ask(s) ==
  /\ stage[s] = "out"
  /\ stage' = [stage EXCEPT ![s] = "waiting"]
  /\ ahead' = [ahead EXCEPT ![s] =
       {t \in Sessions : Device[t] = Device[s] /\ stage[t] # "out"}]

\* The device is granted once everybody ahead has given it back.
Grant(s) ==
  /\ stage[s] = "waiting"
  /\ \A t \in ahead[s] : stage[t] = "back"
  /\ stage' = [stage EXCEPT ![s] = "holding"]
  /\ UNCHANGED ahead

GiveBack(s) ==
  /\ stage[s] = "holding"
  /\ stage' = [stage EXCEPT ![s] = "back"]
  /\ UNCHANGED ahead

Next == \E s \in Sessions : Ask(s) \/ Grant(s) \/ GiveBack(s)

Spec == Init /\ [][Next]_vars
=============================================================================
