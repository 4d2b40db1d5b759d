---------------------------- MODULE DeviceSocket ----------------------------
(***************************************************************************)
(* createDeviceSocket of api/socket.ts: a server and a device talk through *)
(* a web socket and a transport.  Network, device, server, timer and       *)
(* subscriber act in any order, and the first of them that ends it wins.   *)
(*                                                                         *)
(* The server waits for the answer to an exchange before it asks for the   *)
(* next one, but may end at any time.  Warnings change nothing.            *)
(***************************************************************************)
EXTENDS Integers

CONSTANTS
  Rounds,   \* bound on the exchanges
  BulkSize  \* bound on the APDUs of a bulk

ASSUME SocketAssumption == Rounds \in Nat /\ BulkSize \in Nat

VARIABLES
  ws,
  ended,    \* how: "no", "complete", "error" or "unsubscribed"
  deviceError, correctlyFinished, inBulk,
  unresponsiveExpectedDuringBulk,
  timeoutForAllowManager,   \* "null", "runs", and "set" once it has fired
  handler,  \* what the message that is handled waits for from the device
  left,     \* APDUs of the bulk
  device,   \* "idle", "busy" or "gone"
  told,     \* the last that the user was told of the permission
  flush,    \* whether cancelDeviceAction was called
  server,   \* whether it is its turn
  rounds

socket == <<ended, ws, flush>>
flags == <<deviceError, correctlyFinished, inBulk, unresponsiveExpectedDuringBulk>>
socketVars == <<socket, flags, timeoutForAllowManager, handler, left, device, told, server, rounds>>

SocketInit ==
  /\ ws = "connecting"
  /\ ended = "no"
  /\ deviceError = FALSE
  /\ correctlyFinished = FALSE
  /\ inBulk = FALSE
  /\ unresponsiveExpectedDuringBulk \in BOOLEAN
  /\ timeoutForAllowManager = "null"
  /\ handler = "none"
  /\ left = 0
  /\ device = "idle"
  /\ told = "nothing"
  /\ flush = FALSE
  /\ server = "asks"
  /\ rounds = 0

unsubscribed == ended # "no"

\* The observable ends and is torn down; a second end changes nothing.
End(how) ==
  IF unsubscribed THEN UNCHANGED socket
  ELSE /\ ended' = how
       /\ flush' = (inBulk' /\ ~correctlyFinished' /\ ~deviceError')
       /\ ws' = IF ws = "open" THEN "closing" ELSE ws

(***************************************************************************)
(* The network.                                                            *)
(***************************************************************************)

Opens ==
  /\ ws = "connecting"
  /\ ws' = "open"
  /\ UNCHANGED <<ended, flush, flags, timeoutForAllowManager, handler, left, device, told,
                 server, rounds>>

\* onclose, and onerror, which comes with it.
Closes(fails) ==
  /\ ws \in {"connecting", "open", "closing"}
  /\ ws = "connecting" => fails
  /\ ws' = "closed"
  /\ IF inBulk \/ unsubscribed THEN UNCHANGED <<ended, flush>>
     ELSE /\ ended' = IF correctlyFinished /\ ~fails THEN "complete" ELSE "error"
          /\ flush' = FALSE
  /\ UNCHANGED <<flags, timeoutForAllowManager, handler, left, device, told, server, rounds>>

(***************************************************************************)
(* The messages of the server.                                             *)
(***************************************************************************)

Message == ws = "open" /\ ~unsubscribed

\* An APDU for the device, which asks the user for a permission if it is e051.
Exchange(manager) ==
  /\ Message
  /\ server = "asks" /\ handler = "none" /\ device = "idle"
  /\ rounds < Rounds
  /\ rounds' = rounds + 1
  /\ server' = "waits"
  /\ handler' = IF manager THEN "manager" ELSE "exchange"
  /\ timeoutForAllowManager' = IF manager THEN "runs" ELSE timeoutForAllowManager
  /\ device' = "busy"
  /\ UNCHANGED <<socket, flags, left, told>>

AllowManagerFires ==
  /\ timeoutForAllowManager = "runs"
  /\ timeoutForAllowManager' = "set"
  /\ told' = IF unsubscribed THEN told ELSE "requested"
  /\ UNCHANGED <<socket, flags, handler, left, device, server, rounds>>

\* The socket is closed and the n APDUs are unrolled.
Bulk(n) ==
  /\ Message
  /\ server = "asks" /\ handler = "none" /\ device = "idle"
  /\ inBulk' = TRUE
  /\ left' = n
  /\ correctlyFinished' = (n = 0)
  /\ UNCHANGED <<deviceError, unresponsiveExpectedDuringBulk>>
  /\ IF n = 0
     THEN End("complete") /\ UNCHANGED <<handler, device>>
     ELSE /\ handler' = "bulk"
          /\ device' = "busy"
          /\ ws' = "closing"
          /\ UNCHANGED <<ended, flush>>
  /\ UNCHANGED <<timeoutForAllowManager, told, server, rounds>>

Success ==
  /\ Message
  /\ correctlyFinished' = TRUE
  /\ UNCHANGED <<deviceError, inBulk, unresponsiveExpectedDuringBulk>>
  /\ End("complete")
  /\ UNCHANGED <<timeoutForAllowManager, handler, left, device, told, server, rounds>>

\* The server reports an error, or what it says cannot be parsed.
ServerFails ==
  /\ Message
  /\ deviceError' = TRUE
  /\ UNCHANGED <<correctlyFinished, inBulk, unresponsiveExpectedDuringBulk>>
  /\ End("error")
  /\ UNCHANGED <<timeoutForAllowManager, handler, left, device, told, server, rounds>>

(***************************************************************************)
(* The device.                                                             *)
(***************************************************************************)

Idle == handler' = "none" /\ device' = "idle"

\* Mutant: the timer is left to run.
AnsweredKeepsTimer(status) ==
  /\ handler \in {"exchange", "manager"} /\ device = "busy"
  /\ Idle
  /\ UNCHANGED timeoutForAllowManager
  /\ UNCHANGED flags
  /\ IF unsubscribed THEN UNCHANGED <<socket, told, server>>
     ELSE IF timeoutForAllowManager = "set" /\ status = "denied"
     THEN told' = "refused" /\ End("error") /\ UNCHANGED server
     ELSE /\ told' = IF timeoutForAllowManager = "set" THEN "granted" ELSE told
          /\ server' = IF ws = "open" THEN "asks" ELSE server
          /\ UNCHANGED socket
  /\ UNCHANGED <<left, rounds>>

\* The answer to a single APDU goes to the server, unless the user refused.
Answered(status) ==
  /\ handler \in {"exchange", "manager"} /\ device = "busy"
  /\ Idle
  /\ timeoutForAllowManager' = "null"
  /\ UNCHANGED flags
  /\ IF unsubscribed THEN UNCHANGED <<socket, told, server>>
     ELSE IF timeoutForAllowManager = "set" /\ status = "denied"
     THEN told' = "refused" /\ End("error") /\ UNCHANGED server
     ELSE /\ told' = IF timeoutForAllowManager = "set" THEN "granted" ELSE told
          /\ server' = IF ws = "open" THEN "asks" ELSE server
          /\ UNCHANGED socket
  /\ UNCHANGED <<left, rounds>>

\* Mutant: the end is left to onclose.
AnsweredBulkWaits(status) ==
  /\ handler = "bulk" /\ device = "busy"
  /\ UNCHANGED <<inBulk, unresponsiveExpectedDuringBulk>>
  /\ IF unsubscribed
     THEN /\ Idle
          /\ UNCHANGED <<socket, deviceError, correctlyFinished, left>>
     ELSE IF status # "success"
     THEN /\ Idle
          /\ deviceError' = TRUE
          /\ UNCHANGED <<correctlyFinished, left>>
          /\ End("error")
     ELSE /\ left' = left - 1
          /\ correctlyFinished' = (left = 1)
          /\ UNCHANGED deviceError
          /\ IF left = 1 THEN Idle /\ UNCHANGED socket ELSE UNCHANGED <<socket, handler, device>>
  /\ UNCHANGED <<timeoutForAllowManager, told, server, rounds>>

\* The next APDU of a bulk, which any status but success ends.
AnsweredBulk(status) ==
  /\ handler = "bulk" /\ device = "busy"
  /\ UNCHANGED <<inBulk, unresponsiveExpectedDuringBulk>>
  /\ IF unsubscribed
     THEN /\ Idle
          /\ UNCHANGED <<socket, deviceError, correctlyFinished, left>>
     ELSE IF status # "success"
     THEN /\ Idle
          /\ deviceError' = TRUE
          /\ UNCHANGED <<correctlyFinished, left>>
          /\ End("error")
     ELSE /\ left' = left - 1
          /\ correctlyFinished' = (left = 1)
          /\ UNCHANGED deviceError
          /\ IF left = 1 THEN Idle /\ End("complete") ELSE UNCHANGED <<socket, handler, device>>
  /\ UNCHANGED <<timeoutForAllowManager, told, server, rounds>>

\* transport.exchange rejects.
ExchangeFails ==
  /\ handler # "none" /\ device # "idle"
  /\ handler' = "none"
  /\ device' = IF device = "busy" THEN "idle" ELSE device
  /\ deviceError' = TRUE
  /\ UNCHANGED <<correctlyFinished, inBulk, unresponsiveExpectedDuringBulk>>
  /\ End("error")
  /\ UNCHANGED <<timeoutForAllowManager, left, told, server, rounds>>

\* What is in flight rejects behind the event.
onDisconnect ==
  /\ device # "gone"
  /\ device' = "gone"
  /\ deviceError' = (deviceError \/ ~unsubscribed)
  /\ UNCHANGED <<correctlyFinished, inBulk, unresponsiveExpectedDuringBulk>>
  /\ End("error")
  /\ UNCHANGED <<timeoutForAllowManager, handler, left, told, server, rounds>>

\* Mutant: taken for an error of the device.
UnresponsiveIsError ==
  /\ device = "busy"
  /\ ~unsubscribed
  /\ ~(inBulk /\ unresponsiveExpectedDuringBulk)
  /\ timeoutForAllowManager = "null"
  /\ deviceError' = TRUE
  /\ UNCHANGED <<correctlyFinished, inBulk, unresponsiveExpectedDuringBulk>>
  /\ End("error")
  /\ UNCHANGED <<timeoutForAllowManager, handler, left, device, told, server, rounds>>

onUnresponsiveDevice ==
  /\ device = "busy"
  /\ ~unsubscribed
  /\ ~(inBulk /\ unresponsiveExpectedDuringBulk)
  /\ timeoutForAllowManager = "null"
  /\ UNCHANGED flags
  /\ End("error")
  /\ UNCHANGED <<timeoutForAllowManager, handler, left, device, told, server, rounds>>

SubscriberLeaves ==
  /\ ~unsubscribed
  /\ UNCHANGED flags
  /\ End("unsubscribed")
  /\ UNCHANGED <<timeoutForAllowManager, handler, left, device, told, server, rounds>>

Statuses == {"success", "denied", "failure"}

Network == Opens \/ \E fails \in BOOLEAN : Closes(fails)
Server ==
  \/ \E manager \in BOOLEAN : Exchange(manager)
  \/ \E n \in 0 .. BulkSize : Bulk(n)
  \/ Success \/ ServerFails
Device ==
  (\E status \in Statuses : Answered(status) \/ AnsweredBulk(status)) \/ ExchangeFails

SocketNext ==
  \/ Network \/ Server \/ Device
  \/ AllowManagerFires \/ onDisconnect \/ onUnresponsiveDevice \/ SubscriberLeaves

\* The device answers or the transport gives up, a socket opens or fails, and a server that
\* has its turn says something or closes.
SocketFairness ==
  /\ WF_socketVars(Device)
  /\ WF_socketVars(ws = "connecting" /\ Network)
  /\ WF_socketVars(server = "asks" /\ (Server \/ Closes(FALSE)))

SocketSpec == SocketInit /\ [][SocketNext]_socketVars
FairSocketSpec == SocketSpec /\ SocketFairness

(***************************************************************************)
(* Properties.                                                             *)
(***************************************************************************)

\* A bulk that ends while the device works on one of its APDUs, whoever ends it, leaves a
\* device that is flushed before its next job.
InterruptedIsFlushed == unsubscribed /\ handler = "bulk" /\ device = "busy" => flush

\* The user is asked only while the device waits for him: a timer that outlives its exchange
\* tells nothing, and does not hide a device that is locked later.
PermissionAnswered ==
  ~unsubscribed /\ handler # "manager" => told # "requested" /\ timeoutForAllowManager = "null"

\* It ends, with or without the network, and a bulk by itself.
SocketEnds == <>unsubscribed
=============================================================================
