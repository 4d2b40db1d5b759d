--------------------------- MODULE MCDeviceAccess ---------------------------
(***************************************************************************)
(* An instance of DeviceAccess: two callers and a poll on one device, and  *)
(* a caller on another device.                                             *)
(***************************************************************************)
EXTENDS DeviceAccess

CONSTANTS s1, s2, s3, r1, d1, d2

MCSessions == {s1, s2, s3, r1}

MCDevices == {d1, d2}

\* s3 is alone on d2; r1 is the poll after a failure of s1.
MCDevice == [s \in MCSessions |-> IF s = s3 THEN d2 ELSE d1]

MCRetryOf == [s \in MCSessions |-> IF s = r1 THEN s1 ELSE NoSession]

\* Each device has its own transport id.
MCDistinctIds == [d \in MCDevices |-> d]

\* The job of s1 may throw, and the connection priority of s1 or s2 be rejected.
MCThrowing == {s1}

MCRejected == {s1, s2}
=============================================================================
