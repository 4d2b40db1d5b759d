--------------------------- MODULE MCDeviceSocket ---------------------------
(***************************************************************************)
(* Three exchanges and bulks of at most two APDUs, so that a timer of one  *)
(* exchange meets another, and a bulk is cut in its middle.                *)
(***************************************************************************)
EXTENDS DeviceSocket
=============================================================================
