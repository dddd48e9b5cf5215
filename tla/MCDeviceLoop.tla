---------------------------- MODULE MCDeviceLoop ----------------------------
(* DeviceLoop on small instances. *)
EXTENDS DeviceLoop
=============================================================================
