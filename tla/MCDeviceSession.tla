-------------------------- MODULE MCDeviceSession ---------------------------
(* Two BLE sessions and two lines over each transport, of every kind, with *)
(* buffers small enough to overflow.                                       *)
EXTENDS DeviceSession

MCKinds == {"hello", "cmd", "state"}
=============================================================================
