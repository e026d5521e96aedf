-------------------------- MODULE MCSidecarBridge --------------------------
(* Small instances of SidecarBridge for TLC.                               *)
EXTENDS SidecarBridge

CONSTANTS c1, c2, c3

MCCommands      == {c1, c2, c3}
MCEventCommands == {c1, c2}
=============================================================================
