--------------------------- MODULE MCDaemonProcess ---------------------------
(* Small instances of DaemonProcess for TLC. *)
EXTENDS DaemonProcess, TLC

CONSTANTS d1, d2, d3, c1

ThreeDaemons == {d1, d2, d3}
OneClient == {c1}
=============================================================================
