----------------------------- MODULE MCConfdDaemon -----------------------------
(* ConfdDaemon for TLC: two clients.                                          *)
EXTENDS ConfdDaemon
CONSTANTS c1, c2
================================================================================
