------------------------------- MODULE MCConfdRpc ------------------------------
(* ConfdRpc for TLC: one key, values of two types.                           *)
EXTENDS ConfdRpc, TLC

CONSTANTS c1, c2, t1, t2, k1, int, more, str

\* Two threads of one process; two processes of one thread.
OneProcess == [t \in Threads |-> c1]
TwoProcesses == (t1 :> c1) @@ (t2 :> c2)

MCTypeOf == (int :> "Integer") @@ (more :> "Integer") @@ (str :> "String")
================================================================================
