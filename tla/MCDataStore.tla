------------------------------ MODULE MCDataStore ------------------------------
(* DataStore for TLC: one key below another, values of three types.        *)
EXTENDS DataStore

CONSTANTS k1, k2, d1, d2

MCInputs == {[kind |-> "string", data |-> d1], [kind |-> "string", data |-> d2],
             [kind |-> "bool", data |-> d1],
             [kind |-> "nullptr", data |-> NoData],
             [kind |-> "monostate", data |-> NoData]}

\* k2 is "k1.x"
MCBelow == [n \in Names |-> IF n = k1 THEN {k2} ELSE {}]
================================================================================
