-------------------------------- MODULE KVStore --------------------------------
(***************************************************************************)
(* What the daemon's data store promises: a map from property keys to      *)
(* values in which every write is one atomic, durable step.  A call either *)
(* takes effect and succeeds, or fails and leaves the map alone; a crash   *)
(* forgets the call under way and keeps the map.  Module DataStore, which  *)
(* has the SQL statements of the program, implements it.                   *)
(***************************************************************************)
EXTENDS PropertyTypes

VARIABLES
    store,      \* [Names -> StoredValues]
    phase,      \* "down", "idle" or "busy"
    req,        \* the latest call
    resp        \* the outcome of the latest call

kvVars == <<store, phase, req, resp>>

Stored(v) ==
    IF TypeForValue(v) = "Null" THEN NullValue
    ELSE [type |-> TypeForValue(v), data |-> v.data]

\* May a key whose value is old be set to v?  A type changes only by way of
\* null, and only an existing key can be given "no value".
MayReplace(old, v) ==
    \/ old = Absent /\ v.kind # "monostate"
    \/ old = NullValue
    \/ v.kind = "nullptr"
    \/ old.type = TypeForValue(v)

--------------------------------------------------------------------------------
KVInit ==
    /\ store = [n \in Names |-> Absent]
    /\ phase = "down"
    /\ req = NoRequest
    /\ resp = Pending

Open ==
    /\ phase = "down"
    /\ phase' = "idle"
    /\ UNCHANGED <<store, req, resp>>

Invoke ==
    /\ phase = "idle"
    /\ phase' = "busy"
    /\ req' \in Requests
    /\ resp' = Pending
    /\ UNCHANGED store

Return(r) ==
    /\ phase = "busy"
    /\ phase' = "idle"
    /\ resp' = r
    /\ UNCHANGED req

Set ==
    /\ req.op = "set"
    /\ req.name # EmptyName
    /\ MayReplace(store[req.name], req.value)
    /\ store' = [store EXCEPT ![req.name] = Stored(req.value)]
    /\ Return(Done(Absent))

Get ==
    /\ req.op = "get"
    /\ Return(Done(store[req.name]))
    /\ UNCHANGED store

Delete ==
    /\ req.op = "delete"
    /\ \A k \in Below[req.name] : store[k] = Absent
    /\ store' = [store EXCEPT ![req.name] = Absent]
    /\ Return(Done(Absent))

DeleteSubkeys ==
    /\ req.op = "deleteSubkeys"
    /\ store' = [n \in Names |-> IF n \in Below[req.name] THEN Absent ELSE store[n]]
    /\ Return(Done(Absent))

\* A refused call, or one that met an I/O error.
Fail == Return(Failed) /\ UNCHANGED store

Crash ==
    /\ phase # "down"
    /\ phase' = "down"
    /\ req' = NoRequest
    /\ resp' = Pending
    /\ UNCHANGED store

KVNext == Open \/ Invoke \/ Set \/ Get \/ Delete \/ DeleteSubkeys \/ Fail \/ Crash

KVSpec == KVInit /\ [][KVNext]_kvVars
================================================================================
