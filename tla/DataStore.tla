------------------------------- MODULE DataStore -------------------------------
(***************************************************************************)
(* class DataStore of the configuration daemon (src/daemon/DataStore.cpp): *)
(* a SQLite database in which a property is one row of PropertyKeys and,   *)
(* unless its type is null, one row of the value table of its type.        *)
(*                                                                         *)
(* One action is one SQL statement, so that an I/O error, a full disk or a *)
(* power loss can fall between any two statements of an operation.  SQLite *)
(* itself is external: statements act on the connection's view of the      *)
(* database, COMMIT makes that view the durable one in a single step, and  *)
(* without a transaction a statement commits by itself.                    *)
(***************************************************************************)
EXTENDS Integers, PropertyTypes

CONSTANTS
    MaxId,      \* greatest row id the AUTOINCREMENT sequence of a run reaches
    IdMod,      \* 2^32: row ids are held in a uint32_t
    MaxTime     \* bound on the clock behind strftime('%s','now')

ASSUME MaxIdAssumption == MaxId \in Nat \ {0}
ASSUME IdModAssumption == IdMod \in Nat /\ MaxId < IdMod
ASSUME MaxTimeAssumption == MaxTime \in Nat

VARIABLES
    disk,       \* the committed database
    work,       \* the connection's view of it
    txn,        \* is a transaction open?
    pc,         \* the statement to run next
    req,        \* the call under way: its operation and arguments
    cur,        \* locals keyId and oldValueType of that call
    resp,       \* its outcome
    faulted,    \* did a statement of this call meet an I/O error?
    now,        \* the clock
    began       \* history: the time at which the call under way began

vars == <<disk, work, txn, pc, req, cur, resp, faulted, now, began>>

--------------------------------------------------------------------------------
(* The database: tables, rows and the statements that change them.         *)

Ids == 1 .. MaxId
Times == 0 .. MaxTime

NoRow == [name |-> EmptyName, type |-> "Null", createdAt |-> -1, updatedAt |-> -1]
Rows == [name : Keys, type : Types, createdAt : Times, updatedAt : Times]

\* initSchema runs SchemaSteps statements before the one that inserts the
\* schema.version row: three of DDL and two of metadata.
SchemaSteps == 5
CurrentSchemaVersion == 1

Databases ==
    [made : 0 .. SchemaSteps,       \* statements of initSchema in effect
     version : 0 .. 2,              \* schema.version, 0 when there is no row
     seq : 0 .. MaxId,              \* AUTOINCREMENT sequence of PropertyKeys
     keys : [Ids -> Rows \cup {NoRow}],
     vals : [ValueTypes -> [Ids -> Data \cup {NoData}]]]

EmptyDb ==
    [made |-> 0, version |-> 0, seq |-> 0,
     keys |-> [i \in Ids |-> NoRow],
     vals |-> [t \in ValueTypes |-> [i \in Ids |-> NoData]]]

\* A database that a later release of the daemon created.
NewerDb == [EmptyDb EXCEPT !.made = SchemaSteps, !.version = CurrentSchemaVersion + 1]

IsKey(d, i) == d.keys[i] # NoRow
KeysNamed(d, n) == {i \in Ids : IsKey(d, i) /\ d.keys[i].name = n}

\* const uint32_t keyId = stmtInfo.getColumn("id")
Narrow(id) == id % IdMod

\* INSERT INTO PropertyKeys: the next id, and both stamps by default
KeyUnstamped(d, n, t, at) ==
    [d EXCEPT !.seq = d.seq + 1,
              !.keys = [d.keys EXCEPT ![d.seq + 1] =
                           [name |-> n, type |-> t, createdAt |-> -1, updatedAt |-> at]]]
KeyInserted(d, n, t, at) ==
    [d EXCEPT !.seq = d.seq + 1,
              !.keys = [d.keys EXCEPT ![d.seq + 1] =
                           [name |-> n, type |-> t, createdAt |-> at, updatedAt |-> at]]]

\* UPDATE PropertyKeys SET valueType
TypeKept(d, i, t) == d
Retyped(d, i, t) ==
    [d EXCEPT !.keys = [d.keys EXCEPT ![i] = [d.keys[i] EXCEPT !.type = t]]]

\* UPDATE PropertyKeys SET updatedAt
NotStamped(d, i, at) == d
Stamped(d, i, at) ==
    [d EXCEPT !.keys = [d.keys EXCEPT ![i] = [d.keys[i] EXCEPT !.updatedAt = at]]]

\* INSERT INTO PropertyValues<t>, with or without ON CONFLICT DO UPDATE
ValueDropped(d, t, i, x) == d
ValueWritten(d, t, i, x) == [d EXCEPT !.vals = [d.vals EXCEPT ![t][i] = x]]

\* DELETE FROM PropertyValues<t>
ValueKept(d, t, i) == d
ValueDeleted(d, t, i) == [d EXCEPT !.vals = [d.vals EXCEPT ![t][i] = NoData]]

\* DELETE FROM PropertyKeys; ON DELETE CASCADE takes the value rows along
KeysDeleted(d, ids) ==
    [d EXCEPT !.keys = [i \in Ids |-> IF i \in ids THEN NoRow ELSE d.keys[i]],
              !.vals = [t \in ValueTypes |->
                           [i \in Ids |-> IF i \in ids THEN NoData ELSE d.vals[t][i]]]]

--------------------------------------------------------------------------------
(* Control.                                                                *)

Down == {"down", "open", "init", "version"}
PCs == Down \cup
    {"idle", "getInfo", "getValue", "setInfo", "insertKey", "insertValue",
     "updateType", "deleteOld", "upsert", "stamp", "commit",
     "deleteKey", "deleteSubkeys"}

NoCur == [id |-> 0, type |-> "Null"]

Init ==
    /\ disk \in {EmptyDb, NewerDb}
    /\ work = disk
    /\ txn = FALSE
    /\ pc = "down"
    /\ req = NoRequest
    /\ cur = NoCur
    /\ resp = Pending
    /\ faulted = FALSE
    /\ now = 0
    /\ began = 0

\* A statement turned the view into d; outside a transaction that is durable.
Apply(d) ==
    /\ work' = d
    /\ disk' = IF txn THEN disk ELSE d

\* BEGIN: the SQLite::Transaction object of the operation is constructed.
NoTransaction == UNCHANGED <<txn, disk, work>>
Begin == txn' = TRUE /\ UNCHANGED <<disk, work>>

\* COMMIT: txn.commit()
Commit ==
    /\ disk' = work
    /\ txn' = FALSE
    /\ UNCHANGED work

\* ROLLBACK: the Transaction's destructor, run while an exception unwinds or
\* by SQLite when it finds the journal of a process that died.
Rollback ==
    /\ work' = disk
    /\ txn' = FALSE
    /\ UNCHANGED disk

Goto(l) == pc' = l /\ UNCHANGED <<req, resp, faulted, now, began>>

\* The operation returns to its caller.
Return(r) == pc' = "idle" /\ resp' = r /\ UNCHANGED <<req, faulted, now, began>>

\* The operation throws.
Throw == Rollback /\ Return(Failed) /\ UNCHANGED cur

--------------------------------------------------------------------------------
(* DataStore::DataStore and initSchema.                                    *)

\* The daemon starts; Database and the foreign_keys pragma.
Start ==
    /\ pc = "down"
    /\ Goto("open")
    /\ UNCHANGED <<disk, work, txn, cur>>

\* tableExists(MetaInfo); an empty database gets a schema, in a transaction.
OpenDatabase ==
    /\ pc = "open"
    /\ \/ work.made = 0 /\ Goto("init") /\ Begin
       \/ work.made > 0 /\ Goto("version") /\ UNCHANGED <<disk, work, txn>>
    /\ UNCHANGED cur

InitSchema ==
    /\ pc = "init"
    /\ \/ /\ work.made < SchemaSteps
          /\ Apply([work EXCEPT !.made = @ + 1])
          /\ Goto("init")
          /\ UNCHANGED txn
       \/ /\ work.made = SchemaSteps
          /\ work.version = 0
          /\ Apply([work EXCEPT !.version = CurrentSchemaVersion])
          /\ Goto("init")
          /\ UNCHANGED txn
       \/ /\ work.version # 0
          /\ Commit
          /\ Goto("version")
    /\ UNCHANGED cur

\* getMetaValue("schema.version") and the checks on it.  A constructor that
\* throws ends the process: main() returns 1.
CheckPresence ==
    /\ pc = "version"
    /\ IF work.version # 0 THEN Goto("idle") ELSE Goto("down")
    /\ UNCHANGED <<disk, work, txn, cur>>
CheckVersion ==
    /\ pc = "version"
    /\ IF work.version \in 1 .. CurrentSchemaVersion THEN Goto("idle") ELSE Goto("down")
    /\ UNCHANGED <<disk, work, txn, cur>>

--------------------------------------------------------------------------------
(* getKey, setKey, insertKey and updateKey.                                *)

\* A caller, the RPC server's event loop, invokes an operation.
Invoke ==
    /\ pc = "idle"
    /\ \E r \in Requests :
          /\ req' = r
          /\ pc' = CASE r.op = "get" -> "getInfo"
                     [] r.op = "set" -> "setInfo"
                     [] r.op = "delete" -> "deleteKey"
                     [] r.op = "deleteSubkeys" -> "deleteSubkeys"
    /\ cur' = NoCur
    /\ resp' = Pending
    /\ faulted' = FALSE
    /\ began' = now
    /\ UNCHANGED <<disk, work, txn, now>>

GetInfo ==
    /\ pc = "getInfo"
    /\ \/ /\ KeysNamed(work, req.name) = {}
          /\ Return(Done(Absent))
          /\ UNCHANGED cur
       \/ \E i \in KeysNamed(work, req.name) :
             \/ /\ work.keys[i].type = "Null"
                /\ Return(Done(NullValue))
                /\ UNCHANGED cur
             \/ /\ work.keys[i].type # "Null"
                /\ cur' = [id |-> Narrow(i), type |-> work.keys[i].type]
                /\ Goto("getValue")
    /\ UNCHANGED <<disk, work, txn>>

HasValue(d, t, i) == i \in Ids /\ d.vals[t][i] # NoData

\* "property ... has no value!" when the value table has no row for the id
GetValue ==
    /\ pc = "getValue"
    /\ \/ /\ HasValue(work, cur.type, cur.id)
          /\ Return(Done([type |-> cur.type, data |-> work.vals[cur.type][cur.id]]))
          /\ UNCHANGED <<disk, work, txn, cur>>
       \/ ~HasValue(work, cur.type, cur.id) /\ Throw

\* Which updates setKey lets through.
SameTypeOnly(old, v) == old = "Null" \/ old = TypeForValue(v)
AnyType(old, v) == TRUE
UpdateAllowed(old, v) ==
    \/ old = "Null"
    \/ v.kind = "nullptr"
    \/ old = TypeForValue(v)

\* setKey looks the key up and calls insertKey or updateKey, which validate
\* and open their transaction, or throws.
SetInfo ==
    /\ pc = "setInfo"
    /\ \/ /\ KeysNamed(work, req.name) = {}
          /\ \/ /\ req.name # EmptyName
                /\ req.value.kind # "monostate"
                /\ Begin
                /\ Goto("insertKey")
                /\ UNCHANGED cur
             \/ (req.name = EmptyName \/ req.value.kind = "monostate") /\ Throw
       \/ \E i \in KeysNamed(work, req.name) :
             \/ /\ UpdateAllowed(work.keys[i].type, req.value)
                /\ cur' = [id |-> Narrow(i), type |-> work.keys[i].type]
                /\ Begin
                /\ Goto(IF work.keys[i].type # TypeForValue(req.value)
                          THEN "updateType"
                        ELSE IF TypeForValue(req.value) # "Null" THEN "upsert"
                        ELSE "stamp")
             \/ ~UpdateAllowed(work.keys[i].type, req.value) /\ Throw

\* insertKey: the row of PropertyKeys.  The statement fails when the name is
\* taken (unique index) or the sequence is exhausted.
InsertKey ==
    /\ pc = "insertKey"
    /\ \/ /\ work.seq < MaxId
          /\ KeysNamed(work, req.name) = {}
          /\ Apply(KeyInserted(work, req.name, TypeForValue(req.value), now))
          /\ cur' = [id |-> work.seq + 1, type |-> TypeForValue(req.value)]
          /\ Goto(IF TypeForValue(req.value) = "Null" THEN "commit" ELSE "insertValue")
          /\ UNCHANGED txn
       \/ (work.seq = MaxId \/ KeysNamed(work, req.name) # {}) /\ Throw

\* insertKey: the row of the value table (unique index, foreign key).
InsertValue ==
    /\ pc = "insertValue"
    /\ \/ /\ IsKey(work, cur.id)
          /\ ~HasValue(work, cur.type, cur.id)
          /\ Apply(ValueWritten(work, cur.type, cur.id, req.value.data))
          /\ Goto("commit")
          /\ UNCHANGED <<txn, cur>>
       \/ (~IsKey(work, cur.id) \/ HasValue(work, cur.type, cur.id)) /\ Throw

RowExists(d, i) == i \in Ids /\ IsKey(d, i)

\* updateKey: UPDATE ... SET valueType; no row affected is an error
UpdateType ==
    /\ pc = "updateType"
    /\ \/ /\ RowExists(work, cur.id)
          /\ Apply(Retyped(work, cur.id, TypeForValue(req.value)))
          /\ Goto("deleteOld")
          /\ UNCHANGED <<txn, cur>>
       \/ ~RowExists(work, cur.id) /\ Throw

\* updateKey: DELETE FROM the old type's value table.  Type null has none:
\* ValueTableName is "", SQLite rejects the statement, and updateKey throws.
DeleteOld ==
    /\ pc = "deleteOld"
    /\ \/ /\ cur.type \in ValueTypes
          /\ Apply(ValueDeleted(work, cur.type, cur.id))
          /\ Goto(IF TypeForValue(req.value) # "Null" THEN "upsert" ELSE "stamp")
          /\ UNCHANGED <<txn, cur>>
       \/ cur.type \notin ValueTypes /\ Throw

\* updateKey: INSERT ... ON CONFLICT DO UPDATE (foreign key on PropertyKeys)
Upsert ==
    /\ pc = "upsert"
    /\ \/ /\ RowExists(work, cur.id)
          /\ Apply(ValueWritten(work, TypeForValue(req.value), cur.id, req.value.data))
          /\ Goto("stamp")
          /\ UNCHANGED <<txn, cur>>
       \/ ~RowExists(work, cur.id) /\ Throw

\* updateKeyTimestamp
UpdateKeyTimestamp ==
    /\ pc = "stamp"
    /\ \/ /\ RowExists(work, cur.id)
          /\ Apply(Stamped(work, cur.id, now))
          /\ Goto("commit")
          /\ UNCHANGED <<txn, cur>>
       \/ ~RowExists(work, cur.id) /\ Throw

CommitForgotten == pc = "commit" /\ Rollback /\ Return(Done(Absent)) /\ UNCHANGED cur
CommitSet ==
    /\ pc = "commit"
    /\ Commit
    /\ Return(Done(Absent))
    /\ UNCHANGED cur

--------------------------------------------------------------------------------
(* deleteKey and deleteSubkeys.                                            *)

\* hasChildren binds :keyPrefix in a statement whose parameter is :keyName;
\* the bind throws, before any row is looked at.
DeleteKey == pc = "deleteKey" /\ Throw

DeleteSubkeys ==
    /\ pc = "deleteSubkeys"
    /\ Apply(KeysDeleted(work, {i \in Ids : IsKey(work, i)
                                   /\ work.keys[i].name \in Below[req.name]}))
    /\ Return(Done(Absent))
    /\ UNCHANGED <<txn, cur>>

--------------------------------------------------------------------------------
(* Environment.                                                            *)

\* Any statement can fail; SQLiteCpp throws.
Fault ==
    /\ pc \notin {"down", "idle"}
    /\ Rollback
    /\ UNCHANGED <<req, cur, now, began>>
    /\ IF pc \in Down
         THEN pc' = "down" /\ UNCHANGED <<resp, faulted>>
         ELSE pc' = "idle" /\ resp' = Failed /\ faulted' = TRUE

\* Power loss, a crash or a kill at any point.
Crash ==
    /\ pc # "down"
    /\ Rollback
    /\ pc' = "down"
    /\ req' = NoRequest
    /\ cur' = NoCur
    /\ resp' = Pending
    /\ faulted' = FALSE
    /\ UNCHANGED <<now, began>>

Tick ==
    /\ now < MaxTime
    /\ now' = now + 1
    /\ UNCHANGED <<disk, work, txn, pc, req, cur, resp, faulted, began>>

Next ==
    \/ Start \/ OpenDatabase \/ InitSchema \/ CheckVersion
    \/ Invoke
    \/ GetInfo \/ GetValue
    \/ SetInfo \/ InsertKey \/ InsertValue
    \/ UpdateType \/ DeleteOld \/ Upsert \/ UpdateKeyTimestamp \/ CommitSet
    \/ DeleteKey \/ DeleteSubkeys
    \/ Fault \/ Crash \/ Tick

Spec == Init /\ [][Next]_vars

--------------------------------------------------------------------------------
(* Correctness.                                                            *)

\* Every variable holds a value of its type.
TypeOK ==
    /\ disk \in Databases
    /\ work \in Databases
    /\ txn \in BOOLEAN
    /\ pc \in PCs
    /\ req \in Requests \cup {NoRequest}
    /\ cur \in [id : 0 .. MaxId, type : Types]
    /\ resp \in Responses
    /\ faulted \in BOOLEAN
    /\ now \in Times
    /\ began \in Times

NamesUnique(d) ==
    \A i, j \in Ids : IsKey(d, i) /\ IsKey(d, j) /\ d.keys[i].name = d.keys[j].name => i = j

ValuesMatchTypes(d) ==
    \A i \in Ids, t \in ValueTypes :
        (d.vals[t][i] # NoData) <=> (IsKey(d, i) /\ d.keys[i].type = t)

IdsAllocated(d) == \A i \in Ids : IsKey(d, i) => i <= d.seq

\* Whatever statement of an operation fails or is cut off by a crash, the
\* committed database gives every key exactly one value row, in the table of
\* its type (none if it is null), and holds no row of a key that is gone:
\* getKey can never throw "has no value!" (DataStore.cpp, updateKey).
RowsConsistent == NamesUnique(disk) /\ ValuesMatchTypes(disk) /\ IdsAllocated(disk)

\* A crash while initSchema runs leaves an empty file or a complete schema:
\* the daemon never meets a MetaInfo table without its schema.version row,
\* which would keep it from starting ever again (DataStore.cpp, initSchema).
SchemaAtomic ==
    \/ disk.made = 0 /\ disk.version = 0
    \/ disk.made = SchemaSteps /\ disk.version # 0

\* A database of a newer release is never written to (the version check of
\* the constructor comes before any operation).
NewerSchemaUntouched == disk.version > CurrentSchemaVersion => disk = NewerDb

\* getKey fails only when SQLite does: the errors for missing value rows and
\* unknown types are unreachable.
ReadsFailOnlyOnFault == req.op = "get" /\ resp = Failed => faulted

--------------------------------------------------------------------------------
(* The inductive invariant behind RowsConsistent, SchemaAtomic,            *)
(* NewerSchemaUntouched and ReadsFailOnlyOnFault.                          *)

Transactional ==
    {"init", "insertKey", "insertValue", "updateType", "deleteOld", "upsert",
     "stamp", "commit"}

\* Outside a transaction the connection sees what is committed.
TxnInv ==
    /\ txn <=> pc \in Transactional
    /\ ~txn => work = disk

\* Where the schema stands; an operation runs on a complete, current one.
SchemaInv ==
    /\ SchemaAtomic
    /\ disk.version = 0 => disk = EmptyDb
    /\ NewerSchemaUntouched
    /\ pc = "init" =>
          /\ disk = EmptyDb
          /\ work.keys = disk.keys /\ work.vals = disk.vals /\ work.seq = disk.seq
          /\ work.version # 0 => work.version = CurrentSchemaVersion
                                   /\ work.made = SchemaSteps
    /\ pc = "version" => disk.version # 0
    /\ pc \notin Down =>
          /\ work.version = CurrentSchemaVersion /\ work.made = SchemaSteps
          /\ disk.version = CurrentSchemaVersion

\* Which operation runs, and that it has no outcome before it returns.
CallInv ==
    /\ pc # "idle" => resp = Pending
    /\ pc \in {"getInfo", "getValue"} => req.op = "get"
    /\ pc \in (Transactional \ {"init"}) \cup {"setInfo"} =>
          /\ req.op = "set"
          /\ req.value \in Inputs
    /\ pc = "deleteKey" => req.op = "delete"
    /\ pc = "deleteSubkeys" => req.op = "deleteSubkeys"
    /\ ReadsFailOnlyOnFault

ValuesMatchBut(d, x) ==
    \A i \in Ids \ {x}, t \in ValueTypes :
        (d.vals[t][i] # NoData) <=> (IsKey(d, i) /\ d.keys[i].type = t)

\* The row keyId names while its value is being moved: typed as the new value,
\* with its value rows still, or not yet, elsewhere.
MovingRow(rowType) ==
    /\ RowExists(work, cur.id)
    /\ work.keys[cur.id].type = rowType
    /\ ValuesMatchBut(work, cur.id)

\* What holds of the connection's view before each statement.
StepInv ==
    LET new == TypeForValue(req.value) IN
    /\ NamesUnique(work) /\ IdsAllocated(work)
    /\ pc = "getValue" => cur.type \in ValueTypes /\ HasValue(work, cur.type, cur.id)
    /\ pc = "insertKey" =>
          work = disk /\ req.name \in Keys /\ req.value.kind # "monostate"
    /\ pc = "insertValue" =>
          /\ MovingRow(new)
          /\ cur.type = new /\ new # "Null"
          /\ \A t \in ValueTypes : work.vals[t][cur.id] = NoData
    /\ pc = "updateType" =>
          work = disk /\ MovingRow(cur.type) /\ cur.type # new
    /\ pc = "deleteOld" =>
          /\ MovingRow(new)
          /\ cur.type # new
          /\ \A t \in ValueTypes : work.vals[t][cur.id] # NoData <=> t = cur.type
    /\ pc = "upsert" =>
          /\ MovingRow(new)
          /\ new # "Null"
          /\ \A t \in ValueTypes \ {new} : work.vals[t][cur.id] = NoData
    /\ pc = "stamp" => RowExists(work, cur.id) /\ ValuesMatchTypes(work)
    /\ pc = "commit" => ValuesMatchTypes(work)

\* Between any two statements the committed rows are consistent and the
\* connection's view is at the point of its transaction that pc says
\* (insertKey and updateKey, statement by statement).
Inductive == TypeOK /\ RowsConsistent /\ TxnInv /\ SchemaInv /\ CallInv /\ StepInv

--------------------------------------------------------------------------------
(* The map the database stands for.                                        *)

View(d) ==
    [n \in Names |->
        IF KeysNamed(d, n) = {} THEN Absent
        ELSE LET i == CHOOSE i \in KeysNamed(d, n) : TRUE
             IN IF d.keys[i].type = "Null" THEN NullValue
                ELSE [type |-> d.keys[i].type, data |-> d.vals[d.keys[i].type][i]]]

SetRefused(old, v) ==
    \/ old = Absent /\ (v.kind = "monostate" \/ disk.seq = MaxId \/ req.name = EmptyName)
    \/ old.type \in ValueTypes /\ v.kind # "nullptr" /\ TypeForValue(v) # old.type

\* What the comments of setKey say of a failed call: a key whose value is
\* null takes a value of any type, one of another type takes null or a value
\* of its own type, and nothing else but an SQLite error refuses a set.
NullKeysTakeAnyValue ==
    req.op = "set" /\ resp = Failed /\ ~faulted
        => SetRefused(View(disk)[req.name], req.value)

\* The same with the refusal the code adds: a null key takes no typed value.
SetsFailOnlyWhenRefused ==
    req.op = "set" /\ resp = Failed /\ ~faulted
        => \/ SetRefused(View(disk)[req.name], req.value)
           \/ View(disk)[req.name] = NullValue /\ TypeForValue(req.value) # "Null"

\* What the comment of deleteKey says of a failed call: the key has children.
DeletesFailOnlyForChildren ==
    req.op = "delete" /\ resp = Failed /\ ~faulted
        => \E k \in Below[req.name] : View(disk)[k] # Absent

\* The type of a key that stays in the database changes only from or to null
\* (setKey's guard against client bugs holds across any sequence of calls).
TypesChangeThroughNull ==
    [][\A n \in Names :
          LET old == View(disk)[n].type
              new == View(disk)'[n].type
          IN old # new => {old, new} \cap {"Absent", "Null"} # {}]_vars

\* The committed type or contents of a row change only together with its
\* updatedAt stamp, which is not older than the call (updateKeyTimestamp runs
\* inside the transaction of updateKey).
ChangesAreStamped ==
    [][\A i \in Ids :
          /\ IsKey(disk, i) /\ IsKey(disk', i)
          /\ \/ disk.keys[i].type # disk'.keys[i].type
             \/ \E t \in ValueTypes : disk.vals[t][i] # disk'.vals[t][i]
          => disk'.keys[i].updatedAt >= began]_vars

\* The statements of the store, with errors and crashes between them,
\* implement the atomic map: a set that returns success is durable, one that
\* throws or is cut off has changed nothing.
KV == INSTANCE KVStore WITH
        store <- View(disk),
        phase <- IF pc \in Down THEN "down" ELSE IF pc = "idle" THEN "idle" ELSE "busy"
ImplementsKVStore == KV!KVSpec
================================================================================
