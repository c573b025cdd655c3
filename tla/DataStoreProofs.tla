---------------------------- MODULE DataStoreProofs ----------------------------
(***************************************************************************)
(* Proofs about DataStore, for every set of keys, values and inputs: the   *)
(* database stays consistent, and the SQL statements implement the atomic  *)
(* map of KVStore.                                                         *)
(***************************************************************************)
EXTENDS DataStore, TLAPS

(***************************************************************************)
(* What the statements do to a database: each yields a database, and the   *)
(* lemmas give the rows it has afterwards.                                 *)
(***************************************************************************)

\* TypeForValue files every PropertyValue under one of the five types.
LEMMA TypeForValueType ==
    ASSUME NEW v
    PROVE  TypeForValue(v) \in Types
BY DEF TypeForValue, Types, ValueTypes

\* The contents bound to a statement are contents whenever the type has a table.
LEMMA DataBound ==
    ASSUME NEW v \in Inputs, TypeForValue(v) # "Null"
    PROVE  v.data \in Data
BY InputsAssumption DEF PropertyValues, TypeForValue, Kinds

\* The first INSERT of insertKey takes the next id and leaves value tables alone.
LEMMA KeyInsertedDb ==
    ASSUME NEW d \in Databases, NEW n \in Keys, NEW t \in Types, NEW at \in Times,
           d.seq < MaxId, NEW e, e = KeyInserted(d, n, t, at)
    PROVE  /\ e \in Databases
           /\ d.seq + 1 \in Ids
           /\ e.seq = d.seq + 1
           /\ e.vals = d.vals
           /\ e.keys = [d.keys EXCEPT ![d.seq + 1] = [name |-> n, type |-> t,
                                                    createdAt |-> at, updatedAt |-> at]]
<1> DEFINE row == [name |-> n, type |-> t, createdAt |-> at, updatedAt |-> at]
<1>1. row \in Rows
  BY DEF Rows
<1>2. d.seq + 1 \in Ids /\ d.seq + 1 \in 0 .. MaxId
  BY MaxIdAssumption DEF Databases, Ids
<1>3. [d.keys EXCEPT ![d.seq + 1] = row] \in [Ids -> Rows \cup {NoRow}]
  BY <1>1 DEF Databases
<1> QED
  BY <1>2, <1>3 DEF KeyInserted, Databases

\* The UPDATE of updateKey changes the type of one row and nothing else.
LEMMA RetypedDb ==
    ASSUME NEW d \in Databases, NEW i \in Ids, IsKey(d, i), NEW t \in Types
    PROVE  /\ Retyped(d, i, t) \in Databases
           /\ Retyped(d, i, t).seq = d.seq
           /\ Retyped(d, i, t).vals = d.vals
           /\ Retyped(d, i, t).made = d.made
           /\ Retyped(d, i, t).version = d.version
           /\ Retyped(d, i, t).keys = [d.keys EXCEPT ![i] = [d.keys[i] EXCEPT !.type = t]]
           /\ Retyped(d, i, t).keys[i] \in Rows
           /\ Retyped(d, i, t).keys[i].type = t
           /\ Retyped(d, i, t).keys[i].name = d.keys[i].name
BY DEF Retyped, Databases, Rows, IsKey

\* updateKeyTimestamp changes the stamp of one row and nothing else.
LEMMA StampedDb ==
    ASSUME NEW d \in Databases, NEW i \in Ids, IsKey(d, i), NEW at \in Times
    PROVE  /\ Stamped(d, i, at) \in Databases
           /\ Stamped(d, i, at).seq = d.seq
           /\ Stamped(d, i, at).vals = d.vals
           /\ Stamped(d, i, at).made = d.made
           /\ Stamped(d, i, at).version = d.version
           /\ Stamped(d, i, at).keys =
                [d.keys EXCEPT ![i] = [d.keys[i] EXCEPT !.updatedAt = at]]
           /\ Stamped(d, i, at).keys[i] \in Rows
           /\ Stamped(d, i, at).keys[i].type = d.keys[i].type
           /\ Stamped(d, i, at).keys[i].name = d.keys[i].name
BY DEF Stamped, Databases, Rows, IsKey

\* The INSERT into a value table writes the one row of that table and id.
LEMMA ValueWrittenDb ==
    ASSUME NEW d \in Databases, NEW i \in Ids, NEW t \in ValueTypes, NEW x \in Data
    PROVE  /\ ValueWritten(d, t, i, x) \in Databases
           /\ ValueWritten(d, t, i, x).seq = d.seq
           /\ ValueWritten(d, t, i, x).keys = d.keys
           /\ ValueWritten(d, t, i, x).made = d.made
           /\ ValueWritten(d, t, i, x).version = d.version
           /\ \A u \in ValueTypes, j \in Ids :
                 ValueWritten(d, t, i, x).vals[u][j]
                    = IF u = t /\ j = i THEN x ELSE d.vals[u][j]
BY DEF ValueWritten, Databases

\* The DELETE of updateKey takes the one row of that table and id.
LEMMA ValueDeletedDb ==
    ASSUME NEW d \in Databases, NEW i \in Ids, NEW t \in ValueTypes
    PROVE  /\ ValueDeleted(d, t, i) \in Databases
           /\ ValueDeleted(d, t, i).seq = d.seq
           /\ ValueDeleted(d, t, i).keys = d.keys
           /\ ValueDeleted(d, t, i).made = d.made
           /\ ValueDeleted(d, t, i).version = d.version
           /\ \A u \in ValueTypes, j \in Ids :
                 ValueDeleted(d, t, i).vals[u][j]
                    = IF u = t /\ j = i THEN NoData ELSE d.vals[u][j]
BY DEF ValueDeleted, Databases

\* The DELETE of deleteSubkeys takes the rows of those ids out of every table.
LEMMA KeysDeletedDb ==
    ASSUME NEW d \in Databases, NEW ids \in SUBSET Ids
    PROVE  /\ KeysDeleted(d, ids) \in Databases
           /\ KeysDeleted(d, ids).seq = d.seq
           /\ KeysDeleted(d, ids).made = d.made
           /\ KeysDeleted(d, ids).version = d.version
           /\ \A j \in Ids :
                 KeysDeleted(d, ids).keys[j] = IF j \in ids THEN NoRow ELSE d.keys[j]
           /\ \A u \in ValueTypes, j \in Ids :
                 KeysDeleted(d, ids).vals[u][j]
                    = IF j \in ids THEN NoData ELSE d.vals[u][j]
BY DEF KeysDeleted, Databases
(***************************************************************************)
(* How the statements preserve the consistency of the rows.                *)
(***************************************************************************)

\* Row ids of a run are below 2^32, so holding them in a uint32_t loses nothing.
LEMMA NarrowId ==
    ASSUME NEW i \in Ids
    PROVE  Narrow(i) = i
BY MaxIdAssumption, IdModAssumption DEF Narrow, Ids

\* The placeholder for a missing row is no row a key could have: names are not empty.
LEMMA NoRowIsNoKey == NoRow \notin Rows
BY NamesAssumption DEF NoRow, Rows

\* A statement that leaves PropertyKeys alone leaves names and ids alone.
LEMMA SameKeys ==
    ASSUME NEW d, NEW e, e.keys = d.keys, e.seq = d.seq
    PROVE  /\ NamesUnique(d) => NamesUnique(e)
           /\ IdsAllocated(d) => IdsAllocated(e)
           /\ \A i : IsKey(e, i) <=> IsKey(d, i)
BY DEF NamesUnique, IdsAllocated, IsKey

\* So does one that changes a row but not its name.
LEMMA SameName ==
    ASSUME NEW d \in Databases, NEW e \in Databases, NEW i \in Ids, IsKey(d, i), NEW r \in Rows,
           e.keys = [d.keys EXCEPT ![i] = r], r.name = d.keys[i].name, e.seq = d.seq
    PROVE  /\ NamesUnique(d) => NamesUnique(e)
           /\ IdsAllocated(d) => IdsAllocated(e)
           /\ \A j \in Ids : IsKey(e, j) <=> IsKey(d, j)
           /\ \A j \in Ids \ {i} : e.keys[j] = d.keys[j]
           /\ e.keys[i] = r
BY NoRowIsNoKey DEF NamesUnique, IdsAllocated, IsKey, Databases

\* Inserting a key leaves the schema of the database alone.
LEMMA InsertedDb ==
    ASSUME NEW d \in Databases, NEW n \in Keys, NEW t \in Types, NEW at \in Times,
           d.seq < MaxId, NEW e, e = KeyInserted(d, n, t, at)
    PROVE  e \in Databases /\ e.made = d.made /\ e.version = d.version
<1>1. e \in Databases
  BY KeyInsertedDb
<1>2. e.made = d.made /\ e.version = d.version
  BY DEF KeyInserted, Databases
<1> QED
  BY <1>1, <1>2

\* After the first INSERT of insertKey names are unique still, and the new row is
\* the only one without the value row of its type.
LEMMA InsertedRows ==
    ASSUME NEW d \in Databases, NEW n \in Keys, NEW t \in Types, NEW at \in Times,
           d.seq < MaxId, KeysNamed(d, n) = {},
           NamesUnique(d), IdsAllocated(d), ValuesMatchTypes(d),
           NEW e, e = KeyInserted(d, n, t, at), NEW i, i = d.seq + 1
    PROVE  /\ NamesUnique(e) /\ IdsAllocated(e)
           /\ i \in Ids /\ IsKey(e, i) /\ e.keys[i].type = t
           /\ ValuesMatchBut(e, i)
           /\ \A u \in ValueTypes : e.vals[u][i] = NoData
<1> DEFINE r == [name |-> n, type |-> t, createdAt |-> at, updatedAt |-> at]
<1>1. /\ e \in Databases /\ i \in Ids
      /\ e.seq = i /\ e.vals = d.vals /\ e.keys = [d.keys EXCEPT ![i] = r]
  BY KeyInsertedDb
<1>2. r \in Rows /\ r # NoRow /\ r.name = n /\ r.type = t
  BY NoRowIsNoKey DEF Rows
<1>3. ~IsKey(d, i)
  BY <1>1 DEF IdsAllocated, Databases, Ids
<1>4. /\ \A j \in Ids \ {i} : e.keys[j] = d.keys[j]
      /\ e.keys[i] = r
  BY <1>1 DEF Databases
<1>5. \A j \in Ids : IsKey(e, j) <=> (j = i \/ IsKey(d, j))
  BY <1>2, <1>4 DEF IsKey
<1>6. NamesUnique(e)
  <2> SUFFICES ASSUME NEW j \in Ids, NEW k \in Ids, IsKey(e, j), IsKey(e, k),
                      e.keys[j].name = e.keys[k].name
               PROVE  j = k
    BY DEF NamesUnique
  <2>1. \A l \in Ids : IsKey(d, l) => d.keys[l].name # n
    BY DEF KeysNamed
  <2> QED
    BY <1>2, <1>4, <1>5, <2>1 DEF NamesUnique
<1>7. IdsAllocated(e)
  BY <1>1, <1>5 DEF IdsAllocated, Databases, Ids
<1>8. ValuesMatchBut(e, i)
  BY <1>1, <1>4, <1>5 DEF ValuesMatchBut, ValuesMatchTypes
<1>9. \A u \in ValueTypes : e.vals[u][i] = NoData
  BY <1>1, <1>3 DEF ValuesMatchTypes
<1> QED
  BY <1>1, <1>2, <1>4, <1>5, <1>6, <1>7, <1>8, <1>9

\* Deleting keys with their value rows (ON DELETE CASCADE) keeps the rows consistent.
LEMMA DeletedRows ==
    ASSUME NEW d \in Databases, NEW ids \in SUBSET Ids,
           NamesUnique(d), IdsAllocated(d), ValuesMatchTypes(d)
    PROVE  LET e == KeysDeleted(d, ids)
           IN  NamesUnique(e) /\ IdsAllocated(e) /\ ValuesMatchTypes(e)
BY KeysDeletedDb DEF NamesUnique, IdsAllocated, ValuesMatchTypes, IsKey

\* The rows of a retyped or stamped key.
LEMMA RetypedRows ==
    ASSUME NEW d \in Databases, NEW i \in Ids, IsKey(d, i), NEW t \in Types,
           NamesUnique(d), IdsAllocated(d), ValuesMatchBut(d, i)
    PROVE  LET e == Retyped(d, i, t)
           IN  /\ NamesUnique(e) /\ IdsAllocated(e) /\ ValuesMatchBut(e, i)
               /\ IsKey(e, i) /\ e.keys[i].type = t
<1> DEFINE e == Retyped(d, i, t)
           r == [d.keys[i] EXCEPT !.type = t]
<1>1. /\ e \in Databases /\ e.seq = d.seq /\ e.vals = d.vals
      /\ e.keys = [d.keys EXCEPT ![i] = r]
      /\ e.keys[i] \in Rows /\ e.keys[i].type = t /\ e.keys[i].name = d.keys[i].name
  BY RetypedDb
<1>2. r = e.keys[i] /\ r \in Rows /\ r.name = d.keys[i].name
  BY <1>1 DEF Databases
<1> HIDE DEF e, r
<1>3. /\ NamesUnique(e) /\ IdsAllocated(e)
      /\ \A j \in Ids : IsKey(e, j) <=> IsKey(d, j)
      /\ \A j \in Ids \ {i} : e.keys[j] = d.keys[j]
  BY <1>1, <1>2, SameName
<1> QED
  BY <1>1, <1>3 DEF e, ValuesMatchBut

\* So does stamping a row (updateKeyTimestamp).
LEMMA StampedRows ==
    ASSUME NEW d \in Databases, NEW i \in Ids, IsKey(d, i), NEW at \in Times,
           NamesUnique(d), IdsAllocated(d), ValuesMatchTypes(d)
    PROVE  LET e == Stamped(d, i, at)
           IN  NamesUnique(e) /\ IdsAllocated(e) /\ ValuesMatchTypes(e)
<1> DEFINE e == Stamped(d, i, at)
           r == [d.keys[i] EXCEPT !.updatedAt = at]
<1>1. /\ e \in Databases /\ e.seq = d.seq /\ e.vals = d.vals
      /\ e.keys = [d.keys EXCEPT ![i] = r]
      /\ e.keys[i] \in Rows /\ e.keys[i].type = d.keys[i].type
      /\ e.keys[i].name = d.keys[i].name
  BY StampedDb
<1>2. r = e.keys[i] /\ r \in Rows /\ r.name = d.keys[i].name
  BY <1>1 DEF Databases
<1> HIDE DEF e, r
<1>3. /\ NamesUnique(e) /\ IdsAllocated(e)
      /\ \A j \in Ids : IsKey(e, j) <=> IsKey(d, j)
      /\ \A j \in Ids \ {i} : e.keys[j] = d.keys[j]
  BY <1>1, <1>2, SameName
<1> QED
  BY <1>1, <1>3 DEF e, ValuesMatchTypes

\* Writing or deleting the value row of key i does not disturb other keys.
LEMMA WrittenRows ==
    ASSUME NEW d \in Databases, NEW i \in Ids, NEW t \in ValueTypes, NEW x \in Data,
           NamesUnique(d), IdsAllocated(d), ValuesMatchBut(d, i)
    PROVE  LET e == ValueWritten(d, t, i, x)
           IN  /\ NamesUnique(e) /\ IdsAllocated(e) /\ ValuesMatchBut(e, i)
               /\ (/\ IsKey(d, i) /\ d.keys[i].type = t
                   /\ \A u \in ValueTypes \ {t} : d.vals[u][i] = NoData)
                  => ValuesMatchTypes(e)
BY ValueWrittenDb, SameKeys, DataAssumption, SMTT(60) DEF ValuesMatchBut, ValuesMatchTypes, IsKey

\* The DELETE of updateKey leaves the row being moved without any value row.
LEMMA ErasedRows ==
    ASSUME NEW d \in Databases, NEW i \in Ids, NEW t \in ValueTypes,
           NamesUnique(d), IdsAllocated(d), ValuesMatchBut(d, i),
           \A u \in ValueTypes : d.vals[u][i] # NoData <=> u = t
    PROVE  LET e == ValueDeleted(d, t, i)
           IN  /\ NamesUnique(e) /\ IdsAllocated(e) /\ ValuesMatchBut(e, i)
               /\ \A u \in ValueTypes : e.vals[u][i] = NoData
BY ValueDeletedDb, SameKeys DEF ValuesMatchBut, IsKey

\* An untyped key without value rows, or a typed one with just its own.
LEMMA MatchAll ==
    ASSUME NEW d, NEW i \in Ids, IsKey(d, i), ValuesMatchBut(d, i)
    PROVE  (\A u \in ValueTypes : d.vals[u][i] # NoData <=> u = d.keys[i].type)
              <=> ValuesMatchTypes(d)
BY DEF ValuesMatchBut, ValuesMatchTypes

(***************************************************************************)
(* The inductive invariant.                                                *)
(***************************************************************************)

\* The two databases the daemon may find at first have a schema or none, and no rows.
LEMMA EmptyDbType ==
    /\ EmptyDb \in Databases /\ NewerDb \in Databases
    /\ EmptyDb.made = 0 /\ EmptyDb.version = 0
    /\ NewerDb.made = SchemaSteps /\ NewerDb.version = CurrentSchemaVersion + 1
    /\ \A i \in Ids : ~IsKey(EmptyDb, i) /\ ~IsKey(NewerDb, i)
    /\ \A i \in Ids, t \in ValueTypes :
          EmptyDb.vals[t][i] = NoData /\ NewerDb.vals[t][i] = NoData
<1>1. /\ [i \in Ids |-> NoRow] \in [Ids -> Rows \cup {NoRow}]
      /\ [t \in ValueTypes |-> [i \in Ids |-> NoData]]
            \in [ValueTypes -> [Ids -> Data \cup {NoData}]]
      /\ 0 \in 0 .. MaxId
  BY MaxIdAssumption
<1>2. EmptyDb \in Databases
  BY <1>1 DEF EmptyDb, Databases, SchemaSteps
<1>3. NewerDb \in Databases
  <2>1. SchemaSteps \in 0 .. SchemaSteps /\ CurrentSchemaVersion + 1 \in 0 .. 2
    BY DEF SchemaSteps, CurrentSchemaVersion
  <2> QED
    BY <1>2, <2>1 DEF NewerDb, Databases
<1>4. /\ EmptyDb.made = 0 /\ EmptyDb.version = 0
      /\ EmptyDb.keys = [i \in Ids |-> NoRow]
      /\ EmptyDb.vals = [t \in ValueTypes |-> [i \in Ids |-> NoData]]
  BY DEF EmptyDb
<1>5. /\ NewerDb.made = SchemaSteps /\ NewerDb.version = CurrentSchemaVersion + 1
      /\ NewerDb.keys = EmptyDb.keys /\ NewerDb.vals = EmptyDb.vals
  BY DEF NewerDb, EmptyDb
<1> QED
  BY <1>2, <1>3, <1>4, <1>5 DEF IsKey

\* The outcomes and locals the operations assign.
LEMMA AssignedTypes ==
    /\ NoCur \in [id : 0 .. MaxId, type : Types]
    /\ Pending \in Responses /\ Failed \in Responses
    /\ Done(Absent) \in Responses /\ Done(NullValue) \in Responses
    /\ \A t \in ValueTypes, x \in Data : Done([type |-> t, data |-> x]) \in Responses
    /\ Pending # Failed /\ \A v : Done(v) # Failed
<1>1. 0 \in 0 .. MaxId /\ "Null" \in Types
  BY MaxIdAssumption DEF Types
<1>2. /\ Absent \in StoredValues /\ NullValue \in StoredValues
      /\ \A t \in ValueTypes, x \in Data : [type |-> t, data |-> x] \in StoredValues
  BY DEF StoredValues
<1> QED
  BY <1>1, <1>2 DEF NoCur, Responses, Pending, Failed, Done

\* Both databases the daemon may start with satisfy the invariant.
LEMMA InitInductive == Init => Inductive
<1> SUFFICES ASSUME Init PROVE Inductive
  OBVIOUS
<1>1. TypeOK
  <2>1. disk \in Databases /\ work \in Databases
    BY EmptyDbType DEF Init
  <2>2. cur \in [id : 0 .. MaxId, type : Types] /\ resp \in Responses
    BY AssignedTypes DEF Init
  <2>3. now \in Times /\ began \in Times
    BY MaxTimeAssumption DEF Init, Times
  <2> QED
    BY <2>1, <2>2, <2>3 DEF Init, TypeOK, PCs, Down
<1>2. RowsConsistent
  BY EmptyDbType DEF Init, RowsConsistent, NamesUnique, ValuesMatchTypes, IdsAllocated
<1>3. TxnInv
  BY DEF Init, TxnInv, Transactional
<1>4. SchemaInv
  BY EmptyDbType
  DEF Init, SchemaInv, SchemaAtomic, NewerSchemaUntouched, Down, SchemaSteps, CurrentSchemaVersion
<1>5. CallInv
  BY DEF Init, CallInv, ReadsFailOnlyOnFault, Transactional, NoRequest
<1>6. StepInv
  BY <1>2 DEF Init, StepInv, RowsConsistent
<1> QED
  BY <1>1, <1>2, <1>3, <1>4, <1>5, <1>6 DEF Inductive

\* An operation of the store that throws leaves what was committed.
LEMMA ThrowInductive ==
    ASSUME Inductive, Throw, pc \notin Down, pc # "idle", req.op # "get"
    PROVE  Inductive'
<1> USE DEF Throw, Rollback, Return
<1>1. TypeOK'
  BY DEF Inductive, TypeOK, PCs, Responses
<1>2. RowsConsistent'
  BY DEF Inductive, RowsConsistent
<1>3. TxnInv'
  BY DEF TxnInv, Transactional
<1>4. SchemaInv'
  BY DEF Inductive, TypeOK, Databases, SchemaInv, SchemaAtomic, NewerSchemaUntouched, Down, SchemaSteps, CurrentSchemaVersion
<1>5. CallInv'
  BY DEF CallInv, ReadsFailOnlyOnFault, Transactional
<1>6. StepInv'
  BY DEF Inductive, StepInv, RowsConsistent
<1> QED
  BY <1>1, <1>2, <1>3, <1>4, <1>5, <1>6 DEF Inductive

\* So does one that meets an I/O error, or a crash.
LEMMA FaultInductive == Inductive /\ Fault => Inductive'
<1> SUFFICES ASSUME Inductive, Fault PROVE Inductive'
  OBVIOUS
<1> USE DEF Fault, Rollback
<1>1. TypeOK'
  BY DEF Inductive, TypeOK, PCs, Responses, Down
<1>2. RowsConsistent'
  BY DEF Inductive, RowsConsistent
<1>3. TxnInv'
  BY DEF TxnInv, Transactional
<1>4. SchemaInv'
  BY DEF Inductive, TypeOK, Databases, SchemaInv, SchemaAtomic, NewerSchemaUntouched, Down, SchemaSteps, CurrentSchemaVersion
<1>5. CallInv'
  BY DEF Inductive, CallInv, ReadsFailOnlyOnFault, Transactional, Pending, Failed, Down
<1>6. StepInv'
  BY DEF Inductive, StepInv, RowsConsistent
<1> QED
  BY <1>1, <1>2, <1>3, <1>4, <1>5, <1>6 DEF Inductive

\* A crash rolls the open transaction back (SQLite's journal).
LEMMA CrashInductive == Inductive /\ Crash => Inductive'
<1> SUFFICES ASSUME Inductive, Crash PROVE Inductive'
  OBVIOUS
<1> USE DEF Crash, Rollback
<1>1. TypeOK'
  BY AssignedTypes DEF Inductive, TypeOK, PCs, Down
<1>2. RowsConsistent'
  BY DEF Inductive, RowsConsistent
<1>3. TxnInv'
  BY DEF TxnInv, Transactional
<1>4. SchemaInv'
  BY DEF Inductive, SchemaInv, SchemaAtomic, NewerSchemaUntouched, Down
<1>5. CallInv'
  BY DEF CallInv, ReadsFailOnlyOnFault, Transactional, Pending, Failed, Down
<1>6. StepInv'
  BY DEF Inductive, StepInv, RowsConsistent
<1> QED
  BY <1>1, <1>2, <1>3, <1>4, <1>5, <1>6 DEF Inductive

\* The clock touches neither the database nor a call.
LEMMA TickInductive == Inductive /\ Tick => Inductive'
<1> SUFFICES ASSUME Inductive, Tick PROVE Inductive'
  OBVIOUS
<1> USE DEF Tick
<1>1. TypeOK'
  BY MaxTimeAssumption DEF Inductive, TypeOK, Times
<1>2. RowsConsistent'
  BY DEF Inductive, RowsConsistent
<1>3. TxnInv'
  BY DEF Inductive, TxnInv
<1>4. SchemaInv'
  BY DEF Inductive, SchemaInv, SchemaAtomic, NewerSchemaUntouched
<1>5. CallInv'
  BY DEF Inductive, CallInv, ReadsFailOnlyOnFault
<1>6. StepInv'
  BY DEF Inductive, StepInv, MovingRow, ValuesMatchBut, RowExists, IsKey
<1> QED
  BY <1>1, <1>2, <1>3, <1>4, <1>5, <1>6 DEF Inductive

\* A starting daemon finds the committed database.
LEMMA StartInductive == Inductive /\ Start => Inductive'
<1> SUFFICES ASSUME Inductive, Start PROVE Inductive'
  OBVIOUS
<1> USE DEF Start, Goto
<1>1. TypeOK'
  BY DEF Inductive, TypeOK, PCs, Down
<1>2. RowsConsistent'
  BY DEF Inductive, RowsConsistent
<1>3. TxnInv'
  BY DEF Inductive, TxnInv, Transactional, Down
<1>4. SchemaInv'
  BY DEF Inductive, TypeOK, Databases, TxnInv, Transactional, SchemaInv, SchemaAtomic, NewerSchemaUntouched, Down, SchemaSteps, CurrentSchemaVersion
<1>5. CallInv'
  BY DEF Inductive, CallInv, ReadsFailOnlyOnFault, Transactional, Down
<1>6. StepInv'
  BY DEF Inductive, StepInv, TxnInv, Transactional, Down
<1> QED
  BY <1>1, <1>2, <1>3, <1>4, <1>5, <1>6 DEF Inductive

\* Only an empty database makes the constructor begin a schema.
LEMMA OpenDatabaseInductive == Inductive /\ OpenDatabase => Inductive'
<1> SUFFICES ASSUME Inductive, OpenDatabase PROVE Inductive'
  OBVIOUS
<1> USE DEF OpenDatabase, Goto, Begin
<1>1. TypeOK'
  BY DEF Inductive, TypeOK, PCs, Down
<1>2. RowsConsistent'
  BY DEF Inductive, RowsConsistent
<1>3. TxnInv'
  BY DEF Inductive, TxnInv, Transactional, Down
<1>4. SchemaInv'
  BY DEF Inductive, TypeOK, Databases, TxnInv, Transactional, SchemaInv, SchemaAtomic, NewerSchemaUntouched, Down, SchemaSteps, CurrentSchemaVersion
<1>5. CallInv'
  BY DEF Inductive, CallInv, ReadsFailOnlyOnFault, Transactional, Down
<1>6. StepInv'
  BY DEF Inductive, StepInv, TxnInv, Transactional, Down
<1> QED
  BY <1>1, <1>2, <1>3, <1>4, <1>5, <1>6 DEF Inductive

\* The version check lets operations run only on a complete, current schema.
LEMMA CheckVersionInductive == Inductive /\ CheckVersion => Inductive'
<1> SUFFICES ASSUME Inductive, CheckVersion PROVE Inductive'
  OBVIOUS
<1> USE DEF CheckVersion, Goto
<1>1. TypeOK'
  BY DEF Inductive, TypeOK, PCs, Down
<1>2. RowsConsistent'
  BY DEF Inductive, RowsConsistent
<1>3. TxnInv'
  BY DEF Inductive, TxnInv, Transactional, Down
<1>4. SchemaInv'
  BY DEF Inductive, TypeOK, Databases, TxnInv, Transactional, SchemaInv, SchemaAtomic, NewerSchemaUntouched, Down, SchemaSteps, CurrentSchemaVersion
<1>5. CallInv'
  BY DEF Inductive, CallInv, ReadsFailOnlyOnFault, Transactional, Down
<1>6. StepInv'
  BY DEF Inductive, StepInv, TxnInv, Transactional, Down
<1> QED
  BY <1>1, <1>2, <1>3, <1>4, <1>5, <1>6 DEF Inductive

\* A call begins outside a transaction, on consistent rows.
LEMMA InvokeInductive == Inductive /\ Invoke => Inductive'
<1> SUFFICES ASSUME Inductive, Invoke PROVE Inductive'
  OBVIOUS
<1> USE DEF Invoke
<1>1. TypeOK'
  BY AssignedTypes DEF Inductive, TypeOK, PCs, Requests
<1>2. RowsConsistent'
  BY DEF Inductive, RowsConsistent
<1>3. TxnInv'
  BY DEF Inductive, TxnInv, Transactional, Requests
<1>4. SchemaInv'
  BY DEF Inductive, SchemaInv, SchemaAtomic, NewerSchemaUntouched, Down, Requests
<1>5. CallInv'
  BY AssignedTypes DEF Inductive, CallInv, ReadsFailOnlyOnFault, Transactional, Down, Requests
<1>6. StepInv'
  BY DEF Inductive, StepInv, TxnInv, Transactional, Requests
<1> QED
  BY <1>1, <1>2, <1>3, <1>4, <1>5, <1>6 DEF Inductive

\* Every statement of initSchema stays within its transaction until the last.
LEMMA InitSchemaInductive == Inductive /\ InitSchema => Inductive'
<1> SUFFICES ASSUME Inductive, InitSchema PROVE Inductive'
  OBVIOUS
<1>0. /\ work \in Databases /\ disk \in Databases /\ pc = "init" /\ txn = TRUE
      /\ disk = EmptyDb /\ work.keys = disk.keys /\ work.vals = disk.vals
      /\ work.seq = disk.seq
      /\ work.version # 0 => work.version = CurrentSchemaVersion /\ work.made = SchemaSteps
  BY DEF Inductive, TypeOK, TxnInv, Transactional, SchemaInv, InitSchema
<1>1. /\ work' \in Databases
      /\ work'.keys = work.keys /\ work'.vals = work.vals /\ work'.seq = work.seq
      /\ work'.version # 0 => work'.version = CurrentSchemaVersion /\ work'.made = SchemaSteps
  <2>1. CASE work.made < SchemaSteps /\ Apply([work EXCEPT !.made = @ + 1])
    <3>1. work.made + 1 \in 0 .. SchemaSteps
      BY <1>0, <2>1 DEF Databases, SchemaSteps
    <3> QED
      BY <1>0, <2>1, <3>1 DEF Apply, Databases, SchemaSteps
  <2>2. CASE /\ work.made = SchemaSteps
             /\ Apply([work EXCEPT !.version = CurrentSchemaVersion])
    <3>1. CurrentSchemaVersion \in 0 .. 2
      BY DEF CurrentSchemaVersion
    <3> QED
      BY <1>0, <2>2, <3>1 DEF Apply, Databases
  <2>3. CASE Commit
    BY <1>0, <2>3 DEF Commit
  <2> QED
    BY <2>1, <2>2, <2>3 DEF InitSchema
<1>2. CASE pc' = "init" /\ txn' = txn /\ disk' = disk /\ UNCHANGED <<req, cur, resp, faulted, now, began>>
  <2>1. TypeOK'
    BY <1>1, <1>2 DEF Inductive, TypeOK, PCs, Down
  <2>2. RowsConsistent' /\ TxnInv'
    BY <1>0, <1>2 DEF Inductive, RowsConsistent, TxnInv, Transactional
  <2>3. SchemaInv'
    BY <1>0, <1>1, <1>2 DEF Inductive, SchemaInv, SchemaAtomic, NewerSchemaUntouched, Down
  <2>4. CallInv'
    BY <1>0, <1>2 DEF Inductive, CallInv, ReadsFailOnlyOnFault, Transactional
  <2>5. StepInv'
    BY <1>0, <1>1, <1>2 DEF Inductive, StepInv, NamesUnique, IdsAllocated, IsKey
  <2> QED
    BY <2>1, <2>2, <2>3, <2>4, <2>5 DEF Inductive
<1>3. CASE work.version # 0 /\ Commit /\ Goto("version") /\ UNCHANGED cur
  <2> USE <1>0, <1>1, <1>3 DEF Commit, Goto
  <2>1. TypeOK'
    BY DEF Inductive, TypeOK, PCs, Down
  <2>2. RowsConsistent'
    BY DEF Inductive, RowsConsistent, NamesUnique, IdsAllocated, ValuesMatchTypes, IsKey
  <2>3. TxnInv'
    BY DEF TxnInv, Transactional
  <2>4. SchemaInv'
    BY DEF Databases, SchemaInv, SchemaAtomic, NewerSchemaUntouched, Down, SchemaSteps,
           CurrentSchemaVersion
  <2>5. CallInv'
    BY DEF Inductive, CallInv, ReadsFailOnlyOnFault, Transactional
  <2>6. StepInv'
    BY DEF Inductive, StepInv
  <2> QED
    BY <2>1, <2>2, <2>3, <2>4, <2>5, <2>6 DEF Inductive
<1> QED
  BY <1>0, <1>2, <1>3 DEF InitSchema, Apply, Goto

\* With an operation of the caller under way or none, nothing below changes the
\* schema; what is left to show of a step is its effect on the rows.
SchemaSame(d, e) == d.made = e.made /\ d.version = e.version

\* A step that keeps the schema of view and disk keeps SchemaInv.
LEMMA SchemaKept ==
    ASSUME Inductive, pc \notin Down, pc' \notin Down,
           SchemaSame(work', work) \/ SchemaSame(work', disk),
           SchemaSame(disk', work) \/ SchemaSame(disk', disk)
    PROVE  SchemaInv'
BY DEF Inductive, TypeOK, Databases, SchemaSame, SchemaInv, SchemaAtomic, NewerSchemaUntouched,
       Down, SchemaSteps, CurrentSchemaVersion

\* The row a lookup by name finds, and the locals that remember it.
LEMMA FoundKey ==
    ASSUME NEW d \in Databases, NEW n, NEW i \in KeysNamed(d, n)
    PROVE  /\ i \in Ids /\ IsKey(d, i) /\ d.keys[i] \in Rows /\ d.keys[i].type \in Types
           /\ [id |-> Narrow(i), type |-> d.keys[i].type] \in [id : 0 .. MaxId, type : Types]
           /\ Narrow(i) = i
<1>1. i \in Ids /\ IsKey(d, i)
  BY DEF KeysNamed
<1>2. d.keys[i] \in Rows /\ d.keys[i].type \in Types
  BY <1>1 DEF Databases, IsKey, Rows
<1>3. Narrow(i) = i /\ i \in 0 .. MaxId
  BY <1>1, NarrowId, MaxIdAssumption DEF Ids
<1> QED
  BY <1>1, <1>2, <1>3

\* A key that getKey finds with a typed value has the value row it goes on to read.
LEMMA GetInfoInductive == Inductive /\ GetInfo => Inductive'
<1> SUFFICES ASSUME Inductive, GetInfo PROVE Inductive'
  OBVIOUS
<1> USE DEF GetInfo, Goto, Return
<1>0. /\ pc = "getInfo" /\ req.op = "get" /\ txn = FALSE /\ work = disk
      /\ pc' \in {"idle", "getValue"}
      /\ UNCHANGED <<disk, work, txn, req, faulted, now, began>>
  BY DEF Inductive, CallInv, TxnInv, Transactional
<1>1. TypeOK'
  <2>1. CASE KeysNamed(work, req.name) = {} /\ Return(Done(Absent)) /\ UNCHANGED cur
    BY <1>0, <2>1, AssignedTypes DEF Inductive, TypeOK, PCs, Down
  <2>2. ASSUME NEW i \in KeysNamed(work, req.name), work.keys[i].type = "Null",
               Return(Done(NullValue)), UNCHANGED cur
        PROVE  TypeOK'
    BY <1>0, <2>2, AssignedTypes DEF Inductive, TypeOK, PCs, Down
  <2>3. ASSUME NEW i \in KeysNamed(work, req.name), work.keys[i].type # "Null",
               cur' = [id |-> Narrow(i), type |-> work.keys[i].type], Goto("getValue")
        PROVE  TypeOK'
    <3>1. cur' \in [id : 0 .. MaxId, type : Types]
      BY <2>3, FoundKey DEF Inductive, TypeOK
    <3> QED
      BY <1>0, <2>3, <3>1 DEF Inductive, TypeOK, PCs, Down
  <2> QED
    BY <2>1, <2>2, <2>3
<1>2. RowsConsistent' /\ TxnInv'
  BY <1>0 DEF Inductive, RowsConsistent, TxnInv, Transactional
<1>3. SchemaInv'
  BY <1>0, SchemaKept DEF SchemaSame, Down
<1>4. CallInv'
  BY <1>0, AssignedTypes DEF Inductive, CallInv, ReadsFailOnlyOnFault, Transactional
<1>5. StepInv'
  <2>1. CASE pc' = "idle"
    BY <1>0, <2>1 DEF Inductive, StepInv
  <2>2. ASSUME NEW i \in KeysNamed(work, req.name), work.keys[i].type # "Null",
               cur' = [id |-> Narrow(i), type |-> work.keys[i].type], pc' = "getValue"
        PROVE  StepInv'
    <3>1. i \in Ids /\ cur'.id = i /\ cur'.type = work.keys[i].type /\ IsKey(work, i)
      BY <2>2, NarrowId DEF KeysNamed
    <3>2. cur'.type \in ValueTypes
      BY <2>2, <3>1 DEF Inductive, TypeOK, Databases, IsKey, Rows, Types
    <3>3. HasValue(work, cur'.type, cur'.id)
      BY <1>0, <3>1, <3>2 DEF Inductive, RowsConsistent, ValuesMatchTypes, HasValue
    <3> QED
      BY <1>0, <2>2, <3>2, <3>3 DEF Inductive, StepInv, HasValue
  <2> QED
    BY <2>1, <2>2
<1> QED
  BY <1>1, <1>2, <1>3, <1>4, <1>5 DEF Inductive

\* So getKey does not throw for a missing value row.
LEMMA GetValueInductive == Inductive /\ GetValue => Inductive'
<1> SUFFICES ASSUME Inductive, GetValue PROVE Inductive'
  OBVIOUS
<1>0. /\ pc = "getValue" /\ pc' = "idle" /\ txn = FALSE /\ work = disk
      /\ cur.type \in ValueTypes /\ cur.id \in Ids
      /\ work.vals[cur.type][cur.id] \in Data
      /\ resp' = Done([type |-> cur.type, data |-> work.vals[cur.type][cur.id]])
      /\ UNCHANGED <<disk, work, txn, cur, req, faulted, now, began>>
  BY DEF Inductive, TypeOK, TxnInv, Transactional, StepInv, HasValue, GetValue, Return, Databases
<1>1. TypeOK'
  BY <1>0, AssignedTypes DEF Inductive, TypeOK, PCs, Down
<1>2. RowsConsistent' /\ TxnInv'
  BY <1>0 DEF Inductive, RowsConsistent, TxnInv, Transactional
<1>3. SchemaInv'
  BY <1>0, SchemaKept DEF SchemaSame, Down
<1>4. CallInv'
  BY <1>0, AssignedTypes DEF Inductive, CallInv, ReadsFailOnlyOnFault, Transactional
<1>5. StepInv'
  BY <1>0 DEF Inductive, StepInv
<1> QED
  BY <1>1, <1>2, <1>3, <1>4, <1>5 DEF Inductive

\* The view of a transaction that has just begun, and of one statement later.
LEMMA SetInfoInductive == Inductive /\ SetInfo => Inductive'
<1> SUFFICES ASSUME Inductive, SetInfo PROVE Inductive'
  OBVIOUS
<1>0. /\ pc = "setInfo" /\ req.op = "set" /\ req.value \in Inputs /\ resp = Pending
      /\ txn = FALSE /\ work = disk /\ work \in Databases
      /\ req \in Requests \cup {NoRequest}
      /\ NamesUnique(disk) /\ IdsAllocated(disk) /\ ValuesMatchTypes(disk)
  BY DEF Inductive, TypeOK, CallInv, TxnInv, Transactional, SetInfo, RowsConsistent
<1>1. CASE Throw
  BY <1>0, <1>1, ThrowInductive DEF Down
<1>2. CASE /\ KeysNamed(work, req.name) = {} /\ req.name # EmptyName
           /\ req.value.kind # "monostate"
           /\ Begin /\ Goto("insertKey") /\ UNCHANGED cur
  <2> USE <1>0, <1>2 DEF Begin, Goto
  <2>1. TypeOK'
    BY DEF Inductive, TypeOK, PCs, Down
  <2>2. RowsConsistent' /\ TxnInv'
    BY DEF Inductive, RowsConsistent, TxnInv, Transactional
  <2>3. SchemaInv'
    BY SchemaKept DEF SchemaSame, Down
  <2>4. CallInv'
    BY DEF Inductive, CallInv, ReadsFailOnlyOnFault, Transactional
  <2>5. StepInv'
    BY DEF StepInv, Requests, NoRequest, Names
  <2> QED
    BY <2>1, <2>2, <2>3, <2>4, <2>5 DEF Inductive
<1>3. ASSUME NEW i \in KeysNamed(work, req.name),
             UpdateAllowed(work.keys[i].type, req.value),
             cur' = [id |-> Narrow(i), type |-> work.keys[i].type],
             Begin,
             Goto(IF work.keys[i].type # TypeForValue(req.value) THEN "updateType"
                  ELSE IF TypeForValue(req.value) # "Null" THEN "upsert"
                  ELSE "stamp")
      PROVE  Inductive'
  <2>0. /\ i \in Ids /\ IsKey(work, i) /\ cur' \in [id : 0 .. MaxId, type : Types]
        /\ cur'.id = i /\ cur'.type = work.keys[i].type
    BY <1>0, <1>3, FoundKey
  <2>1. /\ pc' \in {"updateType", "upsert", "stamp"}
        /\ pc' = "updateType" => cur'.type # TypeForValue(req.value)
        /\ pc' = "upsert" => cur'.type = TypeForValue(req.value) /\ cur'.type # "Null"
        /\ txn' = TRUE
        /\ UNCHANGED <<disk, work, req, resp, faulted, now, began>>
    BY <1>3, <2>0 DEF Goto, Begin
  <2>2. TypeOK'
    BY <2>0, <2>1 DEF Inductive, TypeOK, PCs, Down
  <2>3. RowsConsistent' /\ TxnInv'
    BY <2>1 DEF Inductive, RowsConsistent, TxnInv, Transactional
  <2>4. SchemaInv'
    BY <1>0, <2>1, SchemaKept DEF SchemaSame, Down
  <2>5. CallInv'
    BY <1>0, <2>1 DEF Inductive, CallInv, ReadsFailOnlyOnFault, Transactional
  <2>6. MovingRow(cur.type)'
    BY <1>0, <2>0, <2>1
    DEF MovingRow, RowExists, IsKey, ValuesMatchBut, ValuesMatchTypes
  <2>7. StepInv'
    BY <1>0, <2>0, <2>1, <2>6 DEF StepInv, MovingRow, ValuesMatchTypes
  <2> QED
    BY <2>2, <2>3, <2>4, <2>5, <2>7 DEF Inductive
<1> QED
  BY <1>1, <1>2, <1>3 DEF SetInfo

\* deleteKey throws before it changes anything.
LEMMA DeleteKeyInductive == Inductive /\ DeleteKey => Inductive'
<1> SUFFICES ASSUME Inductive, DeleteKey PROVE Inductive'
  OBVIOUS
<1>1. pc = "deleteKey" /\ req.op # "get" /\ Throw
  BY DEF Inductive, CallInv, DeleteKey
<1> QED
  BY <1>1, ThrowInductive DEF Down

\* deleteSubkeys takes keys and value rows together, in one statement.
LEMMA DeleteSubkeysInductive == Inductive /\ DeleteSubkeys => Inductive'
<1> SUFFICES ASSUME Inductive, DeleteSubkeys PROVE Inductive'
  OBVIOUS
<1> DEFINE ids == {i \in Ids : IsKey(work, i) /\ work.keys[i].name \in Below[req.name]}
           e == KeysDeleted(work, ids)
<1>0. /\ pc = "deleteSubkeys" /\ pc' = "idle" /\ req.op = "deleteSubkeys"
      /\ txn = FALSE /\ work = disk /\ work \in Databases
      /\ work' = e /\ disk' = e /\ resp' = Done(Absent)
      /\ UNCHANGED <<txn, cur, req, faulted, now, began>>
  BY DEF Inductive, TypeOK, CallInv, TxnInv, Transactional, DeleteSubkeys, Apply, Return
<1>1. /\ e \in Databases /\ SchemaSame(e, work)
      /\ NamesUnique(e) /\ IdsAllocated(e) /\ ValuesMatchTypes(e)
  <2>1. ids \in SUBSET Ids
    OBVIOUS
  <2>2. NamesUnique(work) /\ IdsAllocated(work) /\ ValuesMatchTypes(work)
    BY <1>0 DEF Inductive, RowsConsistent
  <2> HIDE DEF ids
  <2> QED
    BY <1>0, <2>1, <2>2, KeysDeletedDb, DeletedRows DEF SchemaSame
<1> HIDE DEF e
<1>2. TypeOK'
  BY <1>0, <1>1, AssignedTypes DEF Inductive, TypeOK, PCs, Down
<1>3. RowsConsistent' /\ TxnInv'
  BY <1>0, <1>1 DEF RowsConsistent, TxnInv, Transactional
<1>4. SchemaInv'
  BY <1>0, <1>1, SchemaKept DEF Down
<1>5. CallInv'
  BY <1>0, AssignedTypes DEF CallInv, ReadsFailOnlyOnFault, Transactional
<1>6. StepInv'
  BY <1>0, <1>1 DEF StepInv
<1> QED
  BY <1>2, <1>3, <1>4, <1>5, <1>6 DEF Inductive

\* A statement inside the transaction of insertKey or updateKey.
Statement(d) ==
    /\ work' = d /\ d \in Databases /\ SchemaSame(d, work)
    /\ pc' \in Transactional \ {"init"}
    /\ cur' \in [id : 0 .. MaxId, type : Types]
    /\ UNCHANGED <<disk, txn, req, resp, faulted, now, began>>

\* A statement inside the transaction of a set changes the view, not the disk.
LEMMA StatementInductive ==
    ASSUME Inductive, pc \in Transactional \ {"init"}, NEW d, Statement(d), StepInv'
    PROVE  Inductive'
<1> USE DEF Statement
<1>1. TypeOK'
  BY DEF Inductive, TypeOK, Transactional, PCs
<1>2. RowsConsistent' /\ TxnInv'
  BY DEF Inductive, RowsConsistent, TxnInv, Transactional
<1>3. SchemaInv'
  BY SchemaKept DEF SchemaSame, Transactional, Down
<1>4. CallInv'
  BY DEF Inductive, CallInv, ReadsFailOnlyOnFault, Transactional
<1> QED
  BY <1>1, <1>2, <1>3, <1>4 DEF Inductive

\* What Inductive gives every statement of a set.
LEMMA InSet ==
    ASSUME Inductive, pc \in Transactional \ {"init"}
    PROVE  /\ txn = TRUE /\ req.op = "set" /\ req.value \in Inputs /\ resp = Pending
           /\ work \in Databases /\ req \in Requests \cup {NoRequest}
           /\ cur \in [id : 0 .. MaxId, type : Types] /\ cur.type \in Types
           /\ now \in Times
           /\ TypeForValue(req.value) \in Types
           /\ TypeForValue(req.value) # "Null" =>
                 TypeForValue(req.value) \in ValueTypes /\ req.value.data \in Data
           /\ NamesUnique(work) /\ IdsAllocated(work)
           /\ pc \notin Down
<1>1. /\ txn = TRUE /\ req.op = "set" /\ req.value \in Inputs /\ resp = Pending
      /\ work \in Databases /\ req \in Requests \cup {NoRequest}
      /\ cur \in [id : 0 .. MaxId, type : Types] /\ now \in Times
      /\ NamesUnique(work) /\ IdsAllocated(work)
  BY DEF Inductive, TypeOK, TxnInv, CallInv, StepInv, Transactional
<1>2. pc \notin Down
  BY DEF Transactional, Down
<1> QED
  BY <1>1, <1>2, TypeForValueType, DataBound DEF Types

\* insertKey's row of PropertyKeys is followed by its value row, or needs none.
LEMMA InsertKeyInductive == Inductive /\ InsertKey => Inductive'
<1> SUFFICES ASSUME Inductive, InsertKey PROVE Inductive'
  OBVIOUS
<1>0. pc = "insertKey" /\ pc \in Transactional \ {"init"}
  BY DEF InsertKey, Transactional
<1>1. CASE Throw
  BY <1>0, <1>1, InSet, ThrowInductive
<1>2. CASE ~Throw
  <2> DEFINE new == TypeForValue(req.value)
             d == KeyInserted(work, req.name, new, now)
  <2>0. /\ work \in Databases /\ new \in Types /\ now \in Times
        /\ NamesUnique(work) /\ IdsAllocated(work)
    BY <1>0, InSet
  <2>1. /\ work.seq < MaxId /\ KeysNamed(work, req.name) = {}
        /\ work' = d /\ disk' = disk /\ txn' = txn
        /\ cur' = [id |-> work.seq + 1, type |-> new]
        /\ pc' = IF new = "Null" THEN "commit" ELSE "insertValue"
        /\ UNCHANGED <<req, resp, faulted, now, began>>
    BY <1>0, <1>2, InSet DEF InsertKey, Apply, Goto
  <2>2. /\ req.name \in Keys /\ work = disk /\ ValuesMatchTypes(work)
    BY <1>0 DEF Inductive, StepInv, RowsConsistent
  <2>3. /\ d \in Databases /\ SchemaSame(d, work) /\ work.seq + 1 \in Ids
        /\ NamesUnique(d) /\ IdsAllocated(d)
        /\ IsKey(d, work.seq + 1) /\ d.keys[work.seq + 1].type = new
        /\ ValuesMatchBut(d, work.seq + 1)
        /\ \A u \in ValueTypes : d.vals[u][work.seq + 1] = NoData
    <3> HIDE DEF new
    <3>1. /\ work.seq < MaxId /\ req.name \in Keys
          /\ KeysNamed(work, req.name) = {} /\ ValuesMatchTypes(work)
      BY <2>1, <2>2
    <3>2. d \in Databases /\ d.made = work.made /\ d.version = work.version
      BY <2>0, <3>1, InsertedDb
    <3>3. /\ work.seq + 1 \in Ids
          /\ NamesUnique(d) /\ IdsAllocated(d)
          /\ IsKey(d, work.seq + 1) /\ d.keys[work.seq + 1].type = new
          /\ ValuesMatchBut(d, work.seq + 1)
          /\ \A u \in ValueTypes : d.vals[u][work.seq + 1] = NoData
      BY <2>0, <3>1, InsertedRows
    <3> QED
      BY <3>2, <3>3 DEF SchemaSame
  <2> HIDE DEF d
  <2>4. /\ cur' \in [id : 0 .. MaxId, type : Types]
        /\ cur'.id = work.seq + 1 /\ cur'.type = new
    BY <1>0, <2>1, <2>3, InSet DEF Ids
  <2>5. Statement(d)
    BY <2>1, <2>3, <2>4 DEF Statement, Transactional
  <2>6. new = "Null" => ValuesMatchTypes(d)
    BY <2>3, MatchAll DEF ValueTypes
  <2>7. StepInv'
    BY <2>1, <2>3, <2>4, <2>6 DEF StepInv, MovingRow, RowExists
  <2> QED
    BY <1>0, <2>5, <2>7, StatementInductive
<1> QED
  BY <1>1, <1>2

\* insertKey's value row completes the key: it is ready to be committed.
LEMMA InsertValueInductive == Inductive /\ InsertValue => Inductive'
<1> SUFFICES ASSUME Inductive, InsertValue PROVE Inductive'
  OBVIOUS
<1>0. pc = "insertValue" /\ pc \in Transactional \ {"init"}
  BY DEF InsertValue, Transactional
<1>1. CASE Throw
  BY <1>0, <1>1, InSet, ThrowInductive
<1>2. CASE ~Throw
  <2> DEFINE new == TypeForValue(req.value)
             d == ValueWritten(work, cur.type, cur.id, req.value.data)
  <2>1. /\ work' = d /\ disk' = disk /\ txn' = txn /\ cur' = cur /\ pc' = "commit"
        /\ UNCHANGED <<req, resp, faulted, now, began>>
    BY <1>0, <1>2, InSet DEF InsertValue, Apply, Goto
  <2>2. /\ cur.id \in Ids /\ IsKey(work, cur.id) /\ work.keys[cur.id].type = new
        /\ cur.type = new /\ new # "Null" /\ ValuesMatchBut(work, cur.id)
        /\ \A t \in ValueTypes : work.vals[t][cur.id] = NoData
    BY <1>0 DEF Inductive, StepInv, MovingRow, RowExists
  <2>3. /\ d \in Databases /\ SchemaSame(d, work)
        /\ NamesUnique(d) /\ IdsAllocated(d) /\ ValuesMatchTypes(d)
    BY <1>0, <2>2, InSet, ValueWrittenDb, WrittenRows DEF SchemaSame
  <2> HIDE DEF d
  <2>4. Statement(d)
    BY <1>0, <2>1, <2>3, InSet DEF Statement, Transactional
  <2>5. StepInv'
    BY <2>1, <2>3 DEF StepInv
  <2> QED
    BY <1>0, <2>4, <2>5, StatementInductive
<1> QED
  BY <1>1, <1>2

\* updateKey retypes the row while its value row is still in the old table.
LEMMA UpdateTypeInductive == Inductive /\ UpdateType => Inductive'
<1> SUFFICES ASSUME Inductive, UpdateType PROVE Inductive'
  OBVIOUS
<1>0. pc = "updateType" /\ pc \in Transactional \ {"init"}
  BY DEF UpdateType, Transactional
<1>1. CASE Throw
  BY <1>0, <1>1, InSet, ThrowInductive
<1>2. CASE ~Throw
  <2> DEFINE new == TypeForValue(req.value)
             d == Retyped(work, cur.id, new)
  <2>0. /\ work \in Databases /\ new \in Types /\ now \in Times
        /\ NamesUnique(work) /\ IdsAllocated(work)
    BY <1>0, InSet
  <2>1. /\ work' = d /\ disk' = disk /\ txn' = txn /\ cur' = cur /\ pc' = "deleteOld"
        /\ UNCHANGED <<req, resp, faulted, now, began>>
    BY <1>0, <1>2, InSet DEF UpdateType, Apply, Goto
  <2>2. /\ cur.id \in Ids /\ IsKey(work, cur.id) /\ work.keys[cur.id].type = cur.type
        /\ cur.type # new /\ ValuesMatchBut(work, cur.id)
        /\ \A t \in ValueTypes : work.vals[t][cur.id] # NoData <=> t = cur.type
    BY <1>0 DEF Inductive, StepInv, MovingRow, RowExists, RowsConsistent, ValuesMatchTypes
  <2>3. /\ d \in Databases /\ SchemaSame(d, work) /\ d.vals = work.vals
        /\ NamesUnique(d) /\ IdsAllocated(d) /\ ValuesMatchBut(d, cur.id)
        /\ IsKey(d, cur.id) /\ d.keys[cur.id].type = new
    <3> HIDE DEF new
    <3>1. d \in Databases /\ SchemaSame(d, work) /\ d.vals = work.vals
      BY <2>0, <2>2, RetypedDb, ZenonT(60) DEF SchemaSame
    <3> QED
      BY <2>0, <2>2, <3>1, RetypedRows
  <2> HIDE DEF d
  <2>4. Statement(d)
    BY <1>0, <2>1, <2>3, InSet DEF Statement, Transactional
  <2>5. StepInv'
    BY <2>1, <2>2, <2>3 DEF StepInv, MovingRow, RowExists
  <2> QED
    BY <1>0, <2>4, <2>5, StatementInductive
<1> QED
  BY <1>1, <1>2

\* updateKey deletes the old value row, or throws for the table null lacks.
LEMMA DeleteOldInductive == Inductive /\ DeleteOld => Inductive'
<1> SUFFICES ASSUME Inductive, DeleteOld PROVE Inductive'
  OBVIOUS
<1>0. pc = "deleteOld" /\ pc \in Transactional \ {"init"}
  BY DEF DeleteOld, Transactional
<1>1. CASE Throw
  BY <1>0, <1>1, InSet, ThrowInductive
<1>2. CASE ~Throw
  <2> DEFINE new == TypeForValue(req.value)
             d == ValueDeleted(work, cur.type, cur.id)
  <2>1. /\ cur.type \in ValueTypes
        /\ work' = d /\ disk' = disk /\ txn' = txn /\ cur' = cur
        /\ pc' = IF new # "Null" THEN "upsert" ELSE "stamp"
        /\ UNCHANGED <<req, resp, faulted, now, began>>
    BY <1>0, <1>2, InSet DEF DeleteOld, Apply, Goto
  <2>2. /\ cur.id \in Ids /\ IsKey(work, cur.id) /\ work.keys[cur.id].type = new
        /\ ValuesMatchBut(work, cur.id)
        /\ \A t \in ValueTypes : work.vals[t][cur.id] # NoData <=> t = cur.type
    BY <1>0 DEF Inductive, StepInv, MovingRow, RowExists
  <2>3. /\ d \in Databases /\ SchemaSame(d, work) /\ d.keys = work.keys
        /\ NamesUnique(d) /\ IdsAllocated(d) /\ ValuesMatchBut(d, cur.id)
        /\ \A t \in ValueTypes : d.vals[t][cur.id] = NoData
    BY <1>0, <2>1, <2>2, InSet, ValueDeletedDb, ErasedRows DEF SchemaSame
  <2> HIDE DEF d
  <2>4. Statement(d)
    BY <1>0, <2>1, <2>3, InSet DEF Statement, Transactional
  <2>5. IsKey(d, cur.id) /\ d.keys[cur.id].type = new
    BY <2>2, <2>3 DEF IsKey
  <2>6. new = "Null" => ValuesMatchTypes(d)
    BY <2>2, <2>3, <2>5, MatchAll DEF ValueTypes
  <2>7. StepInv'
    BY <2>1, <2>2, <2>3, <2>5, <2>6 DEF StepInv, MovingRow, RowExists
  <2> QED
    BY <1>0, <2>4, <2>7, StatementInductive
<1> QED
  BY <1>1, <1>2

\* updateKey's upsert gives the row the value row its type calls for.
LEMMA UpsertInductive == Inductive /\ Upsert => Inductive'
<1> SUFFICES ASSUME Inductive, Upsert PROVE Inductive'
  OBVIOUS
<1>0. pc = "upsert" /\ pc \in Transactional \ {"init"}
  BY DEF Upsert, Transactional
<1>1. CASE Throw
  BY <1>0, <1>1, InSet, ThrowInductive
<1>2. CASE ~Throw
  <2> DEFINE new == TypeForValue(req.value)
             d == ValueWritten(work, new, cur.id, req.value.data)
  <2>1. /\ work' = d /\ disk' = disk /\ txn' = txn /\ cur' = cur /\ pc' = "stamp"
        /\ UNCHANGED <<req, resp, faulted, now, began>>
    BY <1>0, <1>2, InSet DEF Upsert, Apply, Goto
  <2>2. /\ cur.id \in Ids /\ IsKey(work, cur.id) /\ work.keys[cur.id].type = new
        /\ new # "Null" /\ ValuesMatchBut(work, cur.id)
        /\ \A t \in ValueTypes \ {new} : work.vals[t][cur.id] = NoData
    BY <1>0 DEF Inductive, StepInv, MovingRow, RowExists
  <2>3. /\ d \in Databases /\ SchemaSame(d, work) /\ d.keys = work.keys
        /\ NamesUnique(d) /\ IdsAllocated(d) /\ ValuesMatchTypes(d)
    BY <1>0, <2>2, InSet, ValueWrittenDb, WrittenRows DEF SchemaSame
  <2> HIDE DEF d
  <2>4. Statement(d)
    BY <1>0, <2>1, <2>3, InSet DEF Statement, Transactional
  <2>5. StepInv'
    BY <2>1, <2>2, <2>3 DEF StepInv, RowExists, IsKey
  <2> QED
    BY <1>0, <2>4, <2>5, StatementInductive
<1> QED
  BY <1>1, <1>2

\* Stamping leaves types and value rows as the upsert left them.
LEMMA UpdateKeyTimestampInductive == Inductive /\ UpdateKeyTimestamp => Inductive'
<1> SUFFICES ASSUME Inductive, UpdateKeyTimestamp PROVE Inductive'
  OBVIOUS
<1>0. pc = "stamp" /\ pc \in Transactional \ {"init"}
  BY DEF UpdateKeyTimestamp, Transactional
<1>1. CASE Throw
  BY <1>0, <1>1, InSet, ThrowInductive
<1>2. CASE ~Throw
  <2> DEFINE d == Stamped(work, cur.id, now)
  <2>1. /\ work' = d /\ disk' = disk /\ txn' = txn /\ cur' = cur /\ pc' = "commit"
        /\ UNCHANGED <<req, resp, faulted, now, began>>
    BY <1>0, <1>2, InSet DEF UpdateKeyTimestamp, Apply, Goto
  <2>2. cur.id \in Ids /\ IsKey(work, cur.id) /\ ValuesMatchTypes(work)
    BY <1>0 DEF Inductive, StepInv, RowExists
  <2>3. /\ d \in Databases /\ SchemaSame(d, work)
        /\ NamesUnique(d) /\ IdsAllocated(d) /\ ValuesMatchTypes(d)
    BY <1>0, <2>2, InSet, StampedDb, StampedRows, ZenonT(60) DEF SchemaSame
  <2> HIDE DEF d
  <2>4. Statement(d)
    BY <1>0, <2>1, <2>3, InSet DEF Statement, Transactional
  <2>5. StepInv'
    BY <2>1, <2>3 DEF StepInv
  <2> QED
    BY <1>0, <2>4, <2>5, StatementInductive
<1> QED
  BY <1>1, <1>2

\* What a set commits is consistent.
LEMMA CommitSetInductive == Inductive /\ CommitSet => Inductive'
<1> SUFFICES ASSUME Inductive, CommitSet PROVE Inductive'
  OBVIOUS
<1>0. /\ pc = "commit" /\ pc \in Transactional \ {"init"}
      /\ pc' = "idle" /\ disk' = work /\ work' = work /\ txn' = FALSE
      /\ resp' = Done(Absent) /\ UNCHANGED <<cur, req, faulted, now, began>>
      /\ ValuesMatchTypes(work)
  BY DEF Inductive, StepInv, CommitSet, Commit, Return, Transactional
<1>1. TypeOK'
  BY <1>0, AssignedTypes DEF Inductive, TypeOK, PCs, Down
<1>2. RowsConsistent' /\ TxnInv'
  BY <1>0, InSet DEF RowsConsistent, TxnInv, Transactional
<1>3. SchemaInv'
  BY <1>0, InSet, SchemaKept DEF SchemaSame, Down
<1>4. CallInv'
  BY <1>0, InSet, AssignedTypes DEF CallInv, ReadsFailOnlyOnFault, Transactional
<1>5. StepInv'
  BY <1>0, InSet DEF StepInv
<1> QED
  BY <1>1, <1>2, <1>3, <1>4, <1>5 DEF Inductive

\* Every step, of the store or of its environment, keeps the invariant.
LEMMA NextInductive == Inductive /\ [Next]_vars => Inductive'
<1> SUFFICES ASSUME Inductive, [Next]_vars PROVE Inductive'
  OBVIOUS
<1>1. CASE Start \/ OpenDatabase \/ InitSchema \/ CheckVersion
  BY <1>1, StartInductive, OpenDatabaseInductive, InitSchemaInductive, CheckVersionInductive
<1>2. CASE Invoke \/ GetInfo \/ GetValue \/ SetInfo
  BY <1>2, InvokeInductive, GetInfoInductive, GetValueInductive, SetInfoInductive
<1>3. CASE InsertKey \/ InsertValue
  BY <1>3, InsertKeyInductive, InsertValueInductive
<1>4. CASE UpdateType \/ DeleteOld \/ Upsert \/ UpdateKeyTimestamp \/ CommitSet
  BY <1>4, UpdateTypeInductive, DeleteOldInductive, UpsertInductive,
     UpdateKeyTimestampInductive, CommitSetInductive
<1>5. CASE DeleteKey \/ DeleteSubkeys
  BY <1>5, DeleteKeyInductive, DeleteSubkeysInductive
<1>6. CASE Fault \/ Crash \/ Tick
  BY <1>6, FaultInductive, CrashInductive, TickInductive
<1>7. CASE UNCHANGED vars
  BY <1>7 DEF vars, Inductive, TypeOK, RowsConsistent, TxnInv, SchemaInv, SchemaAtomic,
              NewerSchemaUntouched, CallInv, ReadsFailOnlyOnFault, StepInv, MovingRow,
              ValuesMatchBut, RowExists, IsKey
<1> QED
  BY <1>1, <1>2, <1>3, <1>4, <1>5, <1>6, <1>7 DEF Next

\* Every variable keeps its type, the committed rows stay consistent, and the
\* transaction of insertKey or updateKey is where pc says, in every reachable
\* state, for all keys, values and inputs.
THEOREM InductiveInvariant == Spec => []Inductive
BY InitInductive, NextInductive, PTL DEF Spec

\* Whatever statement fails and wherever a crash falls, every committed key has
\* exactly the value row its type calls for (DataStore.cpp, insertKey, updateKey).
THEOREM RowsAlwaysConsistent == Spec => []RowsConsistent
<1>1. Inductive => RowsConsistent
  BY DEF Inductive
<1> QED
  BY <1>1, InductiveInvariant, PTL

\* A crash during initSchema never leaves half a schema behind.
THEOREM SchemaAlwaysAtomic == Spec => []SchemaAtomic
<1>1. Inductive => SchemaAtomic
  BY DEF Inductive, SchemaInv
<1> QED
  BY <1>1, InductiveInvariant, PTL

\* A database of a newer release is never written to (initSchema, CheckVersion).
THEOREM NewerSchemaNeverTouched == Spec => []NewerSchemaUntouched
<1>1. Inductive => NewerSchemaUntouched
  BY DEF Inductive, SchemaInv
<1> QED
  BY <1>1, InductiveInvariant, PTL

\* getKey meets a database inconsistency in no reachable state: it fails only
\* when SQLite does.
THEOREM ReadsAlwaysConsistent == Spec => []ReadsFailOnlyOnFault
<1>1. Inductive => ReadsFailOnlyOnFault
  BY DEF Inductive, CallInv
<1> QED
  BY <1>1, InductiveInvariant, PTL

\* Every variable keeps its type.
THEOREM TypeCorrect == Spec => []TypeOK
<1>1. Inductive => TypeOK
  BY DEF Inductive
<1> QED
  BY <1>1, InductiveInvariant, PTL

(***************************************************************************)
(* The map a database stands for.                                          *)
(***************************************************************************)

\* What getKey makes of row i.
RowValue(d, i) ==
    IF d.keys[i].type = "Null" THEN NullValue
    ELSE [type |-> d.keys[i].type, data |-> d.vals[d.keys[i].type][i]]

\* The unique index on names: the row a name is looked up by is the only one.
LEMMA ViewFound ==
    ASSUME NEW d, NamesUnique(d), NEW n \in Names, NEW i \in KeysNamed(d, n)
    PROVE  View(d)[n] = RowValue(d, i)
<1>1. \A j \in KeysNamed(d, n) : j = i
  BY DEF KeysNamed, NamesUnique
<1>2. (CHOOSE j \in KeysNamed(d, n) : TRUE) = i
  BY <1>1
<1> QED
  BY <1>2 DEF View, RowValue

\* A name without a row is absent.
LEMMA ViewMissing ==
    ASSUME NEW d, NEW n \in Names, KeysNamed(d, n) = {}
    PROVE  View(d)[n] = Absent
BY DEF View

\* The map depends on rows and values only.
LEMMA ViewSame ==
    ASSUME NEW d, NEW e, e.keys = d.keys, e.vals = d.vals
    PROVE  View(e) = View(d)
BY DEF View, KeysNamed, IsKey

\* The map is a function of names.
LEMMA ViewFunction ==
    ASSUME NEW d
    PROVE  View(d) = [n \in Names |-> View(d)[n]]
BY DEF View

\* A row has a value of its type in the map.
LEMMA RowValueType ==
    ASSUME NEW d \in Databases, NEW i \in Ids, IsKey(d, i)
    PROVE  RowValue(d, i).type = d.keys[i].type /\ RowValue(d, i) # Absent
<1>1. d.keys[i].type \in Types
  BY DEF Databases, IsKey, Rows
<1> QED
  BY <1>1 DEF RowValue, NullValue, Absent, Types, ValueTypes

\* Outside row i the databases d and e are the same.
OthersSame(d, e, i) ==
    \A j \in Ids \ {i} :
        e.keys[j] = d.keys[j] /\ \A t \in ValueTypes : e.vals[t][j] = d.vals[t][j]

\* Changing the one row of name n changes the map at n only.
LEMMA ViewOthers ==
    ASSUME NEW d \in Databases, NEW e \in Databases, NamesUnique(d), NamesUnique(e),
           NEW i \in Ids, OthersSame(d, e, i), NEW n,
           IsKey(d, i) => d.keys[i].name = n, IsKey(e, i) => e.keys[i].name = n,
           NEW m \in Names \ {n}
    PROVE  View(e)[m] = View(d)[m]
<1>1. KeysNamed(e, m) = KeysNamed(d, m)
  BY DEF KeysNamed, IsKey, OthersSame
<1>2. CASE KeysNamed(d, m) = {}
  BY <1>1, <1>2, ViewMissing
<1>3. ASSUME NEW j \in KeysNamed(d, m) PROVE View(e)[m] = View(d)[m]
  <2>1. View(d)[m] = RowValue(d, j) /\ View(e)[m] = RowValue(e, j)
    BY <1>1, <1>3, ViewFound
  <2>2. j \in Ids \ {i} /\ d.keys[j] \in Rows
    BY DEF KeysNamed, Databases, IsKey
  <2>3. d.keys[j].type \in ValueTypes \cup {"Null"}
    BY <2>2 DEF Rows, Types
  <2> QED
    BY <2>1, <2>2, <2>3 DEF RowValue, OthersSame
<1> QED
  BY <1>2, <1>3

(***************************************************************************)
(* What a set under way has done to the committed database so far.         *)
(***************************************************************************)

\* A call is under way exactly while its operation runs, and began in the past.
RequestInv ==
    /\ pc \in Down => req = NoRequest
    /\ pc \notin Down \cup {"idle"} => req \in Requests
    /\ began <= now

Moving == {"insertValue", "updateType", "deleteOld", "upsert", "stamp", "commit"}

\* The row keyId names has the name of the request.  It is new, or one that setKey
\* has found and may change.
TargetInv ==
    /\ RowExists(work, cur.id) /\ work.keys[cur.id].name = req.name
    /\ IsKey(disk, cur.id) =>
          /\ disk.keys[cur.id].name = req.name
          /\ disk.keys[cur.id].type = cur.type
          /\ UpdateAllowed(cur.type, req.value)
    /\ ~IsKey(disk, cur.id) =>
          KeysNamed(disk, req.name) = {} /\ req.value.kind # "monostate"

\* The transaction changes that row only, and brings it to the value of the
\* request, with a stamp, before it is committed.
SetInv ==
    LET new == TypeForValue(req.value) IN
    /\ pc = "insertKey" => KeysNamed(disk, req.name) = {}
    /\ pc \in Moving => TargetInv /\ OthersSame(disk, work, cur.id)
    /\ pc = "insertValue" => ~IsKey(disk, cur.id)
    /\ pc \in {"updateType", "deleteOld", "upsert", "stamp"} => IsKey(disk, cur.id)
    /\ pc \in {"stamp", "commit"} =>
          /\ work.keys[cur.id].type = new
          /\ new # "Null" => work.vals[new][cur.id] = req.value.data
    /\ pc = "commit" /\ IsKey(disk, cur.id) => work.keys[cur.id].updatedAt >= began

\* getKey reads the value of the row it has found.
ReadInv ==
    pc = "getValue" =>
        /\ cur.id \in KeysNamed(disk, req.name)
        /\ disk.keys[cur.id].type = cur.type /\ cur.type # "Null"

\* Together with the invariant of DataStoreProofs.
Refining == Inductive /\ RequestInv /\ ReadInv /\ SetInv /\ SetsFailOnlyWhenRefused

\* At first there is no call.
LEMMA InitRefining == Init => Refining
<1> SUFFICES ASSUME Init PROVE Refining
  OBVIOUS
<1>1. RequestInv
  BY DEF Init, RequestInv, Down
<1>2. SetInv
  BY DEF Init, SetInv, Moving
<1>3. SetsFailOnlyWhenRefused
  BY AssignedTypes DEF Init, SetsFailOnlyWhenRefused
<1>4. ReadInv
  BY DEF Init, ReadInv
<1> QED
  BY <1>1, <1>2, <1>3, <1>4, InitInductive DEF Refining

\* Only Invoke and Crash change the request, and only they and Tick a time.
LEMMA RequestInvKept == Inductive /\ RequestInv /\ [Next]_vars => RequestInv'
<1> SUFFICES ASSUME Inductive, RequestInv, [Next]_vars PROVE RequestInv'
  OBVIOUS
<1>1. CASE UNCHANGED <<req, now, began>> /\ (pc \in Down <=> pc' \in Down) /\ (pc = "idle" => pc' = "idle")
  BY <1>1 DEF RequestInv
<1>2. CASE UNCHANGED <<req, now, began>> /\ pc' = "idle"
  BY <1>2 DEF RequestInv, Down
<1>3. CASE UNCHANGED <<req, now, began>> /\ pc \in Down /\ pc' \in Down
  BY <1>3 DEF RequestInv
<1>4. CASE Invoke
  <2>1. pc' \notin Down /\ req' \in Requests
    BY <1>4 DEF Invoke, Requests, Down
  <2>2. began' <= now'
    BY <1>4 DEF Invoke, Inductive, TypeOK, Times
  <2> QED
    BY <2>1, <2>2 DEF RequestInv
<1>5. CASE Crash
  BY <1>5 DEF Crash, RequestInv, Down
<1>6. CASE Tick
  <2>1. began' <= now'
    BY <1>6 DEF Tick, Inductive, TypeOK, Times, RequestInv
  <2> QED
    BY <1>6, <2>1 DEF Tick, RequestInv
<1>7. CASE Fault
  BY <1>7, <1>2, <1>3 DEF Fault, Down
<1>8. CASE Start \/ OpenDatabase \/ InitSchema \/ CheckVersion
  BY <1>8, <1>2, <1>3 DEF Start, OpenDatabase, InitSchema, CheckVersion, Goto, Down
<1>9. CASE GetInfo \/ GetValue \/ SetInfo \/ InsertKey \/ InsertValue \/ UpdateType
  BY <1>9, <1>1, <1>2 DEF GetInfo, GetValue, SetInfo, InsertKey, InsertValue, UpdateType,
     Goto, Return, Throw, Down
<1>10. CASE DeleteOld \/ Upsert \/ UpdateKeyTimestamp \/ CommitSet \/ DeleteKey \/ DeleteSubkeys
  BY <1>10, <1>1, <1>2 DEF DeleteOld, Upsert, UpdateKeyTimestamp, CommitSet, DeleteKey,
     DeleteSubkeys, Goto, Return, Throw, Down
<1>11. CASE UNCHANGED vars
  BY <1>11, <1>1 DEF vars
<1> QED
  BY <1>4, <1>5, <1>6, <1>7, <1>8, <1>9, <1>10, <1>11 DEF Next

\* A call that returns leaves nothing to commit.
LEMMA SetInvOver ==
    ASSUME pc' \notin Moving \cup {"insertKey"}
    PROVE  SetInv'
BY DEF SetInv, Moving

\* setKey finds the row, or that there is none; nothing has changed yet.
LEMMA SetInfoSetInv == Inductive /\ SetInfo => SetInv'
<1> SUFFICES ASSUME Inductive, SetInfo PROVE SetInv'
  OBVIOUS
<1>0. work = disk /\ disk \in Databases
  BY DEF Inductive, TypeOK, TxnInv, Transactional, SetInfo
<1>1. CASE Throw
  BY <1>1, SetInvOver DEF Throw, Return, Moving
<1>2. CASE /\ KeysNamed(work, req.name) = {}
           /\ Begin /\ Goto("insertKey") /\ UNCHANGED cur
  BY <1>0, <1>2 DEF Begin, Goto, SetInv, Moving, KeysNamed, IsKey
<1>3. ASSUME NEW i \in KeysNamed(work, req.name),
             UpdateAllowed(work.keys[i].type, req.value),
             cur' = [id |-> Narrow(i), type |-> work.keys[i].type],
             Begin,
             Goto(IF work.keys[i].type # TypeForValue(req.value) THEN "updateType"
                  ELSE IF TypeForValue(req.value) # "Null" THEN "upsert"
                  ELSE "stamp")
      PROVE  SetInv'
  <2>1. /\ i \in Ids /\ IsKey(work, i) /\ work.keys[i].name = req.name
        /\ cur'.id = i /\ cur'.type = work.keys[i].type
    BY <1>0, <1>3, FoundKey DEF KeysNamed
  <2>2. /\ pc' \in {"updateType", "upsert", "stamp"} /\ UNCHANGED <<disk, work, req>>
        /\ pc' = "stamp" => work.keys[i].type = TypeForValue(req.value)
                              /\ TypeForValue(req.value) = "Null"
    BY <1>3 DEF Begin, Goto
  <2>3. TargetInv'
    BY <1>0, <1>3, <2>1, <2>2 DEF TargetInv, RowExists, IsKey
  <2>4. OthersSame(disk, work, cur.id)'
    BY <1>0, <2>2 DEF OthersSame
  <2>5. IsKey(disk, cur.id)'
    BY <1>0, <2>1, <2>2 DEF IsKey
  <2> QED
    BY <2>1, <2>2, <2>3, <2>4, <2>5 DEF SetInv
<1> QED
  BY <1>1, <1>2, <1>3 DEF SetInfo
\* The row that insertKey adds has an id that no committed row has.
LEMMA InsertKeySetInv == Inductive /\ SetInv /\ InsertKey => SetInv'
<1> SUFFICES ASSUME Inductive, SetInv, InsertKey PROVE SetInv'
  OBVIOUS
<1>0. pc = "insertKey" /\ pc \in Transactional \ {"init"}
  BY DEF InsertKey, Transactional
<1>1. CASE Throw
  BY <1>1, SetInvOver DEF Throw, Return, Moving
<1>2. CASE ~Throw
  <2> DEFINE new == TypeForValue(req.value)
             i == work.seq + 1
             row == [name |-> req.name, type |-> new, createdAt |-> now, updatedAt |-> now]
  <2>1. /\ work.seq < MaxId /\ KeysNamed(work, req.name) = {}
        /\ work' = KeyInserted(work, req.name, new, now)
        /\ cur' = [id |-> i, type |-> new]
        /\ pc' = IF new = "Null" THEN "commit" ELSE "insertValue"
        /\ UNCHANGED <<disk, req>>
    BY <1>0, <1>2, InSet DEF InsertKey, Apply, Goto
  <2>2. /\ req.name \in Keys /\ work = disk /\ req.value.kind # "monostate"
        /\ IdsAllocated(disk)
    BY <1>0 DEF Inductive, StepInv, RowsConsistent
  <2>3. /\ work' \in Databases /\ i \in Ids /\ work'.vals = work.vals
        /\ work'.keys = [work.keys EXCEPT ![i] = row]
    <3>1. work \in Databases /\ new \in Types /\ now \in Times
      BY <1>0, InSet
    <3> HIDE DEF new
    <3> QED
      BY <2>1, <2>2, <3>1, KeyInsertedDb
  <2>4. ~IsKey(disk, i)
    BY <1>0, <2>2, <2>3, InSet DEF IdsAllocated, Databases, Ids
  <2>5. /\ work'.keys[i] = row /\ IsKey(work', i)
        /\ \A j \in Ids \ {i} : work'.keys[j] = work.keys[j]
    <3>1. work'.keys[i] = row /\ \A j \in Ids \ {i} : work'.keys[j] = work.keys[j]
      BY <1>0, <2>3, InSet DEF Databases
    <3>2. row # NoRow
      BY <2>2, NamesAssumption DEF NoRow
    <3> QED
      BY <3>1, <3>2 DEF IsKey
  <2> HIDE DEF i, new
  <2>6. TargetInv'
    BY <2>1, <2>2, <2>3, <2>4, <2>5 DEF TargetInv, RowExists, IsKey
  <2>7. OthersSame(disk, work, cur.id)'
    BY <2>1, <2>2, <2>3, <2>5 DEF OthersSame
  <2>8. work'.keys[cur'.id].type = new /\ ~IsKey(disk', cur'.id)
    BY <2>1, <2>4, <2>5
  <2> QED
    BY <2>1, <2>6, <2>7, <2>8 DEF SetInv, new
<1> QED
  BY <1>1, <1>2

\* Where a statement changes the value rows of the key, the rest stays.
LEMMA TargetKept ==
    ASSUME Inductive, SetInv, pc \in Moving, UNCHANGED <<disk, cur, req>>,
           work' \in Databases, IsKey(work', cur.id), work'.keys[cur.id].name = work.keys[cur.id].name,
           OthersSame(work, work', cur.id)
    PROVE  TargetInv' /\ OthersSame(disk, work, cur.id)'
<1>1. TargetInv /\ OthersSame(disk, work, cur.id)
  BY DEF SetInv
<1>2. TargetInv'
  BY <1>1 DEF TargetInv, RowExists, IsKey
<1>3. OthersSame(disk, work, cur.id)'
  BY <1>1 DEF OthersSame
<1> QED
  BY <1>2, <1>3

\* insertKey writes the value of the request.
LEMMA InsertValueSetInv == Inductive /\ SetInv /\ InsertValue => SetInv'
<1> SUFFICES ASSUME Inductive, SetInv, InsertValue PROVE SetInv'
  OBVIOUS
<1>0. pc = "insertValue" /\ pc \in Transactional \ {"init"}
  BY DEF InsertValue, Transactional
<1>1. CASE Throw
  BY <1>1, SetInvOver DEF Throw, Return, Moving
<1>2. CASE ~Throw
  <2> DEFINE new == TypeForValue(req.value)
  <2>1. /\ work' = ValueWritten(work, cur.type, cur.id, req.value.data)
        /\ pc' = "commit" /\ UNCHANGED <<disk, cur, req>>
    BY <1>0, <1>2, InSet DEF InsertValue, Apply, Goto
  <2>2. /\ cur.id \in Ids /\ IsKey(work, cur.id) /\ work.keys[cur.id].type = new
        /\ cur.type = new /\ new # "Null" /\ ~IsKey(disk, cur.id)
    BY <1>0 DEF Inductive, StepInv, MovingRow, RowExists, SetInv
  <2>3. work \in Databases /\ new \in ValueTypes /\ req.value.data \in Data
    BY <1>0, <2>2, InSet
  <2> HIDE DEF new
  <2>4. /\ work' \in Databases /\ work'.keys = work.keys
        /\ \A u \in ValueTypes, j \in Ids :
              work'.vals[u][j] = IF u = new /\ j = cur.id THEN req.value.data ELSE work.vals[u][j]
    BY <2>1, <2>2, <2>3, ValueWrittenDb
  <2>5. TargetInv' /\ OthersSame(disk, work, cur.id)'
    BY <1>0, <2>1, <2>2, <2>4, TargetKept DEF Moving, OthersSame, IsKey
  <2>6. work'.keys[cur.id].type = new /\ work'.vals[new][cur.id] = req.value.data
    BY <2>2, <2>3, <2>4
  <2>7. ~IsKey(disk, cur.id)'
    BY <2>1, <2>2 DEF IsKey
  <2> QED
    BY <2>1, <2>5, <2>6, <2>7 DEF SetInv, new
<1> QED
  BY <1>1, <1>2

\* updateKey changes the type of the row it has found.
LEMMA UpdateTypeSetInv == Inductive /\ SetInv /\ UpdateType => SetInv'
<1> SUFFICES ASSUME Inductive, SetInv, UpdateType PROVE SetInv'
  OBVIOUS
<1>0. pc = "updateType" /\ pc \in Transactional \ {"init"}
  BY DEF UpdateType, Transactional
<1>1. CASE Throw
  BY <1>1, SetInvOver DEF Throw, Return, Moving
<1>2. CASE ~Throw
  <2> DEFINE new == TypeForValue(req.value)
  <2>1. /\ work' = Retyped(work, cur.id, new) /\ pc' = "deleteOld" /\ UNCHANGED <<disk, cur, req>>
    BY <1>0, <1>2, InSet DEF UpdateType, Apply, Goto
  <2>2. cur.id \in Ids /\ IsKey(work, cur.id) /\ IsKey(disk, cur.id)
    BY <1>0 DEF Inductive, StepInv, MovingRow, RowExists, SetInv
  <2>3. work \in Databases /\ new \in Types
    BY <1>0, InSet
  <2> HIDE DEF new
  <2>4. /\ work' \in Databases /\ work'.vals = work.vals
        /\ work'.keys = [work.keys EXCEPT ![cur.id] = [work.keys[cur.id] EXCEPT !.type = new]]
        /\ work'.keys[cur.id] \in Rows /\ work'.keys[cur.id].name = work.keys[cur.id].name
    BY <2>1, <2>2, <2>3, RetypedDb
  <2>5. IsKey(work', cur.id) /\ OthersSame(work, work', cur.id)
    BY <2>3, <2>4, NoRowIsNoKey DEF IsKey, OthersSame, Databases
  <2>6. TargetInv' /\ OthersSame(disk, work, cur.id)'
    BY <1>0, <2>1, <2>4, <2>5, TargetKept DEF Moving
  <2> QED
    BY <2>1, <2>2, <2>6 DEF SetInv, IsKey
<1> QED
  BY <1>1, <1>2

\* updateKey deletes a value row of that key.
LEMMA DeleteOldSetInv == Inductive /\ SetInv /\ DeleteOld => SetInv'
<1> SUFFICES ASSUME Inductive, SetInv, DeleteOld PROVE SetInv'
  OBVIOUS
<1>0. pc = "deleteOld" /\ pc \in Transactional \ {"init"}
  BY DEF DeleteOld, Transactional
<1>1. CASE Throw
  BY <1>1, SetInvOver DEF Throw, Return, Moving
<1>2. CASE ~Throw
  <2> DEFINE new == TypeForValue(req.value)
  <2>1. /\ work' = ValueDeleted(work, cur.type, cur.id) /\ cur.type \in ValueTypes
        /\ pc' = (IF new # "Null" THEN "upsert" ELSE "stamp") /\ UNCHANGED <<disk, cur, req>>
    BY <1>0, <1>2, InSet DEF DeleteOld, Apply, Goto
  <2>2. /\ cur.id \in Ids /\ IsKey(work, cur.id) /\ work.keys[cur.id].type = new
        /\ IsKey(disk, cur.id) /\ work \in Databases
    BY <1>0, InSet DEF Inductive, StepInv, MovingRow, RowExists, SetInv
  <2>4. /\ work' \in Databases /\ work'.keys = work.keys
        /\ \A u \in ValueTypes, j \in Ids :
              work'.vals[u][j] = IF u = cur.type /\ j = cur.id THEN NoData ELSE work.vals[u][j]
    <3> HIDE DEF new
    <3> QED
      BY <2>1, <2>2, ValueDeletedDb, SMTT(60)
  <2>5. TargetInv' /\ OthersSame(disk, work, cur.id)'
    BY <1>0, <2>1, <2>2, <2>4, TargetKept DEF Moving, OthersSame, IsKey
  <2> QED
    BY <2>1, <2>2, <2>4, <2>5 DEF SetInv, IsKey
<1> QED
  BY <1>1, <1>2

\* updateKey writes the value of the request.
LEMMA UpsertSetInv == Inductive /\ SetInv /\ Upsert => SetInv'
<1> SUFFICES ASSUME Inductive, SetInv, Upsert PROVE SetInv'
  OBVIOUS
<1>0. pc = "upsert" /\ pc \in Transactional \ {"init"}
  BY DEF Upsert, Transactional
<1>1. CASE Throw
  BY <1>1, SetInvOver DEF Throw, Return, Moving
<1>2. CASE ~Throw
  <2> DEFINE new == TypeForValue(req.value)
  <2>1. /\ work' = ValueWritten(work, new, cur.id, req.value.data)
        /\ pc' = "stamp" /\ UNCHANGED <<disk, cur, req>>
    BY <1>0, <1>2, InSet DEF Upsert, Apply, Goto
  <2>2. /\ cur.id \in Ids /\ IsKey(work, cur.id) /\ work.keys[cur.id].type = new
        /\ new # "Null" /\ IsKey(disk, cur.id)
    BY <1>0 DEF Inductive, StepInv, MovingRow, RowExists, SetInv
  <2>3. work \in Databases /\ new \in ValueTypes /\ req.value.data \in Data
    BY <1>0, <2>2, InSet
  <2> HIDE DEF new
  <2>4. /\ work' \in Databases /\ work'.keys = work.keys
        /\ \A u \in ValueTypes, j \in Ids :
              work'.vals[u][j] = IF u = new /\ j = cur.id THEN req.value.data ELSE work.vals[u][j]
    BY <2>1, <2>2, <2>3, ValueWrittenDb
  <2>5. TargetInv' /\ OthersSame(disk, work, cur.id)'
    BY <1>0, <2>1, <2>2, <2>4, TargetKept DEF Moving, OthersSame, IsKey
  <2>6. work'.keys[cur.id].type = new /\ work'.vals[new][cur.id] = req.value.data
    BY <2>2, <2>3, <2>4
  <2> QED
    BY <2>1, <2>2, <2>5, <2>6 DEF SetInv, IsKey, new
<1> QED
  BY <1>1, <1>2

\* The stamp is the time now, which is not before the call began.
LEMMA UpdateKeyTimestampSetInv == Inductive /\ RequestInv /\ SetInv /\ UpdateKeyTimestamp => SetInv'
<1> SUFFICES ASSUME Inductive, RequestInv, SetInv, UpdateKeyTimestamp PROVE SetInv'
  OBVIOUS
<1>0. pc = "stamp" /\ pc \in Transactional \ {"init"}
  BY DEF UpdateKeyTimestamp, Transactional
<1>1. CASE Throw
  BY <1>1, SetInvOver DEF Throw, Return, Moving
<1>2. CASE ~Throw
  <2> DEFINE new == TypeForValue(req.value)
  <2>1. /\ work' = Stamped(work, cur.id, now) /\ pc' = "commit" /\ UNCHANGED <<disk, cur, req, began>>
    BY <1>0, <1>2, InSet DEF UpdateKeyTimestamp, Apply, Goto
  <2>2. /\ cur.id \in Ids /\ IsKey(work, cur.id) /\ IsKey(disk, cur.id)
        /\ work.keys[cur.id].type = new
        /\ new # "Null" => work.vals[new][cur.id] = req.value.data
    BY <1>0 DEF Inductive, StepInv, RowExists, SetInv
  <2>3. work \in Databases /\ now \in Times
    BY <1>0, InSet
  <2> HIDE DEF new
  <2>4. /\ work' \in Databases /\ work'.vals = work.vals
        /\ work'.keys = [work.keys EXCEPT ![cur.id] = [work.keys[cur.id] EXCEPT !.updatedAt = now]]
        /\ work'.keys[cur.id] \in Rows /\ work'.keys[cur.id].name = work.keys[cur.id].name
        /\ work'.keys[cur.id].type = new
    BY <2>1, <2>2, <2>3, StampedDb
  <2>5. IsKey(work', cur.id) /\ OthersSame(work, work', cur.id)
    BY <2>3, <2>4, NoRowIsNoKey DEF IsKey, OthersSame, Databases
  <2>6. TargetInv' /\ OthersSame(disk, work, cur.id)'
    BY <1>0, <2>1, <2>4, <2>5, TargetKept DEF Moving
  <2>7. work'.keys[cur.id].updatedAt = now
    <3>1. work.keys[cur.id] \in Rows
      BY <2>2, <2>3 DEF Databases, IsKey
    <3> QED
      BY <2>2, <2>3, <2>4, <3>1 DEF Rows, Databases
  <2>8. work'.keys[cur.id].updatedAt >= began'
    BY <2>1, <2>7 DEF RequestInv, Inductive, TypeOK, Times
  <2> QED
    BY <2>1, <2>2, <2>4, <2>6, <2>8 DEF SetInv, new
<1> QED
  BY <1>1, <1>2
\* A call that throws leaves the map alone; so does one that is cut off.
LEMMA ThrowKeeps == Throw => disk' = disk /\ req' = req /\ resp' = Failed /\ faulted' = faulted
BY DEF Throw, Rollback, Return

\* setKey and what it calls throw for one of the reasons setKey gives, or because
\* the table of type null does not exist (updateKey).
LEMMA ThrowRefused ==
    ASSUME Refining, Throw, SetInfo \/ InsertKey \/ InsertValue \/ UpdateType \/ DeleteOld
                               \/ Upsert \/ UpdateKeyTimestamp
    PROVE  SetsFailOnlyWhenRefused'
<1> DEFINE old == View(disk)[req.name]
           new == TypeForValue(req.value)
<1>0. /\ req \in Requests /\ req.name \in Names /\ disk \in Databases
      /\ NamesUnique(disk) /\ UNCHANGED <<disk, req>>
  <2>1. pc \notin Down \cup {"idle"}
    BY DEF SetInfo, InsertKey, InsertValue, UpdateType, DeleteOld, Upsert, UpdateKeyTimestamp, Down
  <2>2. req \in Requests
    BY <2>1 DEF Refining, RequestInv
  <2> QED
    BY <2>2, ThrowKeeps DEF Refining, Inductive, TypeOK, RowsConsistent, Requests
<1>1. SUFFICES \/ SetRefused(old, req.value)
               \/ old = NullValue /\ new # "Null"
  BY <1>0 DEF SetsFailOnlyWhenRefused, SetRefused
<1>2. CASE SetInfo
  <2>0. work = disk /\ req.value \in Inputs
    BY <1>2 DEF Refining, Inductive, TxnInv, Transactional, CallInv, SetInfo
  <2>1. CASE KeysNamed(work, req.name) = {}
    <3>1. old = Absent
      BY <1>0, <2>0, <2>1, ViewMissing
    <3>2. req.name = EmptyName \/ req.value.kind = "monostate"
      BY <1>2, <2>1 DEF SetInfo, Throw, Return, Goto
    <3> QED
      BY <3>1, <3>2 DEF SetRefused
  <2>2. ASSUME NEW i \in KeysNamed(work, req.name), ~UpdateAllowed(work.keys[i].type, req.value)
        PROVE  SetRefused(old, req.value)
    <3>1. i \in Ids /\ IsKey(disk, i) /\ old = RowValue(disk, i)
      BY <1>0, <2>0, <2>2, ViewFound DEF KeysNamed
    <3>2. old.type = disk.keys[i].type
      BY <1>0, <3>1, RowValueType
    <3>3. old.type \in ValueTypes
      BY <1>0, <2>0, <2>2, <3>1, <3>2 DEF Databases, IsKey, Rows, Types, UpdateAllowed
    <3> QED
      BY <2>0, <2>2, <3>2, <3>3 DEF UpdateAllowed, SetRefused
  <2> QED
    BY <1>2, <2>1, <2>2 DEF SetInfo, Throw, Return, Goto
<1>3. CASE InsertKey
  <2>1. work = disk /\ KeysNamed(disk, req.name) = {}
    BY <1>3 DEF Refining, Inductive, StepInv, SetInv, InsertKey
  <2>2. disk.seq = MaxId
    BY <1>3, <2>1 DEF InsertKey, Throw, Return, Goto
  <2> QED
    BY <1>0, <2>1, <2>2, ViewMissing DEF SetRefused
<1>4. CASE DeleteOld
  <2>1. /\ cur.id \in Ids /\ IsKey(disk, cur.id) /\ disk.keys[cur.id].name = req.name
        /\ disk.keys[cur.id].type = cur.type /\ cur.type # new
    BY <1>4 DEF Refining, Inductive, StepInv, SetInv, TargetInv, RowExists, Moving, DeleteOld
  <2>2. cur.type = "Null"
    <3>1. cur.type \notin ValueTypes
      BY <1>4 DEF DeleteOld, Throw, Return, Goto
    <3>2. cur.type \in Types
      BY DEF Refining, Inductive, TypeOK
    <3> QED
      BY <3>1, <3>2 DEF Types
  <2>3. old = RowValue(disk, cur.id)
    BY <1>0, <2>1, ViewFound DEF KeysNamed
  <2> QED
    BY <2>1, <2>2, <2>3 DEF RowValue
<1>5. CASE InsertValue
  <2>1. /\ IsKey(work, cur.id) /\ cur.id \in Ids /\ cur.type \in ValueTypes
        /\ \A t \in ValueTypes : work.vals[t][cur.id] = NoData
    BY <1>5 DEF Refining, Inductive, TypeOK, StepInv, MovingRow, RowExists, InsertValue, Types
  <2> QED
    BY <1>5, <2>1 DEF InsertValue, HasValue, Throw, Return, Goto
<1>6. CASE UpdateType
  BY <1>6 DEF Refining, Inductive, StepInv, MovingRow, UpdateType, Throw, Return, Goto
<1>7. CASE Upsert
  BY <1>7 DEF Refining, Inductive, StepInv, MovingRow, Upsert, Throw, Return, Goto
<1>8. CASE UpdateKeyTimestamp
  BY <1>8 DEF Refining, Inductive, StepInv, UpdateKeyTimestamp, Throw, Return, Goto
<1> QED
  BY <1>2, <1>3, <1>4, <1>5, <1>6, <1>7, <1>8

\* A set fails only for those reasons, or when SQLite does, and the reason still
\* holds while the outcome is that of the latest call.
LEMMA RefusedKept == Refining /\ Inductive' /\ [Next]_vars => SetsFailOnlyWhenRefused'
<1> SUFFICES ASSUME Refining, Inductive', [Next]_vars PROVE SetsFailOnlyWhenRefused'
  OBVIOUS
<1>1. CASE pc' # "idle"
  BY <1>1, AssignedTypes DEF Inductive, CallInv, SetsFailOnlyWhenRefused
<1>2. CASE UNCHANGED <<disk, req, resp, faulted>>
  BY <1>2 DEF Refining, SetsFailOnlyWhenRefused, SetRefused
<1>3. CASE resp' # Failed \/ req'.op # "set" \/ faulted' = TRUE
  BY <1>3 DEF SetsFailOnlyWhenRefused
<1>4. CASE Throw /\ (SetInfo \/ InsertKey \/ InsertValue \/ UpdateType \/ DeleteOld
                        \/ Upsert \/ UpdateKeyTimestamp)
  BY <1>4, ThrowRefused
<1>5. CASE Start \/ OpenDatabase \/ InitSchema \/ CheckVersion \/ Tick \/ UNCHANGED vars
  <2>1. CASE pc' = "idle" /\ (CheckVersion \/ Tick \/ UNCHANGED vars)
    BY <1>2, <2>1 DEF CheckVersion, Goto, Tick, vars
  <2> QED
    BY <1>1, <1>5, <2>1 DEF Start, OpenDatabase, InitSchema, Goto
<1>6. CASE Invoke \/ Crash
  BY <1>6, <1>1 DEF Invoke, Crash, Requests
<1>7. CASE GetInfo \/ GetValue \/ DeleteKey \/ DeleteSubkeys
  <2>1. req.op # "set" /\ req' = req
    BY <1>7 DEF Refining, Inductive, CallInv, GetInfo, GetValue, DeleteKey, DeleteSubkeys,
       Return, Goto, Throw
  <2> QED
    BY <1>3, <2>1
<1>8. CASE CommitSet
  BY <1>8, <1>3, AssignedTypes DEF CommitSet, Return
<1>9. CASE Fault
  BY <1>9, <1>1, <1>3 DEF Fault
<1>10. CASE SetInfo \/ InsertKey \/ InsertValue \/ UpdateType \/ DeleteOld
               \/ Upsert \/ UpdateKeyTimestamp
  BY <1>10, <1>1, <1>4 DEF SetInfo, InsertKey, InsertValue, UpdateType, DeleteOld, Upsert,
     UpdateKeyTimestamp, Goto
<1> QED
  BY <1>5, <1>6, <1>7, <1>8, <1>9, <1>10 DEF Next

\* Every step keeps the invariant.
LEMMA NextRefining == Refining /\ [Next]_vars => Refining'
<1> SUFFICES ASSUME Refining, [Next]_vars PROVE Refining'
  OBVIOUS
<1> USE DEF Refining
<1>1. Inductive' /\ RequestInv'
  BY NextInductive, RequestInvKept
<1>2. SetInv'
  <2>1. CASE SetInfo \/ InsertKey \/ InsertValue \/ UpdateType \/ DeleteOld
               \/ Upsert \/ UpdateKeyTimestamp
    BY <2>1, SetInfoSetInv, InsertKeySetInv, InsertValueSetInv, UpdateTypeSetInv,
       DeleteOldSetInv, UpsertSetInv, UpdateKeyTimestampSetInv
  <2>2. CASE Tick \/ UNCHANGED vars
    <3>1. UNCHANGED <<disk, work, pc, req, cur, began>>
      BY <2>2 DEF Tick, vars
    <3> QED
      BY <3>1 DEF SetInv, TargetInv, OthersSame, RowExists, IsKey
  <2>3. CASE Start \/ OpenDatabase \/ InitSchema \/ CheckVersion \/ Invoke \/ GetInfo \/ GetValue
    BY <2>3, SetInvOver DEF Start, OpenDatabase, InitSchema, CheckVersion, Invoke, GetInfo,
       GetValue, Goto, Return, Throw, Moving, Requests
  <2>4. CASE CommitSet \/ DeleteKey \/ DeleteSubkeys \/ Fault \/ Crash
    BY <2>4, SetInvOver DEF CommitSet, DeleteKey, DeleteSubkeys, Fault, Crash, Return, Throw, Moving
  <2> QED
    BY <2>1, <2>2, <2>3, <2>4 DEF Next
<1>3. ReadInv'
  <2>1. CASE pc' # "getValue"
    BY <2>1 DEF ReadInv
  <2>2. CASE GetInfo /\ pc' = "getValue"
    <3>0. work = disk /\ disk \in Databases /\ UNCHANGED <<disk, req>>
      BY <2>2 DEF GetInfo, Goto, Return, Inductive, TypeOK, TxnInv, Transactional
    <3>1. PICK i \in KeysNamed(disk, req.name) :
             /\ disk.keys[i].type # "Null"
             /\ cur' = [id |-> Narrow(i), type |-> disk.keys[i].type]
      BY <2>2, <3>0 DEF GetInfo, Return
    <3>2. cur'.id = i /\ cur'.type = disk.keys[i].type
      BY <3>0, <3>1, FoundKey
    <3> QED
      BY <3>0, <3>1, <3>2 DEF ReadInv, KeysNamed, IsKey
  <2>3. CASE Tick \/ UNCHANGED vars
    BY <2>3 DEF Tick, vars, ReadInv, KeysNamed, IsKey
  <2>4. CASE Invoke
    BY <2>1, <2>4 DEF Invoke, Requests
  <2> QED
    BY <2>1, <2>2, <2>3, <2>4 DEF Next, Start, OpenDatabase, InitSchema, CheckVersion, GetValue,
       SetInfo, InsertKey, InsertValue, UpdateType, DeleteOld, Upsert, UpdateKeyTimestamp,
       CommitSet, DeleteKey, DeleteSubkeys, Fault, Crash, Goto, Return, Throw
<1> QED
  BY <1>1, <1>2, <1>3, RefusedKept

\* The invariant holds in every reachable state, for all keys, values and inputs.
THEOREM RefiningInvariant == Spec => []Refining
BY InitRefining, NextRefining, PTL DEF Spec

\* Nothing refuses a set but what setKey says and, for a null key, the missing
\* table of type null (DataStore.cpp, setKey and updateKey).
THEOREM SetsAlwaysFailOnlyWhenRefused == Spec => []SetsFailOnlyWhenRefused
<1>1. Refining => SetsFailOnlyWhenRefused
  BY DEF Refining
<1> QED
  BY <1>1, RefiningInvariant, PTL
(***************************************************************************)
(* The refinement, step by step.                                           *)
(***************************************************************************)

\* The values and outcomes of KVStore are those of DataStore.
LEMMA SameValues ==
    /\ KV!Names = Names /\ KV!Absent = Absent /\ KV!NullValue = NullValue
    /\ KV!NoRequest = NoRequest /\ KV!Requests = Requests
    /\ KV!Pending = Pending /\ KV!Failed = Failed /\ \A v : KV!Done(v) = Done(v)
    /\ \A v : KV!TypeForValue(v) = TypeForValue(v)
<1>1. KV!Names = Names /\ KV!Absent = Absent /\ KV!NullValue = NullValue /\ KV!NoValue = NoValue
  BY DEF KV!Names, Names, KV!Absent, Absent, KV!NullValue, NullValue, KV!NoValue, NoValue
<1>2. KV!NoRequest = NoRequest /\ KV!Requests = Requests
  BY <1>1 DEF KV!NoRequest, NoRequest, KV!Requests, Requests
<1>3. KV!Pending = Pending /\ KV!Failed = Failed /\ \A v : KV!Done(v) = Done(v)
  BY <1>1 DEF KV!Pending, Pending, KV!Failed, Failed, KV!Done, Done
<1>4. \A v : KV!TypeForValue(v) = TypeForValue(v)
  BY DEF KV!TypeForValue, TypeForValue
<1> QED
  BY <1>1, <1>2, <1>3, <1>4

\* Either database the daemon may find at first stands for the empty map.
LEMMA InitRefines == Init => KV!KVInit
<1> SUFFICES ASSUME Init PROVE KV!KVInit
  OBVIOUS
<1>1. \A n \in Names : View(disk)[n] = Absent
  BY EmptyDbType, ViewMissing DEF Init, KeysNamed
<1>2. View(disk) = [n \in Names |-> Absent]
  BY <1>1, ViewFunction
<1> QED
  BY <1>2, SameValues DEF Init, KV!KVInit, Down

\* The phase of the map while statement l is next.
Phase(l) == IF l \in Down THEN "down" ELSE IF l = "idle" THEN "idle" ELSE "busy"

\* Steps that the map does not see.
LEMMA Stutters ==
    ASSUME View(disk') = View(disk), Phase(pc') = Phase(pc), UNCHANGED <<req, resp>>
    PROVE  UNCHANGED KV!kvVars
BY DEF Phase, KV!kvVars

\* A call that throws fails.
LEMMA FailsAbstractly ==
    ASSUME disk' = disk, Phase(pc) = "busy", pc' = "idle", req' = req, resp' = Failed
    PROVE  KV!KVNext
<1>1. KV!Fail
  BY SameValues DEF Phase, KV!Fail, KV!Return, Down
<1> QED
  BY <1>1 DEF KV!KVNext

\* The commit of a set is the atomic step that changes the value of its key.
LEMMA CommitRefines == Refining /\ CommitSet => KV!Set
<1> SUFFICES ASSUME Refining, CommitSet PROVE KV!Set
  OBVIOUS
<1> DEFINE n == req.name
           new == TypeForValue(req.value)
           i == cur.id
<1>1. /\ pc = "commit" /\ pc' = "idle" /\ disk' = work /\ req' = req /\ resp' = Done(Absent)
      /\ req.op = "set" /\ req \in Requests /\ n \in Names /\ disk \in Databases
      /\ work \in Databases /\ NamesUnique(disk) /\ NamesUnique(work)
  <2>1. req.op = "set" /\ req \in Requests
    BY DEF Refining, Inductive, CallInv, Transactional, RequestInv, CommitSet, Down
  <2> QED
    BY <2>1 DEF Refining, Inductive, TypeOK, RowsConsistent, StepInv, CommitSet, Commit, Return, Requests
<1>2. /\ i \in Ids /\ IsKey(work, i) /\ work.keys[i].name = n /\ work.keys[i].type = new
      /\ new # "Null" => work.vals[new][i] = req.value.data
      /\ TargetInv /\ OthersSame(disk, work, i)
  BY <1>1 DEF Refining, SetInv, TargetInv, RowExists, Moving
<1>3. n # EmptyName
  <2>1. work.keys[i] \in Rows
    BY <1>1, <1>2 DEF Databases, IsKey
  <2> QED
    BY <1>2, <2>1, NamesAssumption DEF Rows
<1>4. View(work)[n] = RowValue(work, i)
  BY <1>1, <1>2, ViewFound DEF KeysNamed
<1>5. View(work)[n] = KV!Stored(req.value)
  BY <1>2, <1>4, SameValues DEF RowValue, KV!Stored
<1>6. \A m \in Names \ {n} : View(work)[m] = View(disk)[m]
  BY <1>1, <1>2, ViewOthers DEF TargetInv
<1>7. View(disk') = [View(disk) EXCEPT ![n] = KV!Stored(req.value)]
  <2>1. \A m \in Names : View(work)[m] = [View(disk) EXCEPT ![n] = KV!Stored(req.value)][m]
    BY <1>1, <1>5, <1>6, ViewFunction
  <2> QED
    BY <1>1, <2>1, ViewFunction
<1>8. KV!MayReplace(View(disk)[n], req.value)
  <2>1. CASE IsKey(disk, i)
    <3>1. View(disk)[n] = RowValue(disk, i)
      BY <1>1, <1>2, <2>1, ViewFound DEF KeysNamed, TargetInv
    <3>2. RowValue(disk, i).type = disk.keys[i].type
      BY <1>1, <1>2, <2>1, RowValueType
    <3>3. UpdateAllowed(disk.keys[i].type, req.value)
      BY <1>2, <2>1 DEF TargetInv
    <3> QED
      BY <3>1, <3>2, <3>3, SameValues DEF UpdateAllowed, KV!MayReplace, RowValue
  <2>2. CASE ~IsKey(disk, i)
    BY <1>1, <1>2, <2>2, ViewMissing, SameValues DEF TargetInv, KV!MayReplace
  <2> QED
    BY <2>1, <2>2
<1> QED
  BY <1>1, <1>3, <1>7, <1>8, SameValues DEF KV!Set, KV!Return, Down

\* getKey returns what the map holds.
LEMMA GetRefines ==
    ASSUME Refining, GetInfo \/ GetValue, pc' = "idle"
    PROVE  KV!Get
<1>1. /\ Phase(pc) = "busy" /\ req.op = "get" /\ req \in Requests /\ req.name \in Names
      /\ disk \in Databases /\ NamesUnique(disk) /\ work = disk /\ UNCHANGED <<disk, req>>
  <2>1. pc \in {"getInfo", "getValue"}
    BY DEF GetInfo, GetValue
  <2>2. /\ Phase(pc) = "busy" /\ req.op = "get" /\ req \in Requests
        /\ disk \in Databases /\ NamesUnique(disk) /\ work = disk
    BY <2>1 DEF Phase, Down, Refining, Inductive, TypeOK, TxnInv, Transactional, CallInv,
       RequestInv, RowsConsistent
  <2> QED
    BY <2>2 DEF GetInfo, GetValue, Return, Goto, Throw, Rollback, Requests
<1>2. resp' = Done(View(disk)[req.name])
  <2>1. CASE GetInfo
    <3>1. CASE KeysNamed(work, req.name) = {} /\ Return(Done(Absent))
      BY <1>1, <3>1, ViewMissing DEF Return
    <3>2. ASSUME NEW i \in KeysNamed(work, req.name), work.keys[i].type = "Null",
                 Return(Done(NullValue))
          PROVE  resp' = Done(View(disk)[req.name])
      BY <1>1, <3>2, ViewFound DEF RowValue, Return
    <3> QED
      BY <2>1, <3>1, <3>2 DEF GetInfo, Goto
  <2>2. CASE GetValue
    <3>1. /\ pc = "getValue" /\ HasValue(work, cur.type, cur.id)
          /\ resp' = Done([type |-> cur.type, data |-> work.vals[cur.type][cur.id]])
      BY <2>2 DEF GetValue, Refining, Inductive, StepInv, Return
    <3>2. View(disk)[req.name] = RowValue(disk, cur.id)
      BY <1>1, <3>1, ViewFound DEF Refining, ReadInv, KeysNamed
    <3> QED
      BY <1>1, <3>1, <3>2 DEF RowValue, Refining, ReadInv
  <2> QED
    BY <2>1, <2>2
<1> QED
  BY <1>1, <1>2, SameValues DEF KV!Get, KV!Return, Phase, Down
\* deleteSubkeys takes the keys below the name out of the map.
LEMMA DeleteSubkeysRefines == Refining /\ DeleteSubkeys => KV!DeleteSubkeys
<1> SUFFICES ASSUME Refining, DeleteSubkeys PROVE KV!DeleteSubkeys
  OBVIOUS
<1> DEFINE below == Below[req.name]
           ids == {i \in Ids : IsKey(disk, i) /\ disk.keys[i].name \in below}
           e == KeysDeleted(disk, ids)
<1>1. /\ pc = "deleteSubkeys" /\ pc' = "idle" /\ req.op = "deleteSubkeys" /\ work = disk
      /\ disk' = e /\ req' = req /\ resp' = Done(Absent)
      /\ disk \in Databases /\ NamesUnique(disk) /\ IdsAllocated(disk) /\ ValuesMatchTypes(disk)
  BY DEF Refining, Inductive, TypeOK, TxnInv, Transactional, CallInv, RowsConsistent,
     DeleteSubkeys, Apply, Return
<1>2. /\ \A j \in Ids : e.keys[j] = IF j \in ids THEN NoRow ELSE disk.keys[j]
      /\ \A u \in ValueTypes, j \in Ids :
            e.vals[u][j] = IF j \in ids THEN NoData ELSE disk.vals[u][j]
      /\ NamesUnique(e)
  <2>1. ids \in SUBSET Ids
    OBVIOUS
  <2> HIDE DEF ids
  <2> QED
    BY <1>1, <2>1, KeysDeletedDb, DeletedRows
<1> HIDE DEF e
<1>3. \A j \in Ids : IsKey(e, j) <=> IsKey(disk, j) /\ j \notin ids
  BY <1>2 DEF IsKey
<1>4. ASSUME NEW n \in Names
      PROVE  View(e)[n] = IF n \in below THEN Absent ELSE View(disk)[n]
  <2>1. CASE n \in below
    <3>1. KeysNamed(e, n) = {}
      BY <1>2, <1>3, <2>1 DEF KeysNamed
    <3> QED
      BY <2>1, <3>1, ViewMissing
  <2>2. CASE n \notin below
    <3>1. KeysNamed(e, n) = KeysNamed(disk, n)
      BY <1>2, <1>3, <2>2 DEF KeysNamed
    <3>2. CASE KeysNamed(disk, n) = {}
      BY <2>2, <3>1, <3>2, ViewMissing
    <3>3. ASSUME NEW j \in KeysNamed(disk, n) PROVE View(e)[n] = View(disk)[n]
      <4>1. View(disk)[n] = RowValue(disk, j) /\ View(e)[n] = RowValue(e, j)
        BY <1>1, <1>2, <3>1, <3>3, ViewFound
      <4>2. j \in Ids /\ j \notin ids /\ disk.keys[j] \in Rows
        BY <1>1, <2>2 DEF KeysNamed, Databases, IsKey
      <4>3. disk.keys[j].type \in ValueTypes \cup {"Null"}
        BY <4>2 DEF Rows, Types
      <4> QED
        BY <1>2, <4>1, <4>2, <4>3 DEF RowValue
    <3> QED
      BY <2>2, <3>2, <3>3
  <2> QED
    BY <2>1, <2>2
<1>5. View(disk') = [n \in Names |-> IF n \in below THEN Absent ELSE View(disk)[n]]
  BY <1>1, <1>4, ViewFunction
<1> QED
  BY <1>1, <1>5, SameValues DEF KV!DeleteSubkeys, KV!Return, Down

\* The statements of initSchema and the version check are the opening of the map.
LEMMA OpeningRefines ==
    ASSUME Refining, Start \/ OpenDatabase \/ InitSchema \/ CheckVersion
    PROVE  KV!Open \/ UNCHANGED KV!kvVars
<1>1. pc \in Down /\ UNCHANGED <<req, resp>>
  BY DEF Start, OpenDatabase, InitSchema, CheckVersion, Goto, Down
<1>2. View(disk') = View(disk)
  <2>1. CASE InitSchema
    <3>1. pc = "init" /\ txn = TRUE /\ work.keys = disk.keys /\ work.vals = disk.vals
      BY <2>1 DEF InitSchema, Refining, Inductive, TxnInv, Transactional, SchemaInv
    <3>2. disk' = disk \/ disk' = work
      BY <2>1, <3>1 DEF InitSchema, Apply, Commit
    <3> QED
      BY <3>1, <3>2, ViewSame
  <2>2. CASE Start \/ OpenDatabase \/ CheckVersion
    BY <2>2 DEF Start, OpenDatabase, Begin, CheckVersion
  <2> QED
    BY <2>1, <2>2
<1>3. CASE pc' \in Down
  BY <1>1, <1>2, <1>3, Stutters DEF Phase
<1>4. CASE pc' \notin Down
  <2>1. pc' = "idle"
    BY <1>4 DEF Start, OpenDatabase, InitSchema, CheckVersion, Goto, Down
  <2> QED
    BY <1>1, <1>2, <2>1 DEF KV!Open, Down
<1> QED
  BY <1>3, <1>4

\* A crash forgets the call, if there is one.
LEMMA CrashRefines ==
    ASSUME Refining, Crash
    PROVE  KV!Crash \/ UNCHANGED KV!kvVars
<1>1. disk' = disk /\ pc' = "down" /\ req' = NoRequest /\ resp' = Pending
  BY DEF Crash, Rollback
<1>2. CASE pc \in Down
  <2>1. req = NoRequest /\ resp = Pending
    BY <1>2 DEF Refining, RequestInv, Inductive, CallInv, Down
  <2> QED
    BY <1>1, <1>2, <2>1, Stutters DEF Phase, Down
<1>3. CASE pc \notin Down
  BY <1>1, <1>3, SameValues DEF KV!Crash, Down
<1> QED
  BY <1>2, <1>3

\* Every step of the store is one step of the map, or none.
LEMMA NextRefines == Refining /\ [Next]_vars => [KV!KVNext]_(KV!kvVars)
<1> SUFFICES ASSUME Refining, [Next]_vars PROVE KV!KVNext \/ UNCHANGED KV!kvVars
  OBVIOUS
<1>1. CASE Start \/ OpenDatabase \/ InitSchema \/ CheckVersion
  BY <1>1, OpeningRefines DEF KV!KVNext
<1>2. CASE Invoke
  <2>1. pc = "idle" /\ Phase(pc') = "busy" /\ req' \in Requests /\ resp' = Pending /\ disk' = disk
    BY <1>2 DEF Invoke, Requests, Phase, Down
  <2>2. KV!Invoke
    BY <2>1, SameValues DEF KV!Invoke, Phase, Down
  <2> QED
    BY <2>2 DEF KV!KVNext
<1>3. CASE GetInfo \/ GetValue
  <2>1. CASE pc' = "idle"
    BY <1>3, <2>1, GetRefines DEF KV!KVNext
  <2>2. CASE pc' # "idle"
    <3>1. pc = "getInfo" /\ pc' = "getValue" /\ UNCHANGED <<disk, req, resp>>
      BY <1>3, <2>2 DEF GetInfo, GetValue, Goto, Return, Throw
    <3> QED
      BY <3>1, Stutters DEF Phase, Down
  <2> QED
    BY <2>1, <2>2
<1>4. CASE SetInfo \/ InsertKey \/ InsertValue \/ UpdateType \/ DeleteOld
              \/ Upsert \/ UpdateKeyTimestamp
  <2>0. Phase(pc) = "busy"
    BY <1>4 DEF SetInfo, InsertKey, InsertValue, UpdateType, DeleteOld, Upsert,
       UpdateKeyTimestamp, Phase, Down
  <2>1. CASE Throw
    BY <2>0, <2>1, FailsAbstractly DEF Throw, Rollback, Return
  <2>2. CASE ~Throw
    <3>1. Phase(pc') = "busy" /\ UNCHANGED <<req, resp>>
      BY <1>4, <2>2 DEF SetInfo, InsertKey, InsertValue, UpdateType, DeleteOld, Upsert,
         UpdateKeyTimestamp, Goto, Phase, Down
    <3>2. disk' = disk
      <4>1. CASE SetInfo
        BY <2>2, <4>1 DEF SetInfo, Begin
      <4>2. CASE ~SetInfo
        <5>1. txn = TRUE
          BY <1>4, <4>2 DEF Refining, Inductive, TxnInv, Transactional, InsertKey, InsertValue,
             UpdateType, DeleteOld, Upsert, UpdateKeyTimestamp
        <5> QED
          BY <1>4, <2>2, <4>2, <5>1 DEF InsertKey, InsertValue, UpdateType, DeleteOld, Upsert,
             UpdateKeyTimestamp, Apply
      <4> QED
        BY <4>1, <4>2
    <3> QED
      BY <2>0, <3>1, <3>2, Stutters
  <2> QED
    BY <2>1, <2>2
<1>5. CASE CommitSet
  BY <1>5, CommitRefines DEF KV!KVNext
<1>6. CASE DeleteKey
  BY <1>6, FailsAbstractly DEF DeleteKey, Throw, Rollback, Return, Phase, Down
<1>7. CASE DeleteSubkeys
  BY <1>7, DeleteSubkeysRefines DEF KV!KVNext
<1>8. CASE Fault
  <2>1. CASE pc \in Down
    <3>1. pc' = "down" /\ UNCHANGED <<disk, req, resp>>
      BY <1>8, <2>1 DEF Fault, Rollback
    <3> QED
      BY <2>1, <3>1, Stutters DEF Phase, Down
  <2>2. CASE pc \notin Down
    BY <1>8, <2>2, FailsAbstractly DEF Fault, Rollback, Phase
  <2> QED
    BY <2>1, <2>2
<1>9. CASE Crash
  BY <1>9, CrashRefines DEF KV!KVNext
<1>10. CASE Tick \/ UNCHANGED vars
  BY <1>10, Stutters DEF Tick, vars
<1> QED
  BY <1>1, <1>2, <1>3, <1>4, <1>5, <1>6, <1>7, <1>8, <1>9, <1>10 DEF Next

\* The SQL statements, with errors and crashes between them, implement the atomic
\* map: a set that returns success is durable, one that fails has changed nothing.
THEOREM Implementation == Spec => ImplementsKVStore
<1>1. Spec => KV!KVInit
  BY InitRefines DEF Spec
<1> QED
  BY <1>1, NextRefines, RefiningInvariant, PTL DEF Spec, ImplementsKVStore, KV!KVSpec

(***************************************************************************)
(* Action properties.                                                      *)
(***************************************************************************)
\* The values of the map have one of the types.
LEMMA ViewTypes ==
    ASSUME NEW d \in Databases, NamesUnique(d), NEW n \in Names
    PROVE  View(d)[n].type \in Types \cup {"Absent"}
<1>1. CASE KeysNamed(d, n) = {}
  BY <1>1, ViewMissing DEF Absent
<1>2. ASSUME NEW i \in KeysNamed(d, n) PROVE View(d)[n].type \in Types
  BY <1>2, ViewFound, FoundKey, RowValueType
<1> QED
  BY <1>1, <1>2

\* A step of the map changes the type of a name only from or to null or absence.
LEMMA TypeStep ==
    ASSUME Refining, Refining', KV!KVNext \/ UNCHANGED KV!kvVars, NEW n \in Names,
           View(disk)[n].type # View(disk')[n].type
    PROVE  {View(disk)[n].type, View(disk')[n].type} \cap {"Absent", "Null"} # {}
<1> DEFINE old == View(disk)[n]
           new == View(disk')[n]
<1>1. SUFFICES old.type \in {"Absent", "Null"} \/ new.type \in {"Absent", "Null"}
  OBVIOUS
<1>2. CASE KV!Set
  <2>1. View(disk') = [View(disk) EXCEPT ![req.name] = KV!Stored(req.value)]
    BY <1>2 DEF KV!Set
  <2>2. n = req.name
    BY <2>1, ViewFunction
  <2>3. new = KV!Stored(req.value)
    BY <2>1, <2>2, ViewFunction
  <2>4. KV!MayReplace(old, req.value)
    BY <1>2, <2>2 DEF KV!Set
  <2>5. new.type = TypeForValue(req.value)
    BY <2>3, SameValues DEF KV!Stored, NullValue
  <2> QED
    BY <2>4, <2>5, SameValues DEF KV!MayReplace, Absent, NullValue, TypeForValue
<1>3. CASE KV!Delete
  <2>1. View(disk') = [View(disk) EXCEPT ![req.name] = Absent]
    BY <1>3, SameValues DEF KV!Delete
  <2>2. new = Absent
    BY <2>1, ViewFunction
  <2> QED
    BY <2>2 DEF Absent
<1>4. CASE KV!DeleteSubkeys
  <2>1. new = Absent
    BY <1>4, SameValues, ViewFunction DEF KV!DeleteSubkeys
  <2> QED
    BY <2>1 DEF Absent
<1>5. CASE View(disk') = View(disk)
  BY <1>5
<1> QED
  BY <1>2, <1>3, <1>4, <1>5 DEF KV!KVNext, KV!kvVars, KV!Open, KV!Invoke, KV!Get, KV!Fail, KV!Crash

\* The type of a key that stays changes only from or to null, in any sequence of
\* calls, errors and crashes: setKey's guard against client bugs is enough.
THEOREM TypesAlwaysChangeThroughNull == Spec => TypesChangeThroughNull
<1> DEFINE Step == \A n \in Names :
                      LET old == View(disk)[n].type
                          new == View(disk)'[n].type
                      IN old # new => {old, new} \cap {"Absent", "Null"} # {}
<1>1. Refining /\ Refining' /\ [Next]_vars => [Step]_vars
  BY NextRefines, TypeStep
<1> QED
  BY <1>1, RefiningInvariant, PTL DEF Spec, TypesChangeThroughNull

\* Only commits and deleteSubkeys change committed rows.
LEMMA CommittedRows ==
    ASSUME Refining, [Next]_vars
    PROVE  \/ CommitSet \/ DeleteSubkeys
           \/ disk'.keys = disk.keys /\ disk'.vals = disk.vals
<1>1. CASE InitSchema
  <2>1. pc = "init" /\ txn = TRUE /\ work.keys = disk.keys /\ work.vals = disk.vals
    BY <1>1 DEF InitSchema, Refining, Inductive, TxnInv, Transactional, SchemaInv
  <2> QED
    BY <1>1, <2>1 DEF InitSchema, Apply, Commit
<1>2. CASE InsertKey \/ InsertValue \/ UpdateType \/ DeleteOld \/ Upsert \/ UpdateKeyTimestamp
  <2>1. txn = TRUE
    BY <1>2 DEF Refining, Inductive, TxnInv, Transactional, InsertKey, InsertValue,
       UpdateType, DeleteOld, Upsert, UpdateKeyTimestamp
  <2> QED
    BY <1>2, <2>1 DEF InsertKey, InsertValue, UpdateType, DeleteOld, Upsert,
       UpdateKeyTimestamp, Apply, Throw, Rollback
<1>3. CASE Start \/ OpenDatabase \/ CheckVersion \/ Invoke \/ GetInfo \/ GetValue \/ SetInfo
  BY <1>3 DEF Start, OpenDatabase, CheckVersion, Invoke, GetInfo, GetValue, SetInfo, Begin,
     Throw, Rollback
<1>4. CASE DeleteKey \/ Fault \/ Crash \/ Tick \/ UNCHANGED vars
  BY <1>4 DEF DeleteKey, Fault, Crash, Tick, vars, Throw, Rollback
<1> QED
  BY <1>1, <1>2, <1>3, <1>4 DEF Next

\* A committed change of a row's type or contents carries a stamp that is not older
\* than the call, wherever the clock ticks (updateKeyTimestamp).
THEOREM ChangesAlwaysStamped == Spec => ChangesAreStamped
<1> DEFINE Changed(i) == /\ IsKey(disk, i) /\ IsKey(disk', i)
                         /\ \/ disk.keys[i].type # disk'.keys[i].type
                            \/ \E t \in ValueTypes : disk.vals[t][i] # disk'.vals[t][i]
           Step == \A i \in Ids : Changed(i) => disk'.keys[i].updatedAt >= began
<1>1. Refining /\ [Next]_vars => Step
  <2> SUFFICES ASSUME Refining, [Next]_vars, NEW i \in Ids, Changed(i)
               PROVE  disk'.keys[i].updatedAt >= began
    OBVIOUS
  <2>1. CASE CommitSet
    <3>1. pc = "commit" /\ disk' = work
      BY <2>1 DEF CommitSet, Commit
    <3>2. i = cur.id
      BY <3>1 DEF Refining, SetInv, Moving, OthersSame
    <3> QED
      BY <3>1, <3>2 DEF Refining, SetInv
  <2>2. CASE DeleteSubkeys
    <3> DEFINE ids == {j \in Ids : IsKey(disk, j) /\ disk.keys[j].name \in Below[req.name]}
    <3>1. disk' = KeysDeleted(disk, ids) /\ disk \in Databases
      BY <2>2 DEF DeleteSubkeys, Apply, Refining, Inductive, TypeOK, TxnInv, Transactional
    <3>2. /\ disk'.keys[i] = IF i \in ids THEN NoRow ELSE disk.keys[i]
          /\ \A u \in ValueTypes : disk'.vals[u][i] = IF i \in ids THEN NoData ELSE disk.vals[u][i]
      <4>1. ids \in SUBSET Ids
        OBVIOUS
      <4> HIDE DEF ids
      <4> QED
        BY <3>1, <4>1, KeysDeletedDb
    <3>3. i \notin ids
      BY <3>2 DEF IsKey
    <3> QED
      BY <3>2, <3>3
  <2>3. CASE disk'.keys = disk.keys /\ disk'.vals = disk.vals
    BY <2>3
  <2> QED
    BY <2>1, <2>2, <2>3, CommittedRows
<1> QED
  BY <1>1, RefiningInvariant, PTL DEF Spec, ChangesAreStamped
================================================================================
