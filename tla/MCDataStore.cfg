CONSTANTS
    k1 = k1
    k2 = k2
    d1 = d1
    d2 = d2
    Keys = {k1, k2}
    EmptyName = EmptyName
    Data = {d1, d2}
    NoData = NoData
    Inputs <- MCInputs
    Below <- MCBelow
    MaxId = 3
    IdMod = 4
    MaxTime = 1
SPECIFICATION Spec
INVARIANTS
    TypeOK
    Inductive
    RowsConsistent
    SchemaAtomic
    NewerSchemaUntouched
    ReadsFailOnlyOnFault
    SetsFailOnlyWhenRefused
PROPERTIES
    TypesChangeThroughNull
    ChangesAreStamped
    ImplementsKVStore
