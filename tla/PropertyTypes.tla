----------------------------- MODULE PropertyTypes -----------------------------
(***************************************************************************)
(* Property keys and the values they can hold: Types.h (PropertyValue) and *)
(* the type helpers of src/daemon/DataStore.h.  Contents are abstract:     *)
(* what the store's behaviour depends on is the alternative of the variant *)
(* and the value type it is filed under.                                   *)
(***************************************************************************)
CONSTANTS
    Keys,       \* property keys that can name a row
    EmptyName,  \* the empty key name, which no row may have
    Data,       \* contents of a value
    NoData,     \* stands for the contents of a value that has none
    Inputs,     \* the PropertyValue objects callers pass to setKey
    Below       \* Below[n]: the keys that LIKE 'n.%' matches

Names == Keys \cup {EmptyName}

\* The alternatives of the variant; nullptr and monostate carry no contents.
Kinds == {"monostate", "nullptr", "string", "blob", "uint64", "double", "bool"}
PropertyValues ==
    [kind : Kinds \ {"monostate", "nullptr"}, data : Data]
        \cup [kind : {"monostate", "nullptr"}, data : {NoData}]

ASSUME NamesAssumption == EmptyName \notin Keys
ASSUME DataAssumption == NoData \notin Data
ASSUME InputsAssumption == Inputs \subseteq PropertyValues
ASSUME BelowAssumption == Below \in [Names -> SUBSET Keys]

\* The value types that have a table of their own, and all of them.
ValueTypes == {"String", "Blob", "Integer", "Real"}
Types == ValueTypes \cup {"Null"}

\* A bool is filed as an integer, monostate as null.
TypeForValue(v) ==
    CASE v.kind = "string" -> "String"
      [] v.kind = "blob" -> "Blob"
      [] v.kind \in {"uint64", "bool"} -> "Integer"
      [] v.kind = "double" -> "Real"
      [] OTHER -> "Null"

\* What a reader of a key finds: no such key, null, or typed contents.
Absent == [type |-> "Absent", data |-> NoData]
NullValue == [type |-> "Null", data |-> NoData]
StoredValues == [type : ValueTypes, data : Data] \cup {Absent, NullValue}

\* The operations of the store; only a set carries a value.
NoValue == [kind |-> "monostate", data |-> NoData]
Requests ==
    [op : {"set"}, name : Names, value : Inputs]
        \cup [op : {"get", "delete", "deleteSubkeys"}, name : Names, value : {NoValue}]
NoRequest == [op |-> "none", name |-> EmptyName, value |-> NoValue]

\* The outcome of an operation.
Pending == [status |-> "pending", value |-> Absent]
Done(v) == [status |-> "ok", value |-> v]
Failed == [status |-> "error", value |-> Absent]
Responses == {Pending, Failed} \cup {Done(v) : v \in StoredValues}
================================================================================
