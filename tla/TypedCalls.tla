------------------------------ MODULE TypedCalls -------------------------------
(***************************************************************************)
(* The way of one typed value through confd: a confd_set_* wrapper builds  *)
(* a CBOR item (src/lib/wrapper/update.cpp), the daemon reads the request, *)
(* turns the item into a PropertyValue (RpcServer::doCfgUpdate) and binds  *)
(* it to a column of the table of its type (DataStore.h); a confd_get_*    *)
(* (src/lib/wrapper/query.cpp) takes the way back.  One client, one key:   *)
(* interleavings of calls are in ConfdRpc, failures of the store in        *)
(* DataStore.                                                              *)
(*                                                                         *)
(* Strings and blobs are sequences of bytes, of which 0 ends a C string;   *)
(* integers have the width of the code, scaled; a double is a number or    *)
(* NaN.  Sizes are counted in bytes of contents, header and envelope (the  *)
(* CBOR map around the value), scaled as well.                             *)
(***************************************************************************)
EXTENDS Integers, Sequences, FiniteSets

CONSTANTS
    Bytes,          \* contents of strings and blobs; 0 is NUL
    WordMod,        \* 2^64
    Reals, NaN,     \* the doubles that are set; NaN is one of them
    Nil,            \* no contents; SQL's NULL
    HeaderSize,     \* 8: sizeof(struct rpc_header)
    EnvelopeSize,   \* the map, its keys and the name of the property
    ReadLimit,      \* 4096: the most libevent hands to a read callback at once
    LengthMod,      \* 2^16: rpc_header.length is a uint16_t
    MaxStray,       \* bound on the bytes read past the end of a buffer
    Inputs,         \* per kind, the contents that callers pass to confd_set_*
    BufferSizes     \* the buffer sizes that callers pass to confd_get_*

\* Arguments of the setters, one kind for each of them.
Argument(kind, data) == [kind |-> kind, data |-> data]
Integers64 == -(WordMod \div 2) .. (WordMod \div 2) - 1
Contents(kind) ==
    CASE kind \in {"string", "blob"} -> Seq(Bytes)
      [] kind = "int" -> Integers64
      [] kind = "real" -> Reals
      [] kind = "bool" -> BOOLEAN
      [] kind = "null" -> {Nil}
Kinds == {"string", "blob", "int", "real", "bool"}

ASSUME BytesAssumption == 0 \in Bytes /\ Bytes \subseteq Nat
\* A bool is stored as the integer 0 or 1.
ASSUME WordAssumption == WordMod \in Nat /\ WordMod > 2 /\ WordMod % 2 = 0
ASSUME RealsAssumption == NaN \in Reals /\ 0 \in Reals /\ Nil \notin Reals
ASSUME SizeAssumption ==
    /\ HeaderSize \in Nat \ {0} /\ EnvelopeSize \in Nat \ {0}
    /\ ReadLimit \in Nat /\ LengthMod \in Nat \ {0} /\ MaxStray \in Nat
    /\ BufferSizes \subseteq Nat
\* Only a string or a blob makes a request larger than one read.
ASSUME SmallAssumption == HeaderSize + EnvelopeSize + 1 <= ReadLimit
\* 8 + 4096 and what is read past a string are far from 2^16.
ASSUME LimitAssumption == HeaderSize + ReadLimit + MaxStray < LengthMod
ASSUME InputsAssumption ==
    \A kind \in DOMAIN Inputs : kind \in Kinds \cup {"null"} /\ Inputs[kind] \subseteq Contents(kind)

VARIABLES
    open,       \* is the connection up?
    call,       \* the call under way, or the latest one
    request,    \* what the daemon has not read of the call's request
    reply,      \* what the client has not read of the reply
    row,        \* the row of the key: its type and its column
    result,     \* outcome of the latest call
    given       \* history: the argument that the row was set to

vars == <<open, call, request, reply, row, result, given>>

--------------------------------------------------------------------------------
(* Conversions.                                                            *)

Unsigned(i) == i % WordMod
SaturatedAtMax(u) == IF u < WordMod \div 2 THEN u ELSE (WordMod \div 2) - 1
Signed(u) == IF u < WordMod \div 2 THEN u ELSE u - WordMod

\* confd_set_*: the CBOR item of an argument.
Item(kind, data) == [kind |-> kind, data |-> data]
ToItem(v) ==
    CASE v.kind = "string" -> Item("string", v.data)
      [] v.kind = "blob" -> Item("bytes", v.data)
      [] v.kind = "int" -> Item("uint", Unsigned(v.data))
      [] v.kind = "real" -> Item("float", v.data)
      [] v.kind = "bool" -> Item("bool", v.data)
      [] v.kind = "null" -> Item("null", Nil)

ItemSize(item) == IF item.kind \in {"string", "bytes"} THEN Len(item.data) ELSE 1
MessageSize(item) == HeaderSize + EnvelopeSize + ItemSize(item)

\* What memory past the end of a buffer may hold.
Stray(n) == [1 .. n -> Bytes]

\* The C strings that may be found at the start of the bytes s, which nothing
\* terminates: up to the first NUL, in s or beyond it.
CStrings(s) ==
    IF \E i \in 1 .. Len(s) : s[i] = 0
    THEN {SubSeq(s, 1, n) : n \in {m \in 0 .. Len(s) - 1 :
             s[m + 1] = 0 /\ \A j \in 1 .. m : s[j] # 0}}
    ELSE UNION {{s \o t : t \in [1 .. n -> Bytes \ {0}]} : n \in 0 .. MaxStray}

\* doCfgUpdate: the values an item may be read as.  Every control item that
\* comes by is read with cbor_get_bool, which is false for null.
Value(kind, data) == [kind |-> kind, data |-> data]
BoolAsDouble(item) == Value("double", IF item.kind = "bool" /\ item.data THEN 1 ELSE 0)
ControlValue(item) == Value("bool", item.kind = "bool" /\ item.data = TRUE)
ValuesOf(item) ==
    CASE item.kind = "string" -> {Value("string", s) : s \in CStrings(item.data)}
      [] item.kind = "bytes" -> {Value("blob", item.data)}
      [] item.kind = "uint" -> {Value("uint64", item.data)}
      [] item.kind = "float" -> {Value("double", item.data)}
      [] item.kind \in {"bool", "null"} -> {ControlValue(item)}

\* TypeForValue and BindValue; SQLite keeps a NaN as NULL.
Absent == [type |-> "Absent", column |-> Nil]
NullRow == [type |-> "Null", column |-> Nil]
Row(v) ==
    CASE v.kind = "string" -> [type |-> "String", column |-> v.data]
      [] v.kind = "blob" -> [type |-> "Blob", column |-> v.data]
      [] v.kind = "uint64" -> [type |-> "Integer", column |-> Signed(v.data)]
      [] v.kind = "bool" -> [type |-> "Integer", column |-> IF v.data THEN 1 ELSE 0]
      [] v.kind = "double" ->
            [type |-> "Real", column |-> IF v.data = NaN THEN Nil ELSE v.data]

\* getKey and sendKeyValue: the item of a row; a NULL read as a double is 0.
ItemOf(r) ==
    CASE r.type = "Null" -> Item("null", Nil)
      [] r.type = "String" -> Item("string", r.column)
      [] r.type = "Blob" -> Item("bytes", r.column)
      [] r.type = "Integer" -> Item("uint", Unsigned(r.column))
      [] r.type = "Real" -> Item("float", IF r.column = Nil THEN 0 ELSE r.column)

\* setKey refuses to change a type.  (It also fails on a null row, which has no
\* table to delete from.)
Permitted(r, v) == r = Absent \/ r.type = Row(v).type

--------------------------------------------------------------------------------
(* Messages.                                                               *)

None == [kind |-> "none", item |-> Item("none", Nil), size |-> 0]
Query == [kind |-> "query", item |-> Item("none", Nil), size |-> HeaderSize + EnvelopeSize]
Update(item) == [kind |-> "update", item |-> item, size |-> MessageSize(item)]

\* The end of a request of which the daemon has read the first ReadLimit bytes;
\* what is sent after it is read together with it.
Rest(n) == [kind |-> "rest", item |-> Item("none", Nil), size |-> n]
After(sent, m) == IF sent.kind = "rest" THEN Rest(sent.size + m.size) ELSE m

Updated == [kind |-> "updated", item |-> Item("none", Nil), size |-> HeaderSize + EnvelopeSize]
NotFound == [kind |-> "not found", item |-> Item("none", Nil),
             size |-> HeaderSize + EnvelopeSize]
Found(item) == [kind |-> "found", item |-> item, size |-> MessageSize(item)]

\* The length field of a message, and the payload it announces.
Length(m) == m.size % LengthMod
PayloadLen(m) == Length(m) - HeaderSize

\* handleClientRead compares the payload with all it has read, header included.
NoLimit(m) == Length(m) >= HeaderSize
Accepted(m) ==
    LET received == IF m.size < ReadLimit THEN m.size ELSE ReadLimit
    IN  /\ Length(m) >= HeaderSize
        /\ PayloadLen(m) <= received
        /\ PayloadLen(m) = m.size - HeaderSize  \* or cbor_load runs out of data

\* The items cbor_load may find in a request: where it runs past what was read,
\* the contents end in whatever is there.
Loaded(m) ==
    IF m.size <= ReadLimit THEN {m.item}
    ELSE LET lost == m.size - ReadLimit
         IN  {Item(m.item.kind, SubSeq(m.item.data, 1, ItemSize(m.item) - lost) \o t) :
                 t \in Stray(lost)}

--------------------------------------------------------------------------------
(* libconfd.                                                               *)

Idle == request.kind \in {"none", "rest"} /\ reply = None /\ result.status # "pending"

Setting(v) == [op |-> "set", arg |-> v, buf |-> 0]
Getting(kind, n) == [op |-> "get", arg |-> Argument(kind, Nil), buf |-> n]
Deleting == [op |-> "delete", arg |-> Argument("null", Nil), buf |-> 0]

Outcome(status, out, actual) == [status |-> status, out |-> out, actual |-> actual]
Pending == Outcome("pending", Nil, 0)
Returns(status) == Outcome(status, Nil, 0)

Init ==
    /\ open = TRUE
    /\ call = Deleting
    /\ request = None
    /\ reply = None
    /\ row \in {Absent, NullRow}    \* null may come from an in-process setKey
    /\ result = Returns("NotSupported")
    /\ given = Argument("none", Nil)

\* confd_set_*, DoUpdate
Set(v) ==
    /\ Idle /\ open
    /\ call' = Setting(v)
    /\ request' = After(request, Update(ToItem(v)))
    /\ result' = Pending
    /\ UNCHANGED <<open, reply, row, given>>

\* confd_get_*, DoQuery; a buffer of no size is refused before anything is sent.
Get(kind, n) ==
    /\ Idle /\ open
    /\ call' = Getting(kind, n)
    /\ \/ /\ kind \in {"string", "blob"} /\ n = 0
          /\ result' = Returns("InvalidArguments")
          /\ UNCHANGED request
       \/ /\ kind \in {"string", "blob"} => n # 0
          /\ request' = After(request, Query)
          /\ result' = Pending
    /\ UNCHANGED <<open, reply, row, given>>

\* confd_delete
Delete ==
    /\ Idle /\ open
    /\ call' = Deleting
    /\ result' = Returns("NotSupported")
    /\ UNCHANGED <<open, request, reply, row, given>>

\* How many bytes a getter copies to the caller: a string needs room for its NUL.
AlwaysTerminated(kind, len, n) == IF len < n THEN len ELSE n - 1
FillsBuffer(kind, len, n) == IF len < n THEN len ELSE n
ToCopy(kind, len, n) ==
    LET room == IF kind = "string" THEN n - 1 ELSE n
    IN  IF len < room THEN len ELSE room

\* What ExtractValue throws, if anything.
ExtractValue(m) ==
    CASE m.kind = "not found" -> "NotFound"
      [] m.item.kind = "null" -> "NullValue"
      [] OTHER -> "Success"

\* The getter's check of the type and its conversion.  confd_get_bool takes the
\* CBOR bool only, an integer is a mismatch to it too.
Converted(item, kind, n) ==
    CASE \/ kind = "string" /\ item.kind = "string"
         \/ kind = "blob" /\ item.kind = "bytes" ->
            Outcome("Success", SubSeq(item.data, 1, ToCopy(kind, Len(item.data), n)), Len(item.data))
      [] kind = "int" /\ item.kind = "uint" -> Outcome("Success", Signed(item.data), 0)
      [] \/ kind = "real" /\ item.kind = "float"
         \/ kind = "bool" /\ item.kind = "bool" -> Outcome("Success", item.data, 0)
      [] OTHER -> Returns("TypeMismatch")

\* receivePacket and the wrapper's decoding; DoUpdate looks at no field of its
\* reply.  A reply whose length wrapped could not be taken off the stream.
ReceiveReply ==
    /\ reply # None /\ result = Pending
    /\ reply' = None
    /\ result' = IF Length(reply) # reply.size THEN Returns("error")
                 ELSE IF call.op = "set" THEN Returns("Success")
                 ELSE IF ExtractValue(reply) # "Success" THEN Returns(ExtractValue(reply))
                 ELSE Converted(reply.item, call.arg.kind, call.buf)
    /\ UNCHANGED <<open, call, request, row, given>>

\* The daemon has closed the connection: "insufficient read (header)".
RetriesOnEof == result = Pending /\ ~open /\ reply = None /\ UNCHANGED vars
ReceiveEof ==
    /\ result = Pending /\ ~open /\ reply = None
    /\ result' = Returns("error")
    /\ UNCHANGED <<open, call, request, reply, row, given>>

\* confd_close, confd_open
Reopen ==
    /\ Idle /\ ~open
    /\ open' = TRUE
    /\ UNCHANGED <<call, request, reply, row, result, given>>

--------------------------------------------------------------------------------
(* The daemon.                                                             *)

\* An exception in the read callback closes the connection.
Abort ==
    /\ open' = FALSE
    /\ request' = None
    /\ UNCHANGED <<call, row, result, given>>

\* doCfgQuery
HandleQuery ==
    /\ request.kind = "query"
    /\ request' = None
    /\ reply' = IF row = Absent THEN NotFound ELSE Found(ItemOf(row))
    /\ UNCHANGED <<open, call, row, result, given>>

\* doCfgUpdate; when not all of the request was there to read, the rest of it
\* stays for the next read.
HandleUpdate ==
    /\ request.kind = "update"
    /\ Accepted(request)
    /\ \E item \in Loaded(request) : \E v \in ValuesOf(item) :
          /\ Permitted(row, v)
          /\ row' = Row(v)
    /\ given' = call.arg
    /\ reply' = Updated
    /\ request' = IF request.size > ReadLimit THEN Rest(request.size - ReadLimit) ELSE None
    /\ UNCHANGED <<open, call, result>>

\* handleClientRead refuses the message, or setKey the value.
RejectUpdate ==
    /\ request.kind = "update"
    /\ \/ ~Accepted(request)
       \/ \E item \in Loaded(request) : \E v \in ValuesOf(item) : ~Permitted(row, v)
    /\ UNCHANGED reply
    /\ Abort

\* The read callback waits for a header's worth of bytes (the low watermark), and
\* takes the rest for a message with no header.  A reply that was not written out
\* by then is lost with the connection.
RejectRest ==
    /\ request.kind = "rest" /\ request.size >= HeaderSize
    /\ reply' \in {reply, None}
    /\ Abort

--------------------------------------------------------------------------------
Next ==
    \/ \E kind \in DOMAIN Inputs : \E data \in Inputs[kind] : Set(Argument(kind, data))
    \/ \E kind \in Kinds : \E n \in BufferSizes : Get(kind, n)
    \/ Delete \/ Reopen \/ ReceiveReply \/ ReceiveEof
    \/ HandleQuery \/ HandleUpdate \/ RejectUpdate \/ RejectRest

Spec == Init /\ [][Next]_vars

--------------------------------------------------------------------------------
(* Correctness.                                                            *)

Statuses == {"pending", "Success", "TypeMismatch", "NotFound", "NullValue", "NotSupported",
             "InvalidArguments", "error"}

\* Every variable holds a value of its type; a row's column fits its type.
TypeOK ==
    /\ open \in BOOLEAN
    /\ call.op \in {"set", "get", "delete"}
    /\ request.kind \in {"none", "query", "update", "rest"}
    /\ reply.kind \in {"none", "updated", "found", "not found"}
    /\ \/ row \in {Absent, NullRow}
       \/ row.type \in {"String", "Blob"} /\ row.column \in Seq(Bytes)
       \/ row.type = "Integer" /\ row.column \in Integers64
       \/ row.type = "Real" /\ row.column \in (Reals \ {NaN}) \cup {Nil}
    /\ result.status \in Statuses

\* The latest call is a get of this kind, and it has returned data.
Got(kind) == call.op = "get" /\ call.arg.kind = kind /\ result.status = "Success"

\* Signed integers survive the way through uint64_t items and int64_t columns,
\* and doubles theirs, but for NaN, which reads as 0 (confd_set_int,
\* BindValue, getKey, confd_get_int and their double counterparts).
NumbersRoundTrip ==
    /\ Got("int") /\ given.kind = "int" => result.out = given.data
    /\ Got("real") /\ given.kind = "real" =>
          result.out = (IF given.data = NaN THEN 0 ELSE given.data)

\* A getter succeeds only on what the setter of its kind has set; a bool, and
\* with it null, counts as an integer (TypeForValue, the getters' checks).
GettersMatchSetters ==
    \A kind \in Kinds : Got(kind) =>
        given.kind \in IF kind = "int" THEN {"int", "bool", "null"} ELSE {kind}

Prefix(s, t) == Len(s) <= Len(t) /\ s = SubSeq(t, 1, Len(s))

\* The bytes of an argument that were still in the socket when the daemon read it.
Lost(v) ==
    LET size == MessageSize(ToItem(v)) IN IF size <= ReadLimit THEN 0 ELSE size - ReadLimit

\* A blob comes back whole, or cut to the caller's buffer with its full length
\* reported; but for bytes that the daemon had not read when it filed it, which
\* are the last ones and not more than a header's worth (handleClientRead).
BlobsKeepTheirBytes ==
    Got("blob") /\ given.kind = "blob" =>
        /\ result.actual = Len(given.data)
        /\ Len(result.out) = IF result.actual < call.buf THEN result.actual ELSE call.buf
        /\ Lost(given) <= HeaderSize
        /\ \A i \in 1 .. Len(result.out) :
              i <= Len(given.data) - Lost(given) => result.out[i] = given.data[i]

\* A string whose request fits one read comes back with its text up to the first
\* NUL, or all of it and at most what follows it in memory; as much of it as the
\* caller's buffer has room for before the NUL that the getter adds.
StringsKeepTheirText ==
    Got("string") /\ given.kind = "string" /\ Lost(given) = 0 =>
        \E text \in CStrings(given.data) :
            /\ result.actual = Len(text)
            /\ Len(result.out) = IF Len(text) < call.buf THEN Len(text) ELSE call.buf - 1
            /\ Prefix(result.out, text)

\* No reply is too long for the 16 bits of its length field: what can be stored
\* is limited by what the daemon accepts in one read (replyTo, handleClientRead).
RepliesFit == reply.size < LengthMod

--------------------------------------------------------------------------------
(* What confd.h promises.                                                  *)

\* confd_get_bool, "read a configuration key as a boolean": what confd_set_bool
\* has set can be read.
BoolsRoundTrip ==
    call.op = "get" /\ call.arg.kind = "bool" /\ given.kind = "bool" /\ Idle =>
        result.status \in {"Success", "error"}

\* confd_set_null, "set the value of the configuration key to be null".
NullIsStored == given.kind = "null" => row = NullRow

\* confd_set_string, "it need not be zero terminated": what is read back from a
\* string without NULs is that string.
StringsRoundTrip ==
    Got("string") /\ given.kind = "string" /\ (\A i \in 1 .. Len(given.data) : given.data[i] # 0) =>
        result.actual = Len(given.data)

\* confd_set_blob, "set the value of a configuration key to be a specified blob".
BlobsRoundTrip ==
    Got("blob") /\ given.kind = "blob" => Prefix(result.out, given.data)
================================================================================
