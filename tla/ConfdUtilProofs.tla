---------------------------- MODULE ConfdUtilProofs ----------------------------
(***************************************************************************)
(* Proofs about ConfdUtil and TypedCalls: what becomes of a typed value on *)
(* its way to the store and back, for every value, every word width, every *)
(* size of messages and buffers.                                           *)
(***************************************************************************)
EXTENDS ConfdUtil, TLAPS, SequenceTheorems

(***************************************************************************)
(* The inductive invariant.                                                *)
(***************************************************************************)

IsArgument(v) ==
    /\ v.kind \in Kinds \cup {"null"} /\ v.data \in Contents(v.kind)
    /\ v = Argument(v.kind, v.data)

\* r is a row that the daemon may make of a set of v.
Stored(v, r) ==
    /\ Accepted(Update(ToItem(v)))
    /\ \E item \in Loaded(Update(ToItem(v))) : \E x \in ValuesOf(item) : r = Row(x)

\* The row is what the latest set that got through has made of its argument.
StoreInv ==
    \/ given.kind = "none" /\ row \in {Absent, NullRow}
    \/ IsArgument(given) /\ Stored(given, row)

\* A call has an argument of its type; a buffer of no size is refused.
CallInv ==
    /\ call.op \in {"set", "get", "delete"}
    /\ call.op = "set" => IsArgument(call.arg)
    /\ call.op = "get" => call.arg.kind \in Kinds /\ call.buf \in Nat
    /\ call.op = "get" /\ call.arg.kind \in {"string", "blob"} /\ call.buf = 0 =>
          result.status = "InvalidArguments" /\ request.kind \in {"none", "rest"} /\ reply = None

\* The message under way is that of the call, alone or after the rest of one; a
\* reply tells of the row.
MessageInv ==
    /\ \/ request = None
       \/ request = Query /\ call.op = "get" /\ reply = None /\ result = Pending
       \/ request = Update(ToItem(call.arg)) /\ call.op = "set" /\ reply = None /\ result = Pending
       \/ request.kind = "rest" /\ request = Rest(request.size) /\ request.size \in Nat \ {0}
    /\ \/ reply = None
       \/ reply = Updated /\ call.op = "set" /\ given = call.arg
       \/ reply = NotFound /\ call.op = "get" /\ row = Absent
       \/ reply = Found(ItemOf(row)) /\ call.op = "get" /\ row # Absent

\* A get that succeeded has converted the row; a set that did is the latest one.
ResultInv ==
    /\ call.op = "set" /\ result.status = "Success" => given = call.arg
    /\ call.op = "get" /\ result.status = "Success" =>
          /\ row # Absent /\ ItemOf(row).kind # "null"
          /\ result = Converted(ItemOf(row), call.arg.kind, call.buf)
    /\ call.op = "get" /\ result.status = "NullValue" => ItemOf(row).kind = "null"

\* A request is lost with its connection.
OpenInv == ~open => request = None

CallsInv == StoreInv /\ CallInv /\ MessageInv /\ ResultInv /\ OpenInv

(***************************************************************************)
(* Numbers.                                                                *)
(***************************************************************************)

\* The remainder that % leaves.
LEMMA DivMod ==
    ASSUME NEW T \in Nat \ {0}, NEW a \in Int
    PROVE  /\ a = T * (a \div T) + (a % T) /\ a \div T \in Int
           /\ a % T \in Int /\ 0 <= a % T /\ a % T < T
OBVIOUS

\* A number that is a multiple of T away from r is found by its place.
LEMMA Remainder ==
    ASSUME NEW T \in Nat \ {0}, NEW a \in Int, NEW r \in Int, 0 <= r, r < T,
           a = r \/ a = r - T
    PROVE  a % T = r
<1> DEFINE q == a \div T
           m == a % T
<1>1. a = T * q + m /\ q \in Int /\ m \in Int /\ 0 <= m /\ m < T
  BY DivMod
<1> HIDE DEF q, m
<1>2. r = m \/ r = m + T \/ r = m - T \/ q >= 1 \/ q <= -1
  <2>1. q = 0 => T * q = 0
    BY <1>1
  <2> QED
    BY <1>1, <2>1
<1>3. CASE a = r
  <2>1. q >= 1 => T * q >= T
    BY <1>1
  <2>2. q <= -1 => T * q <= -T
    BY <1>1
  <2>3. q = 0 => T * q = 0
    BY <1>1
  <2>4. T * q \in Int
    BY <1>1
  <2> QED
    BY <1>1, <1>3, <2>1, <2>2, <2>3, <2>4 DEF m
<1>4. CASE a = r - T
  <2>1. q >= 0 => T * q >= 0
    BY <1>1
  <2>2. q <= -2 => T * q <= -2 * T
    BY <1>1
  <2>3. q = -1 => T * q = -T
    BY <1>1
  <2>4. T * q \in Int
    BY <1>1
  <2> QED
    BY <1>1, <1>4, <2>1, <2>2, <2>3, <2>4 DEF m
<1> QED
  BY <1>3, <1>4

\* Signed integers survive the casts to uint64_t and back.
LEMMA SignedUnsigned ==
    ASSUME NEW i \in Integers64
    PROVE  Unsigned(i) \in Nat /\ Signed(Unsigned(i)) = i
<1> DEFINE h == WordMod \div 2
<1>1. WordMod \in Nat \ {0} /\ h \in Nat /\ WordMod = h + h
  BY WordAssumption
<1>2. i \in Int /\ -h <= i /\ i <= h - 1
  BY <1>1 DEF Integers64
<1> HIDE DEF h
<1>3. CASE i >= 0
  <2>1. Unsigned(i) = i
    BY <1>1, <1>2, <1>3, Remainder DEF Unsigned
  <2> QED
    BY <1>1, <1>2, <1>3, <2>1 DEF Signed, h
<1>4. CASE i < 0
  <2>1. Unsigned(i) = i + WordMod
    BY <1>1, <1>2, <1>4, Remainder DEF Unsigned
  <2>2. i + WordMod >= h
    BY <1>1, <1>2
  <2> QED
    BY <1>1, <1>2, <1>4, <2>1, <2>2 DEF Signed, h
<1> QED
  BY <1>2, <1>3, <1>4

(***************************************************************************)
(* What a set leaves in the row.                                           *)
(***************************************************************************)

\* The four kinds of values that take no more than a byte of a message.
Small == {"int", "real", "bool", "null"}

\* An update of a small value is read at once.
LEMMA SmallLoaded ==
    ASSUME NEW v, v.kind \in Small
    PROVE  /\ MessageSize(ToItem(v)) = HeaderSize + EnvelopeSize + 1
           /\ Loaded(Update(ToItem(v))) = {ToItem(v)}
<1>1. ItemSize(ToItem(v)) = 1
  BY DEF Small, ToItem, Item, ItemSize
<1>2. MessageSize(ToItem(v)) = HeaderSize + EnvelopeSize + 1
  BY <1>1 DEF MessageSize
<1>3. Update(ToItem(v)).size <= ReadLimit /\ Update(ToItem(v)).item = ToItem(v)
  BY <1>2, SmallAssumption DEF Update
<1> QED
  BY <1>2, <1>3 DEF Loaded

\* The row that a set of an integer leaves.
LEMMA StoredInt ==
    ASSUME NEW v, IsArgument(v), v.kind = "int", NEW r, Stored(v, r)
    PROVE  r = [type |-> "Integer", column |-> v.data] /\ v.data \in Integers64
<1>1. v.data \in Integers64
  BY DEF IsArgument, Contents
<1>2. PICK x \in ValuesOf(ToItem(v)) : r = Row(x)
  BY SmallLoaded DEF Small, Stored
<1>3. ToItem(v) = [kind |-> "uint", data |-> Unsigned(v.data)]
  BY DEF ToItem, Item
<1>4. x = [kind |-> "uint64", data |-> Unsigned(v.data)]
  BY <1>2, <1>3 DEF ValuesOf, Value
<1>5. r = [type |-> "Integer", column |-> Signed(Unsigned(v.data))]
  BY <1>2, <1>4 DEF Row
<1> QED
  BY <1>1, <1>5, SignedUnsigned

\* The row that a set of a double leaves.
LEMMA StoredReal ==
    ASSUME NEW v, IsArgument(v), v.kind = "real", NEW r, Stored(v, r)
    PROVE  /\ r = [type |-> "Real", column |-> IF v.data = NaN THEN Nil ELSE v.data]
           /\ v.data \in Reals
<1>1. v.data \in Reals
  BY DEF IsArgument, Contents
<1>2. PICK x \in ValuesOf(ToItem(v)) : r = Row(x)
  BY SmallLoaded DEF Small, Stored
<1>3. ToItem(v) = [kind |-> "float", data |-> v.data]
  BY DEF ToItem, Item
<1>4. x = [kind |-> "double", data |-> v.data]
  BY <1>2, <1>3 DEF ValuesOf, Value
<1> QED
  BY <1>1, <1>2, <1>4 DEF Row

\* The row that a set of a bool, or of null, leaves.
LEMMA StoredControl ==
    ASSUME NEW v, IsArgument(v), v.kind \in {"bool", "null"}, NEW r, Stored(v, r)
    PROVE  r.type = "Integer" /\ r.column \in {0, 1} /\ r = [type |-> r.type, column |-> r.column]
<1>2. PICK x \in ValuesOf(ToItem(v)) : r = Row(x)
  BY SmallLoaded DEF Small, Stored
<1>3. ToItem(v).kind \in {"bool", "null"}
  BY DEF ToItem, Item
<1>4. x = ControlValue(ToItem(v))
  BY <1>2, <1>3 DEF ValuesOf
<1>5. x.kind = "bool"
  BY <1>4 DEF ControlValue, Value
<1>6. r = [type |-> "Integer", column |-> IF x.data THEN 1 ELSE 0]
  BY <1>2, <1>5 DEF Row
<1> QED
  BY <1>6

\* What the daemon accepts is not longer than one read and a header.
LEMMA AcceptedSize ==
    ASSUME NEW v, Accepted(Update(ToItem(v))), MessageSize(ToItem(v)) \in Nat
    PROVE  MessageSize(ToItem(v)) <= HeaderSize + ReadLimit
<1> DEFINE n == MessageSize(ToItem(v))
           len == n % LengthMod
<1>1. len \in Nat
  BY SizeAssumption
<1>2. /\ len - HeaderSize <= IF n < ReadLimit THEN n ELSE ReadLimit
      /\ len - HeaderSize = n - HeaderSize
  BY DEF Accepted, PayloadLen, Length, Update
<1> HIDE DEF len
<1> QED
  BY <1>1, <1>2, SizeAssumption

\* What is appended to bytes leaves them where they are.
LEMMA JoinKeepsStart ==
    ASSUME NEW s \in Seq(Bytes), NEW t \in Seq(Bytes)
    PROVE  /\ s \o t \in Seq(Bytes) /\ Len(s \o t) = Len(s) + Len(t)
           /\ \A i \in 1 .. Len(s) : (s \o t)[i] = s[i]
<1>1. Len(s) \in Nat /\ Len(t) \in Nat
  OBVIOUS
<1>2. /\ s \o t \in Seq(Bytes) /\ Len(s \o t) = Len(s) + Len(t)
      /\ \A i \in 1 .. Len(s) + Len(t) : (s \o t)[i] = IF i <= Len(s) THEN s[i] ELSE t[i - Len(s)]
  BY ConcatProperties, Zenon
<1>3. ASSUME NEW i \in 1 .. Len(s)
      PROVE  (s \o t)[i] = s[i]
  <2>1. i \in 1 .. Len(s) + Len(t) /\ i <= Len(s)
    BY <1>1
  <2> QED
    BY <1>2, <2>1, Zenon
<1> QED
  BY <1>2, <1>3, Zenon

\* The bytes that a request is loaded to: as many as were sent, and the same
\* ones as far as they were read.
LEMMA LoadedBytes ==
    ASSUME NEW k \in {"string", "bytes"}, NEW d \in Seq(Bytes),
           NEW item \in Loaded(Update(Item(k, d))),
           HeaderSize + EnvelopeSize + Len(d) <= HeaderSize + ReadLimit
    PROVE  /\ item.kind = k /\ item.data \in Seq(Bytes) /\ Len(item.data) = Len(d)
           /\ HeaderSize + EnvelopeSize + Len(d) <= ReadLimit => item.data = d
           /\ \A i \in 1 .. Len(d) :
                 i <= Len(d) - ((HeaderSize + EnvelopeSize + Len(d)) - ReadLimit) =>
                     item.data[i] = d[i]
<1> DEFINE n == HeaderSize + EnvelopeSize + Len(d)
           lost == n - ReadLimit
<1>1. n \in Nat /\ Len(d) \in Nat /\ ReadLimit \in Nat
  BY SizeAssumption
<1>2. Update(Item(k, d)).size = n /\ Update(Item(k, d)).item = Item(k, d)
  BY DEF Update, MessageSize, ItemSize, Item
<1>3. Item(k, d).kind = k /\ Item(k, d).data = d /\ ItemSize(Item(k, d)) = Len(d)
  BY DEF Item, ItemSize
<1>4. CASE n <= ReadLimit
  <2>1. item = Item(k, d)
    BY <1>2, <1>4 DEF Loaded
  <2> QED
    BY <1>3, <2>1
<1>5. CASE ~(n <= ReadLimit)
  <2> DEFINE m == Len(d) - lost
  <2>1. PICK t \in Stray(lost) : item = Item(k, SubSeq(d, 1, m) \o t)
    BY <1>2, <1>3, <1>5 DEF Loaded
  <2>2. lost \in Nat /\ m \in 1 .. Len(d) /\ m + lost = Len(d)
    BY <1>1, <1>5, SizeAssumption, SmallAssumption
  <2>3. t \in Seq(Bytes) /\ Len(t) = lost
    <3>1. t \in [1 .. lost -> Bytes]
      BY <2>1 DEF Stray
    <3> HIDE DEF lost
    <3> QED
      BY <2>2, <3>1, IsASeq, LenProperties
  <2> DEFINE s == SubSeq(d, 1, m)
  <2>4. /\ s \in Seq(Bytes) /\ Len(s) = m
        /\ \A i \in 1 .. m : s[i] = d[i]
    <3> HIDE DEF lost, m
    <3> QED
      BY <2>2, SubSeqProperties
  <2>5. item.kind = k /\ item.data = s \o t
    BY <2>1 DEF Item
  <2>0. m = Len(d) - ((HeaderSize + EnvelopeSize + Len(d)) - ReadLimit)
    OBVIOUS
  <2> HIDE DEF s, m, lost, n
  <2>6. s \o t \in Seq(Bytes) /\ Len(s \o t) = Len(s) + Len(t)
        /\ \A i \in 1 .. Len(s) : (s \o t)[i] = s[i]
    <3>1. s \in Seq(Bytes) /\ t \in Seq(Bytes)
      BY <2>3, <2>4
    <3> QED
      BY <3>1, JoinKeepsStart, Zenon
  <2>7. \A i \in 1 .. m : item.data[i] = d[i]
    BY <2>4, <2>5, <2>6
  <2>8. \A i \in 1 .. Len(d) : i <= m => item.data[i] = d[i]
    BY <2>2, <2>7
  <2>9. Len(item.data) = Len(d) /\ item.data \in Seq(Bytes)
    BY <2>2, <2>3, <2>4, <2>5, <2>6
  <2>10. ~(HeaderSize + EnvelopeSize + Len(d) <= ReadLimit)
    BY <1>5 DEF n
  <2>12. \A i \in 1 .. Len(d) :
           i <= Len(d) - ((HeaderSize + EnvelopeSize + Len(d)) - ReadLimit) => item.data[i] = d[i]
    BY <2>0, <2>8, Zenon
  <2> QED
    BY <2>5, <2>9, <2>10, <2>12, Zenon
<1> QED
  BY <1>4, <1>5

\* A C string found at bytes is not longer than they and what is read past them.
LEMMA CStringBytes ==
    ASSUME NEW s \in Seq(Bytes), NEW c \in CStrings(s)
    PROVE  c \in Seq(Bytes) /\ Len(c) <= Len(s) + MaxStray
<1>1. CASE \E i \in 1 .. Len(s) : s[i] = 0
  <2>1. PICK n \in 0 .. Len(s) - 1 : c = SubSeq(s, 1, n)
    BY <1>1 DEF CStrings
  <2>2. c \in Seq(Bytes) /\ Len(c) = n
    BY <2>1, SubSeqProperties
  <2> QED
    BY <2>2, SizeAssumption
<1>2. CASE ~\E i \in 1 .. Len(s) : s[i] = 0
  <2>1. PICK n \in 0 .. MaxStray : \E t \in [1 .. n -> Bytes \ {0}] : c = s \o t
    BY <1>2 DEF CStrings
  <2>2. PICK t \in [1 .. n -> Bytes \ {0}] : c = s \o t
    BY <2>1
  <2>3. t \in Seq(Bytes) /\ Len(t) = n
    BY <2>2, SizeAssumption, IsASeq, LenProperties
  <2> QED
    BY <2>2, <2>3, SizeAssumption, ConcatProperties
<1> QED
  BY <1>1, <1>2

\* The row that a set of a blob leaves, and how long it is.
LEMMA StoredBlob ==
    ASSUME NEW v, IsArgument(v), v.kind = "blob", NEW r, Stored(v, r)
    PROVE  /\ r = [type |-> "Blob", column |-> r.column]
           /\ v.data \in Seq(Bytes) /\ r.column \in Seq(Bytes) /\ Len(r.column) = Len(v.data)
           /\ HeaderSize + EnvelopeSize + Len(v.data) <= HeaderSize + ReadLimit
           /\ MessageSize(ToItem(v)) = HeaderSize + EnvelopeSize + Len(v.data)
           /\ MessageSize(ToItem(v)) <= ReadLimit => r.column = v.data
           /\ \A i \in 1 .. Len(v.data) : i <= Len(v.data) - Lost(v) => r.column[i] = v.data[i]
<1>1. v.data \in Seq(Bytes) /\ ToItem(v) = Item("bytes", v.data)
  BY DEF IsArgument, Contents, ToItem
<1>2. MessageSize(ToItem(v)) = HeaderSize + EnvelopeSize + Len(v.data)
  BY <1>1 DEF MessageSize, ItemSize, Item
<1>3. MessageSize(ToItem(v)) <= HeaderSize + ReadLimit
  <2>1. Accepted(Update(ToItem(v)))
    BY DEF Stored
  <2>2. MessageSize(ToItem(v)) \in Nat
    <3> DEFINE len == Len(v.data)
               size == MessageSize(ToItem(v))
    <3>1. len \in Nat
      BY <1>1
    <3>2. size = HeaderSize + EnvelopeSize + len
      BY <1>2
    <3> HIDE DEF len, size
    <3>3. size \in Nat
      BY <3>1, <3>2, SizeAssumption
    <3> QED
      BY <3>3 DEF size
  <2> QED
    BY <2>1, <2>2, AcceptedSize
<1>4. PICK item \in Loaded(Update(ToItem(v))) : \E x \in ValuesOf(item) : r = Row(x)
  BY DEF Stored
<1>5. /\ item.kind = "bytes" /\ item.data \in Seq(Bytes) /\ Len(item.data) = Len(v.data)
      /\ HeaderSize + EnvelopeSize + Len(v.data) <= ReadLimit => item.data = v.data
      /\ \A i \in 1 .. Len(v.data) :
            i <= Len(v.data) - ((HeaderSize + EnvelopeSize + Len(v.data)) - ReadLimit) =>
                item.data[i] = v.data[i]
  BY <1>1, <1>2, <1>3, <1>4, LoadedBytes
<1>6. ValuesOf(item) = {Value("blob", item.data)}
  BY <1>5 DEF ValuesOf
<1>7. r = Row(Value("blob", item.data))
  BY <1>4, <1>6
<1>8. r = [type |-> "Blob", column |-> item.data]
  BY <1>7 DEF Row, Value
<1>9. r = [type |-> "Blob", column |-> r.column] /\ r.column = item.data
  BY <1>8
<1>10. HeaderSize + EnvelopeSize + Len(v.data) <= HeaderSize + ReadLimit
  BY <1>2, <1>3
<1>11. \A i \in 1 .. Len(v.data) : i <= Len(v.data) - Lost(v) => item.data[i] = v.data[i]
  <2>1. CASE MessageSize(ToItem(v)) <= ReadLimit
    BY <1>2, <1>5, <2>1
  <2>2. CASE ~(MessageSize(ToItem(v)) <= ReadLimit)
    <3>1. Lost(v) = MessageSize(ToItem(v)) - ReadLimit
      BY <2>2, Zenon DEF Lost
    <3>2. Lost(v) = (HeaderSize + EnvelopeSize + Len(v.data)) - ReadLimit
      BY <1>2, <3>1, Zenon
    <3>3. \A i \in 1 .. Len(v.data) :
             i <= Len(v.data) - ((HeaderSize + EnvelopeSize + Len(v.data)) - ReadLimit) =>
                 item.data[i] = v.data[i]
      BY <1>5, Zenon
    <3> QED
      BY <3>2, <3>3, Zenon
  <2> QED
    BY <2>1, <2>2
<1>12. \A i \in 1 .. Len(v.data) : i <= Len(v.data) - Lost(v) => r.column[i] = v.data[i]
  BY <1>9, <1>11, Zenon
<1> QED
  BY <1>1, <1>2, <1>5, <1>9, <1>10, <1>12, Zenon

\* The row that a set of a string leaves, and how long it may be.
LEMMA StoredString ==
    ASSUME NEW v, IsArgument(v), v.kind = "string", NEW r, Stored(v, r)
    PROVE  /\ r = [type |-> "String", column |-> r.column]
           /\ v.data \in Seq(Bytes) /\ r.column \in Seq(Bytes)
           /\ Len(r.column) <= Len(v.data) + MaxStray
           /\ HeaderSize + EnvelopeSize + Len(v.data) <= HeaderSize + ReadLimit
           /\ MessageSize(ToItem(v)) <= ReadLimit => r.column \in CStrings(v.data)
<1>1. v.data \in Seq(Bytes) /\ ToItem(v) = Item("string", v.data)
  BY DEF IsArgument, Contents, ToItem
<1>2. MessageSize(ToItem(v)) = HeaderSize + EnvelopeSize + Len(v.data)
  BY <1>1 DEF MessageSize, ItemSize, Item
<1>3. MessageSize(ToItem(v)) <= HeaderSize + ReadLimit
  <2>1. Accepted(Update(ToItem(v)))
    BY DEF Stored
  <2>2. MessageSize(ToItem(v)) \in Nat
    <3> DEFINE len == Len(v.data)
               size == MessageSize(ToItem(v))
    <3>1. len \in Nat
      BY <1>1
    <3>2. size = HeaderSize + EnvelopeSize + len
      BY <1>2
    <3> HIDE DEF len, size
    <3>3. size \in Nat
      BY <3>1, <3>2, SizeAssumption
    <3> QED
      BY <3>3 DEF size
  <2> QED
    BY <2>1, <2>2, AcceptedSize
<1>4. PICK item \in Loaded(Update(ToItem(v))) : \E x \in ValuesOf(item) : r = Row(x)
  BY DEF Stored
<1>5. /\ item.kind = "string" /\ item.data \in Seq(Bytes) /\ Len(item.data) = Len(v.data)
      /\ HeaderSize + EnvelopeSize + Len(v.data) <= ReadLimit => item.data = v.data
  BY <1>1, <1>2, <1>3, <1>4, LoadedBytes
<1>6. ValuesOf(item) = {Value("string", s) : s \in CStrings(item.data)}
  BY <1>5 DEF ValuesOf
<1>7. PICK s \in CStrings(item.data) : r = Row(Value("string", s))
  BY <1>4, <1>6
<1>8. r = [type |-> "String", column |-> s]
  BY <1>7 DEF Row, Value
<1>9. s \in Seq(Bytes) /\ Len(s) <= Len(item.data) + MaxStray
  BY <1>5, <1>7, CStringBytes
<1>10. r = [type |-> "String", column |-> r.column] /\ r.column = s
  BY <1>8
<1>11. MessageSize(ToItem(v)) <= ReadLimit => s \in CStrings(v.data)
  BY <1>2, <1>5, <1>7
<1>12. HeaderSize + EnvelopeSize + Len(v.data) <= HeaderSize + ReadLimit
  BY <1>2, <1>3
<1> QED
  BY <1>1, <1>5, <1>9, <1>10, <1>11, <1>12, Zenon

\* The item that a row is sent as tells which setter has set it.
LEMMA RowTellsSetter ==
    ASSUME StoreInv, row # Absent
    PROVE  /\ ItemOf(row).kind \in {"null", "string", "bytes", "uint", "float"}
           /\ ItemOf(row).kind = "string" => given.kind = "string"
           /\ ItemOf(row).kind = "bytes" => given.kind = "blob"
           /\ ItemOf(row).kind = "uint" => given.kind \in {"int", "bool", "null"}
           /\ ItemOf(row).kind = "float" => given.kind = "real"
           /\ ItemOf(row).kind # "null" => IsArgument(given) /\ Stored(given, row)
<1>1. CASE given.kind = "none" /\ row \in {Absent, NullRow}
  <2>1. ItemOf(row).kind = "null"
    BY <1>1 DEF NullRow, ItemOf, Item
  <2> QED
    BY <2>1
<1>2. CASE IsArgument(given) /\ Stored(given, row)
  <2>1. given.kind \in {"string", "blob", "int", "real", "bool", "null"}
    BY <1>2 DEF IsArgument, Kinds
  <2>2. CASE given.kind = "string"
    <3>1. row.type = "String"
      BY <1>2, <2>2, StoredString
    <3>2. ItemOf(row).kind = "string"
      BY <3>1 DEF ItemOf, Item
    <3> QED
      BY <1>2, <2>2, <3>2
  <2>3. CASE given.kind = "blob"
    <3>1. row.type = "Blob"
      BY <1>2, <2>3, StoredBlob
    <3>2. ItemOf(row).kind = "bytes"
      BY <3>1 DEF ItemOf, Item
    <3> QED
      BY <1>2, <2>3, <3>2
  <2>4. CASE given.kind = "real"
    <3>1. row.type = "Real"
      BY <1>2, <2>4, StoredReal
    <3>2. ItemOf(row).kind = "float"
      BY <3>1 DEF ItemOf, Item
    <3> QED
      BY <1>2, <2>4, <3>2
  <2>5. CASE given.kind \in {"int", "bool", "null"}
    <3>1. row.type = "Integer"
      BY <1>2, <2>5, StoredInt, StoredControl
    <3>2. ItemOf(row).kind = "uint"
      BY <3>1 DEF ItemOf, Item
    <3> QED
      BY <1>2, <2>5, <3>2
  <2> QED
    BY <2>1, <2>2, <2>3, <2>4, <2>5
<1> QED
  BY <1>1, <1>2 DEF StoreInv

(***************************************************************************)
(* What the invariant says of the properties.                              *)
(***************************************************************************)

\* A get that succeeded has converted an item of its kind.
LEMMA GotItem ==
    ASSUME CallsInv, NEW kind \in Kinds, Got(kind)
    PROVE  /\ row # Absent /\ result = Converted(ItemOf(row), kind, call.buf)
           /\ kind = "string" => ItemOf(row).kind = "string"
           /\ kind = "blob" => ItemOf(row).kind = "bytes"
           /\ kind = "int" => ItemOf(row).kind = "uint"
           /\ kind = "real" => ItemOf(row).kind = "float"
           /\ kind # "bool"
<1>1. row # Absent /\ result = Converted(ItemOf(row), kind, call.buf) /\ result.status = "Success"
  BY DEF CallsInv, ResultInv, Got
<1> DEFINE item == ItemOf(row)
<1>2. item.kind # "bool"
  BY <1>1, RowTellsSetter DEF CallsInv
<1> HIDE DEF item
<1>3. Returns("TypeMismatch").status # "Success"
  BY DEF Returns, Outcome
<1>4. \/ kind = "string" /\ item.kind = "string"
      \/ kind = "blob" /\ item.kind = "bytes"
      \/ kind = "int" /\ item.kind = "uint"
      \/ kind = "real" /\ item.kind = "float"
      \/ kind = "bool" /\ item.kind = "bool"
  BY <1>1, <1>3 DEF Converted, item
<1> QED
  BY <1>1, <1>2, <1>4 DEF item

\* The getters and the setters go together.
LEMMA CallsMatch ==
    ASSUME CallsInv
    PROVE  GettersMatchSetters
<1> SUFFICES ASSUME NEW kind \in Kinds, Got(kind)
             PROVE  given.kind \in IF kind = "int" THEN {"int", "bool", "null"} ELSE {kind}
  BY DEF GettersMatchSetters
<1>1. kind \in {"string", "blob", "int", "real", "bool"}
  BY DEF Kinds
<1> QED
  BY <1>1, GotItem, RowTellsSetter DEF CallsInv

\* Numbers come back as they were set.
LEMMA CallsKeepNumbers ==
    ASSUME CallsInv
    PROVE  NumbersRoundTrip
<1>1. ASSUME Got("int"), given.kind = "int"
      PROVE  result.out = given.data
  <2>1. row # Absent /\ result = Converted(ItemOf(row), "int", call.buf) /\ ItemOf(row).kind = "uint"
    BY <1>1, GotItem DEF Kinds
  <2>2. row = [type |-> "Integer", column |-> given.data] /\ given.data \in Integers64
    BY <1>1, <2>1, RowTellsSetter, StoredInt DEF CallsInv
  <2>3. ItemOf(row).data = Unsigned(given.data)
    BY <2>2 DEF ItemOf, Item
  <2>4. result.out = Signed(ItemOf(row).data)
    BY <2>1 DEF Converted, Outcome
  <2> QED
    BY <2>2, <2>3, <2>4, SignedUnsigned
<1>2. ASSUME Got("real"), given.kind = "real"
      PROVE  result.out = IF given.data = NaN THEN 0 ELSE given.data
  <2>1. row # Absent /\ result = Converted(ItemOf(row), "real", call.buf) /\ ItemOf(row).kind = "float"
    BY <1>2, GotItem DEF Kinds
  <2>2. /\ row = [type |-> "Real", column |-> IF given.data = NaN THEN Nil ELSE given.data]
        /\ given.data \in Reals
    BY <1>2, <2>1, RowTellsSetter, StoredReal DEF CallsInv
  <2>3. ItemOf(row).data = IF given.data = NaN THEN 0 ELSE given.data
    BY <2>2, RealsAssumption DEF ItemOf, Item
  <2>4. result.out = ItemOf(row).data
    BY <2>1 DEF Converted, Outcome
  <2> QED
    BY <2>3, <2>4
<1> QED
  BY <1>1, <1>2 DEF NumbersRoundTrip

\* The start of a sequence is a prefix of it.
LEMMA StartIsPrefix ==
    ASSUME NEW d \in Seq(Bytes), NEW k \in 0 .. Len(d)
    PROVE  Len(SubSeq(d, 1, k)) = k /\ Prefix(SubSeq(d, 1, k), d)
<1>1. Len(SubSeq(d, 1, k)) = k
  BY SubSeqProperties
<1> QED
  BY <1>1 DEF Prefix

\* What a getter copies is in the data, and in the buffer.
LEMMA CopyFits ==
    ASSUME NEW len \in Nat, NEW n \in Nat
    PROVE  /\ ToCopy("blob", len, n) \in 0 .. len
           /\ ToCopy("blob", len, n) = IF len < n THEN len ELSE n
           /\ n # 0 => /\ ToCopy("string", len, n) \in 0 .. len
                       /\ ToCopy("string", len, n) = IF len < n THEN len ELSE n - 1
BY DEF ToCopy

\* Blobs come back as they were set, as far as they were read.
LEMMA CallsKeepBlobs ==
    ASSUME CallsInv
    PROVE  /\ BlobsKeepTheirBytes
           /\ Got("blob") => result.out \in Seq(Bytes)
<1> SUFFICES ASSUME Got("blob")
             PROVE  /\ given.kind = "blob" /\ result.out \in Seq(Bytes)
                    /\ result.actual = Len(given.data)
                    /\ Len(result.out) = IF result.actual < call.buf THEN result.actual ELSE call.buf
                    /\ Lost(given) <= HeaderSize
                    /\ \A i \in 1 .. Len(result.out) :
                          i <= Len(given.data) - Lost(given) => result.out[i] = given.data[i]
  BY DEF BlobsKeepTheirBytes
<1>1. row # Absent /\ result = Converted(ItemOf(row), "blob", call.buf) /\ ItemOf(row).kind = "bytes"
  BY GotItem DEF Kinds
<1>2. given.kind = "blob" /\ IsArgument(given) /\ Stored(given, row)
  BY <1>1, RowTellsSetter DEF CallsInv
<1> DEFINE d == given.data
           c == row.column
           k == ToCopy("blob", Len(c), call.buf)
<1>3. /\ row = [type |-> "Blob", column |-> c] /\ d \in Seq(Bytes) /\ c \in Seq(Bytes) /\ Len(c) = Len(d)
      /\ HeaderSize + EnvelopeSize + Len(d) <= HeaderSize + ReadLimit
      /\ MessageSize(ToItem(given)) = HeaderSize + EnvelopeSize + Len(d)
      /\ \A i \in 1 .. Len(d) : i <= Len(d) - Lost(given) => c[i] = d[i]
  BY <1>2, StoredBlob
<1>4. ItemOf(row).data = c
  BY <1>3 DEF ItemOf, Item
<1>5. call.buf \in Nat
  BY DEF CallsInv, CallInv, Got, Kinds
<1>6. result.out = SubSeq(c, 1, k) /\ result.actual = Len(c)
  BY <1>1, <1>4 DEF Converted, Outcome
<1>7. Len(c) \in Nat /\ Len(d) \in Nat
  BY <1>3
<1>8. k \in 0 .. Len(c) /\ k = IF Len(c) < call.buf THEN Len(c) ELSE call.buf
  BY <1>5, <1>7, CopyFits
<1>9. Lost(given) <= HeaderSize
  <2> DEFINE n == Len(d)
             size == MessageSize(ToItem(given))
  <2>1. n \in Nat /\ size = HeaderSize + EnvelopeSize + n /\ HeaderSize + EnvelopeSize + n <= HeaderSize + ReadLimit
    BY <1>3, <1>7
  <2>2. Lost(given) = IF size <= ReadLimit THEN 0 ELSE size - ReadLimit
    BY DEF Lost
  <2> HIDE DEF n, size
  <2> QED
    BY <2>1, <2>2, SizeAssumption
<1> HIDE DEF d, c, k
<1>10. /\ SubSeq(c, 1, k) \in Seq(Bytes) /\ Len(SubSeq(c, 1, k)) = k
       /\ \A i \in 1 .. k : SubSeq(c, 1, k)[i] = c[i]
  BY <1>3, <1>8, SubSeqProperties
<1>11. ASSUME NEW i \in 1 .. k, i <= Len(d) - Lost(given)
       PROVE  SubSeq(c, 1, k)[i] = d[i]
  <2>1. i \in 1 .. Len(d)
    BY <1>3, <1>7, <1>8
  <2> QED
    BY <1>3, <1>10, <1>11, <2>1
<1> QED
  BY <1>2, <1>3, <1>6, <1>8, <1>9, <1>10, <1>11 DEF d

\* Strings come back as the text that was found in the request.
LEMMA CallsKeepStrings ==
    ASSUME CallsInv
    PROVE  StringsKeepTheirText
<1> SUFFICES ASSUME Got("string"), given.kind = "string", Lost(given) = 0
             PROVE  \E text \in CStrings(given.data) :
                       /\ result.actual = Len(text)
                       /\ Len(result.out) = IF Len(text) < call.buf THEN Len(text) ELSE call.buf - 1
                       /\ Prefix(result.out, text)
  BY DEF StringsKeepTheirText
<1>1. row # Absent /\ result = Converted(ItemOf(row), "string", call.buf) /\ ItemOf(row).kind = "string"
  BY GotItem DEF Kinds
<1>2. IsArgument(given) /\ Stored(given, row)
  BY <1>1, RowTellsSetter DEF CallsInv
<1> DEFINE d == row.column
           k == ToCopy("string", Len(d), call.buf)
<1>3. row.type = "String" /\ d \in Seq(Bytes) /\ d \in CStrings(given.data)
  <2>1. given.data \in Seq(Bytes) /\ ToItem(given) = Item("string", given.data)
    BY <1>2 DEF IsArgument, Contents, ToItem
  <2>2. MessageSize(ToItem(given)) = HeaderSize + EnvelopeSize + Len(given.data)
    BY <2>1 DEF MessageSize, ItemSize, Item
  <2>3. MessageSize(ToItem(given)) <= ReadLimit
    <3> DEFINE size == MessageSize(ToItem(given))
    <3>1. size \in Nat
      <4> DEFINE len == Len(given.data)
      <4>1. len \in Nat /\ size = HeaderSize + EnvelopeSize + len
        BY <2>1, <2>2
      <4> HIDE DEF len, size
      <4> QED
        BY <4>1, SizeAssumption
    <3>2. 0 = IF size <= ReadLimit THEN 0 ELSE size - ReadLimit
      BY DEF Lost
    <3> HIDE DEF size
    <3> QED
      BY <3>1, <3>2, SizeAssumption DEF size
  <2> QED
    BY <1>2, <2>3, StoredString
<1>4. ItemOf(row).data = d
  BY <1>3 DEF ItemOf, Item
<1>5. call.buf \in Nat /\ call.buf # 0
  BY DEF CallsInv, CallInv, Got, Kinds
<1>6. result.out = SubSeq(d, 1, k) /\ result.actual = Len(d)
  BY <1>1, <1>4 DEF Converted, Outcome
<1>7. Len(d) \in Nat
  BY <1>3
<1>8. k \in 0 .. Len(d) /\ k = IF Len(d) < call.buf THEN Len(d) ELSE call.buf - 1
  BY <1>5, <1>7, CopyFits
<1> HIDE DEF d, k
<1>9. Len(SubSeq(d, 1, k)) = k /\ Prefix(SubSeq(d, 1, k), d)
  BY <1>3, <1>8, StartIsPrefix
<1> QED
  BY <1>3, <1>6, <1>8, <1>9

\* The item of a row leaves room in the length field.
LEMMA RowFits ==
    ASSUME StoreInv, row # Absent
    PROVE  ItemSize(ItemOf(row)) \in Nat /\ MessageSize(ItemOf(row)) < LengthMod
<1> DEFINE n == ItemSize(ItemOf(row))
<1>1. n \in Nat /\ EnvelopeSize + n <= ReadLimit + MaxStray
  <2>1. CASE ItemOf(row).kind = "string"
    <3>1. given.kind = "string" /\ IsArgument(given) /\ Stored(given, row)
      BY <2>1, RowTellsSetter
    <3> DEFINE len == Len(given.data)
               col == Len(row.column)
    <3>2. /\ row.type = "String" /\ row.column \in Seq(Bytes) /\ given.data \in Seq(Bytes)
          /\ col <= len + MaxStray /\ HeaderSize + EnvelopeSize + len <= HeaderSize + ReadLimit
      BY <3>1, StoredString
    <3>3. n = col
      BY <3>2 DEF ItemOf, Item, ItemSize
    <3>4. len \in Nat /\ col \in Nat
      BY <3>2
    <3> HIDE DEF len, col, n
    <3> QED
      BY <3>2, <3>3, <3>4, SizeAssumption
  <2>2. CASE ItemOf(row).kind = "bytes"
    <3>1. given.kind = "blob" /\ IsArgument(given) /\ Stored(given, row)
      BY <2>2, RowTellsSetter
    <3> DEFINE len == Len(given.data)
               col == Len(row.column)
    <3>2. /\ row.type = "Blob" /\ row.column \in Seq(Bytes) /\ given.data \in Seq(Bytes)
          /\ col = len /\ HeaderSize + EnvelopeSize + len <= HeaderSize + ReadLimit
      BY <3>1, StoredBlob
    <3>3. n = col
      BY <3>2 DEF ItemOf, Item, ItemSize
    <3>4. len \in Nat /\ col \in Nat
      BY <3>2
    <3> HIDE DEF len, col, n
    <3> QED
      BY <3>2, <3>3, <3>4, SizeAssumption
  <2>3. CASE ItemOf(row).kind \notin {"string", "bytes"}
    <3>1. n = 1
      BY <2>3 DEF ItemSize
    <3> HIDE DEF n
    <3> QED
      BY <3>1, SizeAssumption, SmallAssumption
  <2> QED
    BY <2>1, <2>2, <2>3
<1>2. MessageSize(ItemOf(row)) = HeaderSize + EnvelopeSize + n
  BY DEF MessageSize
<1> HIDE DEF n
<1>3. HeaderSize + EnvelopeSize + n < LengthMod
  BY <1>1, SizeAssumption, LimitAssumption
<1> QED
  BY <1>1, <1>2, <1>3 DEF n

\* No reply is too long for its length field.
LEMMA CallsFit ==
    ASSUME CallsInv
    PROVE  RepliesFit
<1>1. HeaderSize + EnvelopeSize < LengthMod /\ 0 < LengthMod
  BY SizeAssumption, SmallAssumption, LimitAssumption
<1>2. CASE reply \in {None, Updated, NotFound}
  <2>1. CASE reply = None
    BY <1>1, <2>1 DEF RepliesFit, None
  <2>2. CASE reply = Updated
    BY <1>1, <2>2 DEF RepliesFit, Updated
  <2>3. CASE reply = NotFound
    BY <1>1, <2>3 DEF RepliesFit, NotFound
  <2> QED
    BY <1>2, <2>1, <2>2, <2>3
<1>3. CASE reply = Found(ItemOf(row)) /\ row # Absent
  <2>1. reply.size = MessageSize(ItemOf(row))
    BY <1>3 DEF Found
  <2> QED
    BY <1>3, <2>1, RowFits DEF RepliesFit, CallsInv
<1> QED
  BY <1>2, <1>3 DEF CallsInv, MessageInv

(***************************************************************************)
(* Every step of a call keeps the invariant.                               *)
(***************************************************************************)

\* Messages of different kinds differ.
LEMMA Messages ==
    /\ None.kind = "none" /\ Query.kind = "query" /\ Updated.kind = "updated"
    /\ NotFound.kind = "not found"
    /\ \A i : Update(i).kind = "update" /\ Found(i).kind = "found" /\ Found(i).item = i
    /\ \A n : Rest(n).kind = "rest" /\ Rest(n).size = n
BY DEF None, Query, Updated, NotFound, Update, Found, Rest

\* Outcomes with a status of their own.
LEMMA Outcomes ==
    /\ Pending.status = "pending" /\ \A s : Returns(s).status = s
    /\ \A i, k, n : Converted(i, k, n).status \in {"Success", "TypeMismatch"}
<1>1. Pending.status = "pending" /\ \A s : Returns(s).status = s
  BY DEF Pending, Returns, Outcome
<1>2. \A i, k, n : Converted(i, k, n).status \in {"Success", "TypeMismatch"}
  BY <1>1 DEF Converted, Outcome
<1> QED
  BY <1>1, <1>2

\* The initial states.
LEMMA InitCalls ==
    ASSUME Init
    PROVE  CallsInv
<1>1. StoreInv
  BY DEF Init, StoreInv, Argument
<1>2. CallInv /\ MessageInv /\ ResultInv
  BY DEF Init, Deleting, CallInv, MessageInv, ResultInv
<1>3. OpenInv
  BY DEF Init, OpenInv
<1> QED
  BY <1>1, <1>2, <1>3 DEF CallsInv

\* A request is sent alone, or after the rest of one.
LEMMA AfterRest ==
    ASSUME CallsInv, request.kind \in {"none", "rest"}, NEW m, m.size \in Nat
    PROVE  \/ After(request, m) = m
           \/ /\ After(request, m) = Rest(After(request, m).size)
              /\ After(request, m).size \in Nat \ {0}
              /\ m.size <= After(request, m).size
<1>1. CASE request.kind = "rest"
  <2>1. request.size \in Nat \ {0}
    BY <1>1, Messages DEF CallsInv, MessageInv
  <2>2. After(request, m) = Rest(request.size + m.size)
    BY <1>1 DEF After
  <2>3. After(request, m).size = request.size + m.size
    BY <2>2, Messages
  <2> QED
    BY <2>1, <2>2, <2>3
<1>2. CASE request.kind # "rest"
  BY <1>2 DEF After
<1> QED
  BY <1>1, <1>2

\* The size of a request to set an argument.
LEMMA ArgumentSize ==
    ASSUME NEW v, IsArgument(v)
    PROVE  MessageSize(ToItem(v)) \in Nat /\ HeaderSize <= MessageSize(ToItem(v))
<1> DEFINE n == ItemSize(ToItem(v))
<1>1. n \in Nat
  <2>1. CASE v.kind = "string"
    BY <2>1 DEF IsArgument, Contents, ToItem, Item, ItemSize
  <2>2. CASE v.kind = "blob"
    BY <2>2 DEF IsArgument, Contents, ToItem, Item, ItemSize
  <2>3. CASE v.kind \in {"int", "real", "bool", "null"}
    <3>1. ToItem(v).kind \in {"uint", "float", "bool", "null"}
      BY <2>3 DEF ToItem, Item
    <3> QED
      BY <3>1 DEF ItemSize
  <2> QED
    BY <2>1, <2>2, <2>3 DEF IsArgument, Kinds
<1>2. MessageSize(ToItem(v)) = HeaderSize + EnvelopeSize + n
  BY DEF MessageSize
<1> HIDE DEF n
<1> QED
  BY <1>1, <1>2, SizeAssumption

\* confd_set_* of an argument of its kind.
LEMMA SetCalls ==
    ASSUME CallsInv, NEW v, IsArgument(v), Set(v)
    PROVE  CallsInv'
<1>1. /\ call'.op = "set" /\ call'.arg = v /\ call'.buf = 0
      /\ request' = After(request, Update(ToItem(v))) /\ reply' = None /\ result' = Pending
      /\ row' = row /\ given' = given
  BY DEF Set, Setting, Idle
<1>0. \/ request' = Update(ToItem(v))
      \/ request' = Rest(request'.size) /\ request'.size \in Nat \ {0}
  <2>1. MessageSize(ToItem(v)) \in Nat
    BY ArgumentSize
  <2>2. Update(ToItem(v)).size = MessageSize(ToItem(v))
    BY DEF Update
  <2>3. request.kind \in {"none", "rest"}
    BY DEF Set, Idle
  <2> QED
    BY <1>1, <2>1, <2>2, <2>3, AfterRest
<1>2. StoreInv'
  BY <1>1 DEF CallsInv, StoreInv
<1>3. CallInv'
  BY <1>1 DEF CallInv
<1>4. MessageInv'
  BY <1>0, <1>1, Messages DEF MessageInv
<1>5. ResultInv'
  BY <1>1, Outcomes DEF ResultInv
<1>6. OpenInv'
  BY DEF Set, OpenInv
<1> QED
  BY <1>2, <1>3, <1>4, <1>5, <1>6 DEF CallsInv

\* confd_get_*.
LEMMA GetCalls ==
    ASSUME CallsInv, NEW kind \in Kinds, NEW n \in Nat, Get(kind, n)
    PROVE  CallsInv'
<1>1. /\ call'.op = "get" /\ call'.arg.kind = kind /\ call'.buf = n
      /\ reply' = None /\ row' = row /\ given' = given
  BY DEF Get, Getting, Idle, Argument
<1>2. \/ /\ kind \in {"string", "blob"} /\ n = 0 /\ result' = Returns("InvalidArguments")
         /\ request' = request /\ request.kind \in {"none", "rest"}
      \/ /\ ~(kind \in {"string", "blob"} /\ n = 0) /\ result' = Pending
         /\ request' = After(request, Query)
  BY DEF Get, Idle
<1>0. \/ request' = request /\ request.kind \in {"none", "rest"}
      \/ request' = Query /\ result' = Pending
      \/ request' = Rest(request'.size) /\ request'.size \in Nat \ {0}
  <2>1. Query.size \in Nat
    BY SizeAssumption DEF Query
  <2>2. request.kind \in {"none", "rest"}
    BY DEF Get, Idle
  <2> QED
    BY <1>2, <2>1, <2>2, AfterRest
<1>3. StoreInv'
  BY <1>1 DEF CallsInv, StoreInv
<1>4. CallInv'
  BY <1>1, <1>2, Outcomes DEF CallInv
<1>5. MessageInv'
  BY <1>0, <1>1, Messages DEF CallsInv, MessageInv
<1>6. ResultInv'
  BY <1>1, <1>2, Outcomes DEF ResultInv
<1>7. OpenInv'
  BY DEF Get, OpenInv
<1> QED
  BY <1>3, <1>4, <1>5, <1>6, <1>7 DEF CallsInv

\* confd_delete.
LEMMA DeleteCalls ==
    ASSUME CallsInv, Delete
    PROVE  CallsInv'
<1>1. /\ call'.op = "delete" /\ request' = request /\ reply' = None
      /\ request.kind \in {"none", "rest"} /\ open' = open /\ row' = row /\ given' = given
  BY DEF Delete, Deleting, Idle
<1>2. StoreInv'
  BY <1>1 DEF CallsInv, StoreInv
<1> QED
  BY <1>1, <1>2, Messages DEF CallsInv, CallInv, MessageInv, ResultInv, OpenInv

\* receivePacket and the decoding of a reply.
LEMMA ReceiveReplyCalls ==
    ASSUME CallsInv, ReceiveReply
    PROVE  CallsInv'
<1>1. /\ reply # None /\ result = Pending /\ reply' = None
      /\ call' = call /\ request' = request /\ row' = row /\ given' = given
  BY DEF ReceiveReply
<1>2. StoreInv'
  BY <1>1 DEF CallsInv, StoreInv
<1>3. CallInv'
  BY <1>1 DEF CallsInv, CallInv
<1>4. MessageInv'
  BY <1>1, Messages DEF CallsInv, MessageInv
<1>5. \/ reply = Updated /\ call.op = "set" /\ given = call.arg
      \/ reply = NotFound /\ call.op = "get" /\ row = Absent
      \/ reply = Found(ItemOf(row)) /\ call.op = "get" /\ row # Absent
  BY <1>1 DEF CallsInv, MessageInv
<1>6. ResultInv'
  <2>1. CASE call.op = "set"
    BY <1>1, <1>5, <2>1, Messages DEF ResultInv
  <2>2. CASE reply = NotFound
    <3>0. reply.kind = "not found" /\ reply.item.kind = "none"
      BY <2>2 DEF NotFound, Item
    <3>1. ExtractValue(reply) = "NotFound" /\ call.op # "set"
      BY <1>5, <3>0, Messages DEF ExtractValue
    <3>2. result' = Returns("error") \/ result' = Returns("NotFound")
      BY <3>1 DEF ReceiveReply
    <3>3. result'.status \in {"error", "NotFound"}
      BY <3>2, Outcomes
    <3> QED
      BY <1>1, <1>5, <2>2, <3>3, Messages DEF ResultInv
  <2>3. CASE reply = Found(ItemOf(row)) /\ call.op = "get" /\ row # Absent
    <3>1. ExtractValue(reply) = IF ItemOf(row).kind = "null" THEN "NullValue" ELSE "Success"
      BY <2>3, Messages DEF ExtractValue
    <3>2. \/ result' = Returns("error")
          \/ ItemOf(row).kind = "null" /\ result' = Returns("NullValue")
          \/ /\ ItemOf(row).kind # "null"
             /\ result' = Converted(ItemOf(row), call.arg.kind, call.buf)
      BY <2>3, <3>1, Messages DEF ReceiveReply
    <3> QED
      BY <1>1, <2>3, <3>2, Outcomes DEF ResultInv
  <2> QED
    BY <1>5, <2>1, <2>2, <2>3
<1>7. OpenInv'
  BY <1>1 DEF CallsInv, OpenInv, ReceiveReply
<1> QED
  BY <1>2, <1>3, <1>4, <1>6, <1>7 DEF CallsInv

\* The steps that only end a call or a connection: the end of the stream, a
\* refused update, the rest of a long one, confd_close and confd_open.
LEMMA EndCalls ==
    ASSUME CallsInv,
           call' = call, row' = row, given' = given, request' = None,
           reply' = reply \/ reply' = None,
           result' = result \/ (result = Pending /\ result' = Returns("error"))
    PROVE  CallsInv'
<1>1. StoreInv'
  BY DEF CallsInv, StoreInv
<1>2. ResultInv'
  BY Outcomes DEF CallsInv, ResultInv
<1>3. OpenInv'
  BY DEF OpenInv
<1>4. CASE result' = result
  <2>1. CallInv'
    BY <1>4, Messages DEF CallsInv, CallInv
  <2>2. MessageInv'
    BY <1>4 DEF CallsInv, MessageInv
  <2> QED
    BY <1>1, <1>2, <1>3, <2>1, <2>2 DEF CallsInv
<1>5. CASE result = Pending /\ result' = Returns("error")
  <2>1. CallInv'
    BY <1>5, Outcomes DEF CallsInv, CallInv
  <2>2. MessageInv'
    BY <1>5, Messages DEF CallsInv, MessageInv
  <2> QED
    BY <1>1, <1>2, <1>3, <2>1, <2>2 DEF CallsInv
<1> QED
  BY <1>4, <1>5

\* doCfgQuery.
LEMMA HandleQueryCalls ==
    ASSUME CallsInv, HandleQuery
    PROVE  CallsInv'
<1>1. request = Query /\ call.op = "get" /\ reply = None /\ result = Pending
  BY Messages DEF HandleQuery, CallsInv, MessageInv
<1>2. /\ call' = call /\ row' = row /\ given' = given /\ result' = result /\ request' = None
      /\ reply' = IF row = Absent THEN NotFound ELSE Found(ItemOf(row))
  BY DEF HandleQuery
<1>3. StoreInv'
  BY <1>2 DEF CallsInv, StoreInv
<1>4. CallInv'
  BY <1>1, <1>2, Messages DEF CallsInv, CallInv
<1>5. MessageInv'
  BY <1>1, <1>2 DEF MessageInv
<1>6. ResultInv'
  BY <1>2 DEF CallsInv, ResultInv
<1>7. OpenInv'
  BY <1>2 DEF OpenInv
<1> QED
  BY <1>3, <1>4, <1>5, <1>6, <1>7 DEF CallsInv

\* doCfgUpdate: the row is what becomes of the argument of the call.
LEMMA HandleUpdateCalls ==
    ASSUME CallsInv, HandleUpdate
    PROVE  CallsInv'
<1>1. /\ request = Update(ToItem(call.arg)) /\ call.op = "set"
      /\ reply = None /\ result = Pending
  BY Messages DEF HandleUpdate, CallsInv, MessageInv
<1>2. /\ call' = call /\ given' = call.arg /\ result' = result /\ reply' = Updated
      /\ open' = open
  BY DEF HandleUpdate
<1>3. request' = None \/ (request' = Rest(request'.size) /\ request'.size \in Nat \ {0})
  <2>1. CASE request.size > ReadLimit
    <3>1. request.size \in Nat
      BY <1>1, ArgumentSize DEF Update, CallsInv, CallInv
    <3>2. request' = Rest(request.size - ReadLimit) /\ request'.size = request.size - ReadLimit
      BY <2>1, Messages DEF HandleUpdate
    <3> QED
      BY <2>1, <3>1, <3>2, SizeAssumption
  <2>2. CASE ~(request.size > ReadLimit)
    BY <2>2 DEF HandleUpdate
  <2> QED
    BY <2>1, <2>2
<1>4. StoreInv'
  <2>1. IsArgument(call.arg)
    BY <1>1 DEF CallsInv, CallInv
  <2>2. Stored(call.arg, row')
    BY <1>1 DEF HandleUpdate, Stored
  <2> QED
    BY <1>2, <2>1, <2>2 DEF StoreInv
<1>5. CallInv'
  BY <1>1, <1>2 DEF CallsInv, CallInv
<1>6. MessageInv'
  BY <1>1, <1>2, <1>3, Messages DEF MessageInv
<1>7. ResultInv'
  BY <1>1, <1>2, Outcomes DEF ResultInv
<1>8. OpenInv'
  BY <1>1, <1>2, Messages DEF CallsInv, OpenInv
<1> QED
  BY <1>4, <1>5, <1>6, <1>7, <1>8 DEF CallsInv

\* The steps of libconfd and of the daemon on a call that was made.
Working ==
    \/ ReceiveReply \/ ReceiveEof
    \/ HandleQuery \/ HandleUpdate \/ RejectUpdate \/ RejectRest

\* Those steps keep the invariant.
LEMMA WorkingCalls ==
    ASSUME CallsInv, Working
    PROVE  CallsInv'
<1>1. CASE ReceiveEof
  <2>1. request = None
    BY <1>1 DEF ReceiveEof, CallsInv, OpenInv
  <2> QED
    BY <1>1, <2>1, EndCalls DEF ReceiveEof
<1>2. CASE RejectUpdate
  <2>1. /\ call' = call /\ row' = row /\ given' = given /\ result' = result
        /\ request' = None /\ (reply' = reply \/ reply' = None)
    BY <1>2 DEF RejectUpdate, Abort
  <2> QED
    BY <2>1, EndCalls
<1>3. CASE RejectRest
  <2>1. /\ call' = call /\ row' = row /\ given' = given /\ result' = result
        /\ request' = None /\ (reply' = reply \/ reply' = None)
    BY <1>3 DEF RejectRest, Abort
  <2> QED
    BY <2>1, EndCalls
<1> QED
  BY <1>1, <1>2, <1>3, ReceiveReplyCalls, HandleQueryCalls, HandleUpdateCalls DEF Working

\* Every step of TypedCalls keeps the invariant.
LEMMA NextCalls ==
    ASSUME CallsInv, Next
    PROVE  CallsInv'
<1>1. ASSUME NEW kind \in DOMAIN Inputs, NEW data \in Inputs[kind], Set(Argument(kind, data))
      PROVE  CallsInv'
  <2>1. IsArgument(Argument(kind, data))
    BY InputsAssumption DEF IsArgument, Argument
  <2> QED
    BY <1>1, <2>1, SetCalls
<1>2. ASSUME NEW kind \in Kinds, NEW n \in BufferSizes, Get(kind, n)
      PROVE  CallsInv'
  BY <1>2, SizeAssumption, GetCalls
<1>3. CASE Reopen
  <2>1. request = None
    BY <1>3 DEF Reopen, CallsInv, OpenInv
  <2> QED
    BY <1>3, <2>1, EndCalls DEF Reopen
<1> QED
  BY <1>1, <1>2, <1>3, DeleteCalls, WorkingCalls DEF Next, Working

\* And so does a step that changes nothing.
LEMMA StutterCalls ==
    ASSUME CallsInv, UNCHANGED vars
    PROVE  CallsInv'
BY DEF vars, CallsInv, StoreInv, CallInv, MessageInv, ResultInv, OpenInv

(***************************************************************************)
(* confd-util.                                                             *)
(***************************************************************************)

\* Where main() is, and what it has called; what it has confirmed is set.
StageInv ==
    /\ stage \in {"shell", "connect", "operate", "await"}
    /\ stage # "shell" => args \in Invocations /\ ~Rejected(args)
    /\ stage \in {"connect", "operate"} => Idle
    /\ stage = "operate" => request = None
    /\ stage = "await" =>
          \/ /\ What(args) = "read" /\ args.type \in Kinds
             /\ call.op = "get" /\ call.arg.kind = args.type
             /\ call.buf = BufferFor(args.type)
          \/ What(args) = "write" /\ call.op = "set" /\ confirmed = Nil
    /\ confirmed # Nil => given = confirmed

\* A buffer is large enough, and a parsed text an argument of its type.
LEMMA BufferIsNat ==
    ASSUME NEW kind
    PROVE  BufferFor(kind) \in Nat
<1>1. BufferFor(kind) \in {StringBuffer, BlobBuffer, NoBuffer}
  BY DEF BufferFor
<1> QED
  BY <1>1, BufferAssumption DEF NoBuffer

\* WriteKey passes on what a setter takes.
LEMMA ParsedIsArgument ==
    ASSUME NEW type \in TypeNames, NEW t \in Texts, Parsed(type, t) # Nil
    PROVE  IsArgument(Parsed(type, t))
<1> DEFINE v == Parsed(type, t)
<1>1. CASE type = "string"
  <2>1. v = [kind |-> "string", data |-> t.chars] /\ t.chars \in Seq(Bytes)
    BY <1>1, TextsAssumption DEF Parsed, Argument
  <2> QED
    BY <2>1 DEF IsArgument, Argument, Kinds, Contents
<1>2. CASE type = "int"
  <2>1. v = [kind |-> "int", data |-> t.number] /\ t.number \in Integers64
    BY <1>2, TextsAssumption DEF Parsed, Argument, NumberOf
  <2> QED
    BY <2>1 DEF IsArgument, Argument, Kinds, Contents
<1>3. CASE type = "real"
  <2>1. v = [kind |-> "real", data |-> t.real] /\ t.real \in Reals
    BY <1>3, TextsAssumption DEF Parsed, Argument, NumberOf
  <2> QED
    BY <2>1 DEF IsArgument, Argument, Kinds, Contents
<1>4. CASE type = "bool"
  <2>1. v = ParseBool(t)
    BY <1>4 DEF Parsed
  <2>2. \E b \in BOOLEAN : v = [kind |-> "bool", data |-> b]
    <3>1. CASE t.literal # Nil
      BY <2>1, <3>1, TextsAssumption DEF ParseBool, Argument
    <3>2. CASE t.literal = Nil
      <4>1. v = [kind |-> "bool", data |-> (t.unsigned # 0)]
        BY <2>1, <3>2 DEF ParseBool, Argument
      <4>2. (t.unsigned # 0) \in BOOLEAN
        OBVIOUS
      <4> QED
        BY <4>1, <4>2, Zenon
    <3> QED
      BY <3>1, <3>2
  <2> QED
    BY <2>2 DEF IsArgument, Argument, Kinds, Contents
<1>5. CASE type = "blob"
  <2>1. v = [kind |-> "blob", data |-> t.file] /\ t.file \in Seq(Bytes)
    BY <1>5, TextsAssumption DEF Parsed, Argument
  <2> QED
    BY <2>1 DEF IsArgument, Argument, Kinds, Contents
<1>6. type # "null"
  BY DEF Parsed
<1> QED
  BY <1>1, <1>2, <1>3, <1>4, <1>5, <1>6 DEF TypeNames

\* The start of confd-util.
LEMMA InitStage ==
    ASSUME UtilInit
    PROVE  CallsInv /\ StageInv
BY InitCalls DEF UtilInit, StageInv

\* main() up to its call.
LEMMA InvokeStage ==
    ASSUME CallsInv, StageInv, Invoke
    PROVE  CallsInv' /\ StageInv'
<1>1. CallsInv'
  BY StutterCalls DEF Invoke
<1>2. /\ UNCHANGED vars /\ confirmed' = confirmed /\ Idle /\ args' \in Invocations
      /\ \/ stage' = "shell"
         \/ stage' = "connect" /\ ~Rejected(args')
  BY DEF Invoke, Exits
<1>3. Idle'
  BY <1>2 DEF Idle, vars
<1>4. given' = given
  BY <1>2 DEF vars
<1>5. StageInv'
  BY <1>2, <1>3, <1>4 DEF StageInv
<1> QED
  BY <1>1, <1>5

\* confd_open.
LEMMA ConnectStage ==
    ASSUME CallsInv, StageInv, Connect
    PROVE  CallsInv' /\ StageInv'
<1>1. /\ stage = "connect" /\ stage' \in {"operate", "shell"} /\ call' = call
      /\ reply' = reply /\ row' = row /\ result' = result /\ given' = given /\ args' = args
      /\ confirmed' = confirmed
      /\ \/ stage' = "operate" /\ request' = None
         \/ stage' = "shell" /\ request' = request /\ open' = open
  BY DEF Connect, Exits
<1>2. Idle
  BY <1>1 DEF StageInv
<1>3. CallsInv'
  <2>1. CASE request' = None
    BY <1>1, <2>1, EndCalls
  <2>2. CASE request' = request /\ open' = open
    BY <1>1, <2>2, StutterCalls DEF vars
  <2> QED
    BY <1>1, <2>1, <2>2
<1>4. CASE stage' = "operate" /\ request' = None
  <2>1. Idle'
    BY <1>1, <1>2, <1>4, Messages DEF Idle
  <2> QED
    BY <1>1, <1>3, <1>4, <2>1 DEF StageInv
<1>5. CASE stage' = "shell"
  BY <1>1, <1>3, <1>5 DEF StageInv
<1> QED
  BY <1>1, <1>4, <1>5

\* ReadKey.
LEMMA ReadKeyStage ==
    ASSUME CallsInv, StageInv, ReadKey
    PROVE  CallsInv' /\ StageInv'
<1>1. args \in Invocations /\ ~Rejected(args) /\ What(args) = "read" /\ args.type # "null"
  BY DEF ReadKey, StageInv
<1>2. args.type \in Kinds
  BY <1>1, InvocationsAssumption DEF CommandLines, TypeNames, Rejected, Kinds
<1>3. Get(args.type, BufferFor(args.type))
  BY DEF ReadKey
<1>4. CallsInv'
  BY <1>2, <1>3, BufferIsNat, GetCalls
<1>5. /\ call'.op = "get" /\ call'.arg.kind = args.type /\ call'.buf = BufferFor(args.type)
      /\ given' = given
  BY <1>3 DEF Get, Getting, Argument
<1>6. stage' = "await" /\ args' = args /\ confirmed' = confirmed
  BY DEF ReadKey
<1>7. StageInv'
  BY <1>1, <1>2, <1>5, <1>6 DEF StageInv
<1> QED
  BY <1>4, <1>7

\* WriteKey.
LEMMA WriteKeyStage ==
    ASSUME CallsInv, StageInv, WriteKey
    PROVE  CallsInv' /\ StageInv'
<1> DEFINE v == Parsed(args.type, args.text)
<1>1. args \in Invocations /\ ~Rejected(args) /\ What(args) = "write" /\ v # Nil /\ Set(v)
  BY DEF WriteKey, StageInv
<1>2. args.type \in TypeNames /\ args.text \in Texts
  BY <1>1, InvocationsAssumption DEF CommandLines, Rejected
<1>3. IsArgument(v)
  BY <1>1, <1>2, ParsedIsArgument
<1> HIDE DEF v
<1>4. CallsInv'
  BY <1>1, <1>3, SetCalls
<1>5. call'.op = "set"
  BY <1>1 DEF Set, Setting
<1>6. stage' = "await" /\ args' = args /\ confirmed' = Nil
  BY DEF WriteKey
<1>7. StageInv'
  BY <1>1, <1>5, <1>6 DEF StageInv
<1> QED
  BY <1>4, <1>7

\* An exception before a call.
LEMMA ThrowStage ==
    ASSUME CallsInv, StageInv, Throw
    PROVE  CallsInv' /\ StageInv'
<1>1. /\ stage = "operate" /\ stage' = "shell" /\ call' = call /\ request' = request
      /\ reply' = reply /\ row' = row /\ result' = result /\ given' = given
      /\ confirmed' = confirmed
  BY DEF Throw, Exits
<1>2. request' = None
  BY <1>1 DEF StageInv
<1>3. CallsInv'
  BY <1>1, <1>2, EndCalls
<1>4. StageInv'
  BY <1>1 DEF StageInv
<1> QED
  BY <1>3, <1>4

\* The end of main().
LEMMA FinishStage ==
    ASSUME CallsInv, StageInv, Finish
    PROVE  CallsInv' /\ StageInv'
<1>1. /\ stage = "await" /\ stage' = "shell" /\ call' = call /\ request' = None
      /\ reply' = None /\ row' = row /\ result' = result /\ given' = given
  BY DEF Finish, Exits
<1>2. CallsInv'
  BY <1>1, EndCalls
<1>3. CASE confirmed' = confirmed
  BY <1>1, <1>2, <1>3 DEF StageInv
<1>4. CASE What(args) = "write" /\ result.status \in {"Success"} \cup Ignored /\ confirmed' = call.arg
  <2>1. call.op = "set"
    BY <1>1, <1>4 DEF StageInv
  <2>2. result.status = "Success"
    BY <1>4 DEF Ignored
  <2>3. given = call.arg
    BY <2>1, <2>2 DEF CallsInv, ResultInv
  <2> QED
    BY <1>1, <1>2, <1>4, <2>3 DEF StageInv
<1> QED
  BY <1>3, <1>4 DEF Finish

\* libconfd and the daemon.
LEMMA ServeStage ==
    ASSUME CallsInv, StageInv, Serve
    PROVE  CallsInv' /\ StageInv'
<1>1. Working /\ stage # "shell" /\ UNCHANGED utilVars
  BY DEF Serve, Working
<1>2. CallsInv'
  BY <1>1, WorkingCalls
<1>3. stage' = stage /\ args' = args /\ confirmed' = confirmed
  BY <1>1 DEF utilVars
<1>4. call' = call
  BY <1>1 DEF Working, ReceiveReply, ReceiveEof, HandleQuery, HandleUpdate, RejectUpdate,
              RejectRest, Abort
<1>5. ~Idle \/ RejectRest
  BY <1>1, Messages, Outcomes DEF Working, ReceiveReply, ReceiveEof, HandleQuery, HandleUpdate,
              RejectUpdate, Idle
<1>6. given' = given \/ HandleUpdate
  BY <1>1 DEF Working, ReceiveReply, ReceiveEof, HandleQuery, RejectUpdate, RejectRest, Abort
<1>7. HandleUpdate => call.op = "set"
  BY Messages DEF HandleUpdate, CallsInv, MessageInv
<1>8. CASE stage = "await"
  <2>1. StageInv'
    BY <1>3, <1>4, <1>6, <1>7, <1>8 DEF StageInv
  <2> QED
    BY <1>2, <2>1
<1>9. CASE stage # "await"
  <2>1. RejectRest /\ Idle /\ stage \in {"connect", "operate"}
    BY <1>1, <1>5, <1>9 DEF StageInv
  <2>2. request' = None /\ reply' = None /\ result' = result /\ given' = given
    BY <2>1 DEF RejectRest, Abort, Idle
  <2>3. Idle'
    BY <2>1, <2>2, Messages DEF Idle
  <2>4. StageInv'
    BY <1>3, <1>4, <1>9, <2>2, <2>3 DEF StageInv
  <2> QED
    BY <1>2, <2>4
<1> QED
  BY <1>8, <1>9

\* Every step of the tool and of the application keeps the invariant.
LEMMA NextStage ==
    ASSUME CallsInv, StageInv, [UtilNext]_allVars
    PROVE  CallsInv' /\ StageInv'
<1>1. CASE Application
  <2>1. CallsInv' /\ stage' = "shell" /\ confirmed' = Nil
    BY <1>1, NextCalls DEF Application
  <2> QED
    BY <2>1 DEF StageInv
<1>2. CASE UNCHANGED allVars
  <2>1. UNCHANGED vars /\ stage' = stage /\ args' = args /\ confirmed' = confirmed
    BY <1>2 DEF allVars, utilVars
  <2>2. Idle' <=> Idle
    BY <2>1 DEF vars, Idle
  <2>3. call' = call /\ given' = given /\ request' = request
    BY <2>1 DEF vars
  <2>4. StageInv'
    BY <2>1, <2>2, <2>3 DEF StageInv
  <2> QED
    BY <2>1, <2>4, StutterCalls
<1> QED
  BY <1>1, <1>2, InvokeStage, ConnectStage, ReadKeyStage, WriteKeyStage, ThrowStage, FinishStage,
     ServeStage DEF UtilNext

(***************************************************************************)
(* What confd-util prints.                                                 *)
(***************************************************************************)

\* What was set with one of the kinds that are printed back reads as a value.
LEMMA StoredIsNoNull ==
    ASSUME NEW v, IsArgument(v), v.kind \in {"int", "real", "blob"}, NEW r, Stored(v, r)
    PROVE  ItemOf(r).kind # "null"
<1>1. r.type \in {"Integer", "Real", "Blob"}
  BY StoredInt, StoredReal, StoredBlob
<1> QED
  BY <1>1 DEF ItemOf, Item

\* A read that ended well shows what was confirmed.
LEMMA FinishShows ==
    ASSUME CallsInv, StageInv, Finish,
           NEW type \in {"int", "real", "blob"},
           What(args) = "read", args.type = type, exit' = 0,
           confirmed # Nil, confirmed.kind = type, confirmed.data # NaN,
           MessageSize(ToItem(confirmed)) <= ReadLimit
    PROVE  printed' = confirmed.data
<1>1. /\ call.op = "get" /\ call.arg.kind = type /\ call.buf = BufferFor(type)
      /\ given = confirmed /\ type \in Kinds
  BY DEF Finish, StageInv
<1>2. result.status \in {"Success", "NullValue"} /\ printed' = result.out
  BY DEF Finish, Exits, Ignored, Output
<1>3. IsArgument(given) /\ Stored(given, row)
  BY <1>1 DEF CallsInv, StoreInv
<1>4. result.status = "Success"
  BY <1>1, <1>2, <1>3, StoredIsNoNull DEF CallsInv, ResultInv
<1>5. Got(type)
  BY <1>1, <1>4 DEF Got
<1>6. CASE type \in {"int", "real"}
  BY <1>1, <1>2, <1>5, <1>6, CallsKeepNumbers DEF NumbersRoundTrip
<1>7. CASE type = "blob"
  <2> DEFINE d == given.data
             o == result.out
  <2>1. /\ result.actual = Len(d) /\ o \in Seq(Bytes)
        /\ Len(o) = IF Len(d) < call.buf THEN Len(d) ELSE call.buf
        /\ \A i \in 1 .. Len(o) : i <= Len(d) - Lost(given) => o[i] = d[i]
    BY <1>1, <1>5, <1>7, CallsKeepBlobs DEF BlobsKeepTheirBytes
  <2>2. d \in Seq(Bytes) /\ EnvelopeSize + Len(d) <= ReadLimit
    <3>1. d \in Seq(Bytes) /\ HeaderSize + EnvelopeSize + Len(d) <= HeaderSize + ReadLimit
      BY <1>1, <1>3, <1>7, StoredBlob
    <3>2. Len(d) \in Nat
      BY <3>1
    <3> HIDE DEF d
    <3> QED
      BY <3>1, <3>2, SizeAssumption
  <2>3. call.buf = BlobBuffer
    BY <1>1, <1>7 DEF BufferFor
  <2>4. Lost(given) = 0
    BY <1>1 DEF Lost
  <2> HIDE DEF d, o
  <2>5. Len(o) = Len(d)
    <3> DEFINE m == Len(o)
               n == Len(d)
    <3>1. (m = IF n < BlobBuffer THEN n ELSE BlobBuffer) /\ n \in Nat /\ EnvelopeSize + n <= ReadLimit
      BY <2>1, <2>2, <2>3
    <3> HIDE DEF m, n
    <3>2. m = n
      BY <3>1, SizeAssumption, BufferAssumption
    <3> QED
      BY <3>2 DEF m, n
  <2>6. o = d
    <3>1. \A i \in 1 .. Len(o) : o[i] = d[i]
      BY <2>1, <2>2, <2>4, <2>5
    <3> QED
      BY <2>1, <2>2, <2>5, <3>1, SeqEqual
  <2> QED
    BY <1>1, <1>2, <2>6 DEF d, o
<1> QED
  BY <1>6, <1>7

\* Only the end of an invocation changes what there is to show.
LEMMA NextShows ==
    ASSUME CallsInv, StageInv, ReadsShowConfirmedWrites, [UtilNext]_allVars
    PROVE  ReadsShowConfirmedWrites'
<1> SUFFICES ASSUME NEW type \in {"int", "real", "blob"},
                    HasRead(type)', exit' = 0, confirmed' # Nil, confirmed'.kind = type,
                    confirmed'.data # NaN, MessageSize(ToItem(confirmed')) <= ReadLimit
             PROVE  printed' = confirmed'.data
  BY DEF ReadsShowConfirmedWrites
<1>1. stage' = "shell" /\ What(args') = "read" /\ args'.type = type
  BY DEF HasRead
<1>2. CASE UNCHANGED allVars
  <2>1. /\ stage' = stage /\ args' = args /\ exit' = exit /\ printed' = printed
        /\ confirmed' = confirmed
    BY <1>2 DEF allVars, utilVars
  <2>2. HasRead(type)
    BY <2>1 DEF HasRead
  <2>3. /\ HasRead(type) /\ exit = 0 /\ confirmed # Nil /\ confirmed.kind = type
        /\ confirmed.data # NaN /\ MessageSize(ToItem(confirmed)) <= ReadLimit
    BY <2>1, <2>2, Zenon
  <2>4. printed = confirmed.data
    BY <2>3, Zenon DEF ReadsShowConfirmedWrites
  <2> QED
    BY <2>1, <2>4
<1>3. CASE Finish
  <2>1. args' = args
    BY <1>3 DEF Finish
  <2>2. confirmed' = confirmed
    BY <1>1, <1>3, <2>1 DEF Finish
  <2> QED
    BY <1>1, <1>3, <2>1, <2>2, FinishShows
<1>4. ~Invoke /\ ~Connect /\ ~Throw /\ ~Application
  BY <1>1 DEF Invoke, Connect, Throw, Application, Exits
<1>5. ~ReadKey /\ ~WriteKey
  BY <1>1 DEF ReadKey, WriteKey
<1>6. ~Serve
  BY <1>1 DEF Serve, utilVars
<1> QED
  BY <1>2, <1>3, <1>4, <1>5, <1>6 DEF UtilNext

(***************************************************************************)
(* No call is left waiting, and the types.                                 *)
(***************************************************************************)

\* What makes the daemon's read callback run: a header's worth of bytes.
Readable == request # None /\ (request.kind = "rest" => request.size >= HeaderSize)

\* A call that waits has its request before the daemon, its reply before it, or
\* a connection that has been closed, which ends it.
CallsAreAnswered == result = Pending => Readable \/ reply # None \/ ~open

\* What there is to wait for, with the statuses a call can have.
AnswerInv ==
    /\ open \in BOOLEAN
    /\ result.status \in Statuses
    /\ result.status = "pending" => result = Pending
    /\ CallsAreAnswered

\* A step that leaves a call that has returned, and so has nothing to wait for.
LEMMA ReturnedAnswers ==
    ASSUME AnswerInv, result' = result, open' \in BOOLEAN, result.status # "pending"
    PROVE  AnswerInv'
<1>1. result # Pending
  BY Outcomes
<1> QED
  BY <1>1 DEF AnswerInv, CallsAreAnswered

\* A call ends with a status that says so.
LEMMA EndAnswers ==
    ASSUME open' \in BOOLEAN, result'.status \in Statuses \ {"pending"}
    PROVE  AnswerInv'
<1>1. result' # Pending
  BY Outcomes
<1> QED
  BY <1>1 DEF AnswerInv, CallsAreAnswered

\* A request that was sent wakes the daemon, also after the rest of another one.
LEMMA SentIsReadable ==
    ASSUME CallsInv, request.kind \in {"none", "rest"},
           NEW m, m.kind \notin {"none", "rest"}, m.size \in Nat, HeaderSize <= m.size,
           request' = After(request, m)
    PROVE  Readable'
<1>1. CASE request' = m
  BY <1>1, Messages DEF Readable
<1>2. CASE /\ request' = Rest(request'.size) /\ request'.size \in Nat \ {0}
           /\ m.size <= request'.size
  <2>1. request' # None
    BY <1>2, Messages
  <2>2. HeaderSize <= request'.size
    <3> DEFINE k == m.size
               r == request'.size
    <3>1. k \in Nat /\ r \in Nat /\ k <= r /\ HeaderSize <= k
      BY <1>2
    <3> HIDE DEF k, r
    <3>2. HeaderSize <= r
      BY <3>1, SizeAssumption
    <3> QED
      BY <3>2 DEF r
  <2> QED
    BY <2>1, <2>2 DEF Readable
<1> QED
  BY <1>1, <1>2, AfterRest

\* A setter or getter has sent its request, or has returned at once.
LEMMA CallAnswers ==
    ASSUME AnswerInv, CallsInv,
           \/ \E v : IsArgument(v) /\ Set(v)
           \/ \E kind, n : Get(kind, n)
           \/ Delete
    PROVE  AnswerInv'
<1>1. ASSUME NEW v, IsArgument(v), Set(v)
      PROVE  AnswerInv'
  <2>1. /\ result' = Pending /\ request' = After(request, Update(ToItem(v))) /\ open' = open
        /\ request.kind \in {"none", "rest"}
    BY <1>1 DEF Set, Idle
  <2>2. Update(ToItem(v)).size \in Nat /\ HeaderSize <= Update(ToItem(v)).size
    BY <1>1, ArgumentSize DEF Update
  <2>3. Readable'
    BY <2>1, <2>2, SentIsReadable, Messages
  <2> QED
    BY <2>1, <2>3, Outcomes DEF AnswerInv, CallsAreAnswered, Statuses
<1>2. ASSUME NEW kind, NEW n, Get(kind, n)
      PROVE  AnswerInv'
  <2>1. open' \in BOOLEAN
    BY <1>2 DEF Get, AnswerInv
  <2>2. CASE result' = Returns("InvalidArguments")
    BY <2>1, <2>2, EndAnswers, Outcomes DEF Statuses
  <2>3. CASE result' = Pending /\ request' = After(request, Query)
    <3>0. Query.size \in Nat /\ HeaderSize <= Query.size /\ request.kind \in {"none", "rest"}
      BY <1>2, SizeAssumption DEF Query, Get, Idle
    <3>1. Readable'
      BY <2>3, <3>0, SentIsReadable, Messages
    <3> QED
      BY <2>1, <2>3, <3>1, Outcomes DEF AnswerInv, CallsAreAnswered, Statuses
  <2> QED
    BY <1>2, <2>2, <2>3 DEF Get
<1>3. CASE Delete
  <2>1. open' \in BOOLEAN /\ result' = Returns("NotSupported")
    BY <1>3 DEF Delete, AnswerInv
  <2> QED
    BY <2>1, EndAnswers, Outcomes DEF Statuses
<1> QED
  BY <1>1, <1>2, <1>3

\* Each step on a call brings its answer nearer, or closes the connection.
LEMMA WorkingAnswers ==
    ASSUME AnswerInv, Working
    PROVE  AnswerInv'
<1>1. CASE ReceiveReply
  <2>1. open' \in BOOLEAN
    BY <1>1 DEF ReceiveReply, AnswerInv
  <2>2. ExtractValue(reply) \in {"NotFound", "NullValue", "Success"}
    BY DEF ExtractValue
  <2>3. result'.status \in {"error", "Success", "NotFound", "NullValue", "TypeMismatch"}
    BY <1>1, <2>2, Outcomes DEF ReceiveReply
  <2> QED
    BY <2>1, <2>3, EndAnswers DEF Statuses
<1>2. CASE ReceiveEof
  <2>1. open' \in BOOLEAN /\ result' = Returns("error")
    BY <1>2 DEF ReceiveEof, AnswerInv
  <2> QED
    BY <2>1, EndAnswers, Outcomes DEF Statuses
<1>3. CASE HandleQuery \/ HandleUpdate
  <2>1. open' = open /\ result' = result /\ reply'.kind \in {"not found", "found", "updated"}
    BY <1>3, Messages DEF HandleQuery, HandleUpdate
  <2>2. reply' # None
    BY <2>1, Messages
  <2> QED
    BY <2>1, <2>2 DEF AnswerInv, CallsAreAnswered
<1>4. CASE RejectUpdate \/ RejectRest
  <2>1. open' = FALSE /\ result' = result
    BY <1>4 DEF RejectUpdate, RejectRest, Abort
  <2> QED
    BY <2>1 DEF AnswerInv, CallsAreAnswered
<1> QED
  BY <1>1, <1>2, <1>3, <1>4 DEF Working

\* Every step of the tool and of the application leaves no call without answer.
LEMMA NextAnswers ==
    ASSUME StageInv, CallsInv, AnswerInv, [UtilNext]_allVars
    PROVE  AnswerInv'
<1>1. CASE Application
  <2>1. CASE Reopen
    <3>1. open' \in BOOLEAN /\ result' = result /\ result.status # "pending"
      BY <2>1 DEF Reopen, Idle
    <3> QED
      BY <3>1, ReturnedAnswers
  <2>2. CASE \E kind \in DOMAIN Inputs : \E data \in Inputs[kind] : Set(Argument(kind, data))
    <3>1. PICK kind \in DOMAIN Inputs : \E data \in Inputs[kind] : Set(Argument(kind, data))
      BY <2>2
    <3>2. PICK data \in Inputs[kind] : Set(Argument(kind, data))
      BY <3>1
    <3>3. IsArgument(Argument(kind, data))
      BY InputsAssumption DEF IsArgument, Argument
    <3> QED
      BY <3>2, <3>3, CallAnswers
  <2>3. CASE \E kind \in Kinds : \E n \in BufferSizes : Get(kind, n)
    BY <2>3, CallAnswers
  <2>4. CASE Delete
    BY <2>4, CallAnswers
  <2> QED
    BY <1>1, <2>1, <2>2, <2>3, <2>4, WorkingAnswers DEF Application, Next, Working
<1>2. CASE Invoke \/ UNCHANGED allVars
  <2>1. open' = open /\ result' = result /\ request' = request /\ reply' = reply
    BY <1>2 DEF Invoke, allVars, vars
  <2> QED
    BY <2>1 DEF AnswerInv, CallsAreAnswered, Readable
<1>3. CASE Connect \/ Throw
  <2>1. open' \in BOOLEAN /\ result' = result /\ result.status # "pending"
    BY <1>3 DEF Connect, Throw, Exits, StageInv, Idle, AnswerInv
  <2> QED
    BY <2>1, ReturnedAnswers
<1>4. CASE ReadKey \/ WriteKey
  <2>1. CASE ReadKey
    BY <2>1, CallAnswers DEF ReadKey
  <2>2. CASE WriteKey
    <3> DEFINE v == Parsed(args.type, args.text)
    <3>1. args \in Invocations /\ ~Rejected(args) /\ What(args) = "write" /\ v # Nil /\ Set(v)
      BY <2>2 DEF WriteKey, StageInv
    <3>2. args.type \in TypeNames /\ args.text \in Texts
      BY <3>1, InvocationsAssumption DEF CommandLines, Rejected
    <3>3. IsArgument(v)
      BY <3>1, <3>2, ParsedIsArgument
    <3> HIDE DEF v
    <3> QED
      BY <3>1, <3>3, CallAnswers
  <2> QED
    BY <1>4, <2>1, <2>2
<1>5. CASE Finish
  <2>1. open' = FALSE /\ result' = result
    BY <1>5 DEF Finish
  <2> QED
    BY <2>1 DEF AnswerInv, CallsAreAnswered
<1>6. CASE Serve
  BY <1>6, WorkingAnswers DEF Serve, Working
<1> QED
  BY <1>1, <1>2, <1>3, <1>4, <1>5, <1>6 DEF UtilNext

\* A row holds what its type says, whatever set it.
LEMMA RowTyped ==
    ASSUME StoreInv
    PROVE  \/ row \in {Absent, NullRow}
           \/ row.type \in {"String", "Blob"} /\ row.column \in Seq(Bytes)
           \/ row.type = "Integer" /\ row.column \in Integers64
           \/ row.type = "Real" /\ row.column \in (Reals \ {NaN}) \cup {Nil}
<1> SUFFICES ASSUME IsArgument(given), Stored(given, row)
             PROVE  \/ row.type \in {"String", "Blob"} /\ row.column \in Seq(Bytes)
                    \/ row.type = "Integer" /\ row.column \in Integers64
                    \/ row.type = "Real" /\ row.column \in (Reals \ {NaN}) \cup {Nil}
  BY DEF StoreInv
<1>1. CASE given.kind = "string"
  <2>1. row.type = "String" /\ row.column \in Seq(Bytes)
    BY <1>1, StoredString
  <2> QED
    BY <2>1
<1>2. CASE given.kind = "blob"
  <2>1. row.type = "Blob" /\ row.column \in Seq(Bytes)
    BY <1>2, StoredBlob
  <2> QED
    BY <2>1
<1>3. CASE given.kind = "int"
  BY <1>3, StoredInt
<1>4. CASE given.kind = "real"
  BY <1>4, StoredReal
<1>5. CASE given.kind \in {"bool", "null"}
  <2>1. {0, 1} \subseteq Integers64
    BY WordAssumption DEF Integers64
  <2> QED
    BY <1>5, <2>1, StoredControl
<1> QED
  BY <1>1, <1>2, <1>3, <1>4, <1>5 DEF IsArgument, Kinds

\* The two invariants give every variable its type.
LEMMA CallsTyped ==
    ASSUME CallsInv, AnswerInv
    PROVE  TypeOK
<1>1. request.kind \in {"none", "query", "update", "rest"}
  BY Messages DEF CallsInv, MessageInv
<1>2. reply.kind \in {"none", "updated", "found", "not found"}
  BY Messages DEF CallsInv, MessageInv
<1> QED
  BY <1>1, <1>2, RowTyped DEF TypeOK, CallsInv, CallInv, AnswerInv

(***************************************************************************)
(* The theorems.                                                           *)
(***************************************************************************)

UtilInv == CallsInv /\ StageInv /\ ReadsShowConfirmedWrites

\* The messages, the row and the state of main() stay in step: the row is what
\* became of the latest argument that got through, a reply is that of the call
\* under way, and a call is the one the invocation asks for.
THEOREM InductiveInvariant == UtilSpec => []UtilInv
<1>1. UtilInit => UtilInv
  <2> SUFFICES ASSUME UtilInit
               PROVE  UtilInv
    OBVIOUS
  <2>1. ReadsShowConfirmedWrites
    BY DEF UtilInit, ReadsShowConfirmedWrites
  <2> QED
    BY <2>1, InitStage DEF UtilInv
<1>2. UtilInv /\ [UtilNext]_allVars => UtilInv'
  BY NextStage, NextShows DEF UtilInv
<1>3. UtilSpec => UtilInit /\ [][UtilNext]_allVars
  BY PTL DEF UtilSpec
<1> QED
  BY <1>1, <1>2, <1>3, PTL

\* What confd-util reports as written is what it later reads: integers, doubles
\* and blobs that fit one read of the daemon (WriteKey, ReadKey).
THEOREM WritesAlwaysShown == UtilSpec => []ReadsShowConfirmedWrites
<1>1. UtilInv => ReadsShowConfirmedWrites
  BY DEF UtilInv
<1> QED
  BY <1>1, InductiveInvariant, PTL

\* For every word width, a signed integer survives the casts to uint64_t and
\* back and the int64_t column; a double comes back, a NaN as 0.
THEOREM NumbersAlwaysRoundTrip == UtilSpec => []NumbersRoundTrip
<1>1. UtilInv => NumbersRoundTrip
  BY CallsKeepNumbers DEF UtilInv
<1> QED
  BY <1>1, InductiveInvariant, PTL

\* A getter succeeds only on what the setter of its kind has set, a bool and
\* null counting as integers; confd_get_bool never succeeds.
THEOREM GettersAlwaysMatch == UtilSpec => [](GettersMatchSetters /\ ~Got("bool"))
<1>1. UtilInv => GettersMatchSetters
  BY CallsMatch DEF UtilInv
<1>2. UtilInv => ~Got("bool")
  BY GotItem DEF UtilInv, Kinds
<1> QED
  BY <1>1, <1>2, InductiveInvariant, PTL

\* Whatever size of blob the daemon takes, all bytes that it had read of it come
\* back, cut to the buffer of the caller, with the full length; what it had not
\* read is at most a header's worth (handleClientRead, confd_get_blob).
THEOREM BlobsAlwaysRoundTrip == UtilSpec => []BlobsKeepTheirBytes
<1>1. UtilInv => BlobsKeepTheirBytes
  BY CallsKeepBlobs DEF UtilInv
<1> QED
  BY <1>1, InductiveInvariant, PTL

\* A get of a string of one read is given the whole text found in the request, or
\* as much of it as fits before the NUL, and the length of all of it.
THEOREM StringsAlwaysKeepText == UtilSpec => []StringsKeepTheirText
<1>1. UtilInv => StringsKeepTheirText
  BY CallsKeepStrings DEF UtilInv
<1> QED
  BY <1>1, InductiveInvariant, PTL

\* No reply wraps the 16 bits of its length field, however long the strings and
\* blobs are that callers pass.
THEOREM RepliesAlwaysFit == UtilSpec => []RepliesFit
<1>1. UtilInv => RepliesFit
  BY CallsFit DEF UtilInv
<1> QED
  BY <1>1, InductiveInvariant, PTL

\* What a call waits for, in every reachable state.
LEMMA AnswersInvariant == UtilSpec => []AnswerInv
<1>1. UtilInit => AnswerInv
  <2> SUFFICES ASSUME UtilInit
               PROVE  AnswerInv
    OBVIOUS
  <2>1. open = TRUE /\ result = Returns("NotSupported")
    BY DEF UtilInit, Init
  <2>2. result.status = "NotSupported" /\ result # Pending
    BY <2>1, Outcomes
  <2> QED
    BY <2>1, <2>2 DEF AnswerInv, CallsAreAnswered, Statuses
<1>2. UtilInv /\ AnswerInv /\ [UtilNext]_allVars => AnswerInv'
  BY NextAnswers DEF UtilInv
<1>3. UtilSpec => UtilInit /\ [][UtilNext]_allVars
  BY PTL DEF UtilSpec
<1> QED
  BY <1>1, <1>2, <1>3, InductiveInvariant, PTL

\* No call of libconfd waits for nothing: while one is pending its request or its
\* reply is under way, or the connection was closed and receivePacket finds its
\* end.  It is the safety part of UtilEnds.
THEOREM CallsAlwaysAnswered == UtilSpec => []CallsAreAnswered
<1>1. AnswerInv => CallsAreAnswered
  BY DEF AnswerInv
<1> QED
  BY <1>1, AnswersInvariant, PTL

\* Every variable of the call and of the row keeps its type; above all, no
\* conversion puts into a column what its table cannot hold (BindValue).
THEOREM TypeCorrect == UtilSpec => []TypeOK
<1>1. UtilInv /\ AnswerInv => TypeOK
  BY CallsTyped DEF UtilInv
<1> QED
  BY <1>1, InductiveInvariant, AnswersInvariant, PTL
================================================================================
