---------------------------- MODULE ClientBaseProofs ---------------------------
(***************************************************************************)
(* Proofs about ClientBase, for any clients, descriptors and packets.      *)
(***************************************************************************)
EXTENDS ClientBase, TLAPS, SequenceTheorems, FiniteSetTheorems

\* What is on its way to the handler of client c: the input buffer holds at most
\* one packet, a short one, later than all that were handled, and what was handled
\* was received.  What was received whole was handled.
InputInv(c) ==
    /\ posted[c] \in Seq(PacketKinds)
    /\ received[c] \in 0 .. Len(posted[c])
    /\ handled[c] \in Seq(0 .. received[c])
    /\ \/ input[c] = <<>>
       \/ /\ received[c] > 0 /\ input[c] = <<received[c]>>
          /\ posted[c][received[c]] = "short"
          /\ \A i \in 1 .. Len(handled[c]) : handled[c][i] < received[c]
    /\ InOrder(handled[c])
    /\ \A i \in 1 .. received[c] : IsWhole(c, i) => i \in Range(handled[c])

\* The same for all clients.
Inductive ==
    /\ posted \in [Clients -> Seq(PacketKinds)]
    /\ received \in [Clients -> Nat]
    /\ handled \in [Clients -> Seq(Nat)] /\ input \in [Clients -> Seq(Nat)]
    /\ \A c \in Clients : InputInv(c)

\* bevRead passes on one packet, nothing, or bytes that no one has sent.
LEMMA OutcomesAre ==
    ASSUME NEW c, NEW i, posted[c][i] \in PacketKinds, NEW o \in Outcomes(c, i)
    PROVE  o \in {<<>>, <<Garbage>>, <<i>>}
BY DEF Outcomes, PacketKinds

\* A packet that is received makes the buffer one longer.
LEMMA AppendToEmpty == ASSUME NEW x PROVE Append(<<>>, x) = <<x>>
OBVIOUS

LEMMA AppendToOne ==
    ASSUME NEW n, NEW x
    PROVE  Len(Append(<<n>>, x)) = 2 /\ Append(<<n>>, x)[1] = n
<1>1. <<n>> \in Seq({n, x}) /\ Len(<<n>>) = 1 /\ <<n>>[1] = n
  OBVIOUS
<1> QED
  BY <1>1, AppendProperties

\* Adding one of those to what was handled keeps the order, when the packet is
\* later than all before it.
LEMMA HandledGrows ==
    ASSUME NEW r \in Nat, NEW h \in Seq(0 .. r), InOrder(h), NEW m \in 1 .. r + 1,
           \A i \in 1 .. Len(h) : h[i] < m, NEW o \in {<<>>, <<Garbage>>, <<m>>}
    PROVE  h \o o \in Seq(0 .. r + 1) /\ InOrder(h \o o)
<1>1. h \in Seq(0 .. r + 1) /\ \A i \in 1 .. Len(h) : h[i] \in 0 .. r
  <2>1. 0 .. r \subseteq 0 .. r + 1
    OBVIOUS
  <2> QED
    BY <2>1, SeqMonotonic, ElementOfSeq
<1>2. CASE o = <<>>
  BY <1>1, <1>2, ConcatEmptySeq
<1>3. ASSUME NEW x \in 0 .. r + 1, o = <<x>>, x = Garbage \/ \A i \in 1 .. Len(h) : h[i] < x
      PROVE  h \o o \in Seq(0 .. r + 1) /\ InOrder(h \o o)
  <2>1. h \o o = Append(h, x)
    BY <1>1, <1>3, AppendIsConcat
  <2>2. /\ Append(h, x) \in Seq(0 .. r + 1)
        /\ Len(h) \in Nat /\ Len(Append(h, x)) = Len(h) + 1
        /\ \A i \in 1 .. Len(h) : Append(h, x)[i] = h[i]
        /\ Append(h, x)[Len(h) + 1] = x
    BY <1>1, AppendProperties, LenProperties
  <2>3. InOrder(Append(h, x))
    <3> SUFFICES ASSUME NEW i \in 1 .. Len(h) + 1, NEW j \in 1 .. Len(h) + 1, i < j,
                        Append(h, x)[i] # Garbage, Append(h, x)[j] # Garbage
                 PROVE  Append(h, x)[i] < Append(h, x)[j]
      BY <2>2 DEF InOrder
    <3>0. Len(h) \in Nat
      BY LenProperties
    <3>1. i \in 1 .. Len(h) /\ (j \in 1 .. Len(h) \/ j = Len(h) + 1)
      BY <3>0, SMTT(30)
    <3>2. h[i] \in Nat /\ Append(h, x)[i] = h[i]
      BY <1>1, <2>2, <3>1
    <3>3. CASE j \in 1 .. Len(h)
      <4>1. Append(h, x)[j] = h[j]
        BY <2>2, <3>3
      <4> QED
        BY <3>1, <3>2, <3>3, <4>1 DEF InOrder
    <3>4. CASE j = Len(h) + 1
      <4>1. Append(h, x)[j] = x
        BY <2>2, <3>4
      <4> QED
        BY <1>3, <3>1, <3>2, <4>1
    <3> QED
      BY <3>1, <3>3, <3>4
  <2> QED
    BY <2>1, <2>2, <2>3
<1> QED
  BY <1>2, <1>3 DEF Garbage

\* What was handled stays handled, and what is passed on is.
LEMMA RangeGrows ==
    ASSUME NEW S, NEW h \in Seq(S)
    PROVE  /\ \A o \in Seq(S) : Range(h) \subseteq Range(h \o o)
           /\ \A m \in S : m \in Range(h \o <<m>>)
<1>1. ASSUME NEW o \in Seq(S) PROVE Range(h) \subseteq Range(h \o o)
  <2>1. Len(h) \in Nat /\ Len(o) \in Nat /\ DOMAIN h = 1 .. Len(h)
    BY LenProperties
  <2>2. /\ DOMAIN (h \o o) = 1 .. Len(h) + Len(o)
        /\ \A i \in 1 .. Len(h) : (h \o o)[i] = h[i]
    BY <2>1, ConcatProperties, LenProperties
  <2> QED
    BY <2>1, <2>2 DEF Range
<1>2. ASSUME NEW m \in S PROVE m \in Range(h \o <<m>>)
  <2>1. h \o <<m>> = Append(h, m)
    BY AppendIsConcat
  <2>2. Len(h) \in Nat /\ Append(h, m) \in Seq(S) /\ Len(Append(h, m)) = Len(h) + 1
        /\ Append(h, m)[Len(h) + 1] = m
    BY AppendProperties, LenProperties
  <2>3. Len(h) + 1 \in DOMAIN Append(h, m)
    BY <2>2, LenProperties
  <2> QED
    BY <2>1, <2>2, <2>3 DEF Range
<1> QED
  BY <1>1, <1>2

\* Nothing has been sent or received at first.
LEMMA InitInductive == Init => Inductive
<1> SUFFICES ASSUME Init PROVE Inductive
  OBVIOUS
<1>1. posted \in [Clients -> Seq(PacketKinds)]
  BY EmptySeq DEF Init
<1>2. ASSUME NEW c \in Clients PROVE InputInv(c)
  <2>1. posted[c] = <<>> /\ received[c] = 0 /\ handled[c] = <<>> /\ input[c] = <<>>
    BY DEF Init
  <2> QED
    BY <2>1, EmptySeq DEF InputInv, InOrder, IsWhole
<1> QED
  BY <1>1, <1>2 DEF Init, Inductive

\* A packet that the remote sends is not yet received.
LEMMA PostInductive ==
    ASSUME Inductive, NEW c \in Clients, Post(c)
    PROVE  Inductive'
<1>1. PICK kind \in PacketKinds : posted' = [posted EXCEPT ![c] = Append(posted[c], kind)]
  BY DEF Post
<1>2. /\ Append(posted[c], kind) \in Seq(PacketKinds)
      /\ Len(Append(posted[c], kind)) = Len(posted[c]) + 1 /\ Len(posted[c]) \in Nat
  BY AppendProperties, LenProperties DEF Inductive
<1>3. posted' \in [Clients -> Seq(PacketKinds)] /\ posted'[c] = Append(posted[c], kind)
  BY <1>1, <1>2 DEF Inductive
<1>4. UNCHANGED <<received, input, handled>>
  BY DEF Post
<1>5. ASSUME NEW d \in Clients PROVE InputInv(d)'
  <2>1. CASE d = c
    <3>1. received[c] \in 0 .. Len(posted'[c])
      BY <1>2, <1>3 DEF Inductive, InputInv
    <3>2. \A i \in 1 .. received[c] : posted'[c][i] = posted[c][i]
      BY <1>3, AppendProperties, LenProperties DEF Inductive, InputInv
    <3>3. \A i \in 1 .. received[c] : IsWhole(c, i)' = IsWhole(c, i)
      BY <3>2, <3>1 DEF IsWhole
    <3>4. received[c] > 0 => posted'[c][received[c]] = posted[c][received[c]]
      BY <3>1, <3>2
    <3> QED
      BY <1>3, <1>4, <2>1, <3>1, <3>3, <3>4 DEF Inductive, InputInv
  <2>2. CASE d # c
    BY <1>1, <1>4, <2>2 DEF Inductive, InputInv, IsWhole
  <2> QED
    BY <2>1, <2>2
<1> QED
  BY <1>3, <1>4, <1>5 DEF Inductive

\* bevRead handles the first packet in the buffer, m, and drains it.
LEMMA BufferIsRead ==
    ASSUME Inductive, NEW c \in Clients, Receive(c), received[c] + 1 \in 1 .. Len(posted[c]),
           HeaderIn(c, Append(input[c], received[c] + 1)),
           NEW m \in 1 .. received[c] + 1, Append(input[c], received[c] + 1)[1] = m,
           \A i \in 1 .. Len(handled[c]) : handled[c][i] < m,
           \A i \in 1 .. received[c] + 1 :
              IsWhole(c, i) => i \in 1 .. received[c] \/ Outcomes(c, m) = {<<i>>}
    PROVE  Inductive'
<1> DEFINE r == received[c]
           h == handled[c]
<1>1. /\ posted \in [Clients -> Seq(PacketKinds)] /\ posted' = posted
      /\ r \in Nat /\ Len(posted[c]) \in Nat
      /\ received' = [received EXCEPT ![c] = r + 1] /\ received'[c] = r + 1
      /\ h \in Seq(0 .. r) /\ InOrder(h)
  BY LenProperties DEF Receive, Inductive, InputInv
<1>2. PICK o \in Outcomes(c, m) : handled' = [handled EXCEPT ![c] = h \o o]
  BY <1>1 DEF Receive, bevRead
<1>3. input' = [input EXCEPT ![c] = <<>>]
  BY <1>1 DEF Receive, bevRead
<1>4. o \in {<<>>, <<Garbage>>, <<m>>}
  <2>1. posted[c] \in Seq(PacketKinds) /\ m \in 1 .. Len(posted[c])
    BY <1>1
  <2>2. posted[c][m] \in PacketKinds
    BY <2>1, ElementOfSeq
  <2> QED
    BY <2>2, OutcomesAre
<1>5. h \o o \in Seq(0 .. r + 1) /\ InOrder(h \o o)
  BY <1>1, <1>4, HandledGrows
<1>6. ASSUME NEW i \in 1 .. r + 1, IsWhole(c, i) PROVE i \in Range(h \o o)
  <2>1. h \in Seq(0 .. r + 1)
    <3>1. 0 .. r \subseteq 0 .. r + 1
      BY <1>1
    <3> QED
      BY <1>1, <3>1, SeqMonotonic
  <2>2. CASE i \in 1 .. r
    <3>1. i \in Range(h)
      BY <1>6, <2>2 DEF Inductive, InputInv
    <3>2. o \in Seq(0 .. r + 1)
      <4> DEFINE S == 0 .. r + 1
      <4>1. Garbage \in S /\ m \in S
        BY <1>1 DEF Garbage
      <4> HIDE DEF S
      <4>2. <<>> \in Seq(S) /\ <<Garbage>> \in Seq(S) /\ <<m>> \in Seq(S)
        BY <4>1
      <4>3. o \in Seq(S)
        BY <1>4, <4>2
      <4> QED
        BY <4>3 DEF S
    <3> QED
      BY <2>1, <3>1, <3>2, RangeGrows
  <2>3. CASE Outcomes(c, m) = {<<i>>}
    <3>1. o = <<i>> /\ i \in 0 .. r + 1
      BY <1>1, <2>3
    <3> QED
      BY <2>1, <3>1, RangeGrows
  <2> QED
    BY <1>6, <2>2, <2>3
<1>7. InputInv(c)'
  <2>1. /\ handled'[c] = h \o o /\ input'[c] = <<>> /\ received'[c] \in 0 .. Len(posted'[c])
        /\ posted'[c] \in Seq(PacketKinds)
        /\ \A i \in 1 .. r + 1 : IsWhole(c, i)' = IsWhole(c, i)
    BY <1>1, <1>2, <1>3 DEF Inductive, IsWhole
  <2> HIDE DEF r, h
  <2> QED
    BY <1>1, <1>5, <1>6, <2>1 DEF InputInv
<1>8. ASSUME NEW d \in Clients \ {c} PROVE InputInv(d)'
  BY <1>1, <1>2, <1>3 DEF Inductive, InputInv, IsWhole
<1>9. handled' \in [Clients -> Seq(Nat)] /\ input' \in [Clients -> Seq(Nat)]
  <2>1. 0 .. r + 1 \subseteq Nat
    BY <1>1
  <2>2. h \o o \in Seq(Nat)
    BY <1>5, <2>1, SeqMonotonic
  <2> DEFINE x == h \o o
  <2>3. x \in Seq(Nat) /\ handled' = [handled EXCEPT ![c] = x]
    BY <1>2, <2>2
  <2> HIDE DEF x
  <2> QED
    BY <1>3, <2>3, EmptySeq DEF Inductive
<1>10. received' \in [Clients -> Nat]
  BY <1>1 DEF Inductive
<1>11. ASSUME NEW d \in Clients PROVE InputInv(d)'
  BY <1>7, <1>8
<1>12. posted' \in [Clients -> Seq(PacketKinds)]
  BY <1>1
<1> HIDE DEF r, h
<1> QED
  BY <1>9, <1>10, <1>11, <1>12 DEF Inductive

\* What is handled next is later than all before it, and no packet that is whole
\* is dropped: one that is run together has a short one before it.
LEMMA ReceiveInductive ==
    ASSUME Inductive, NEW c \in Clients, Receive(c)
    PROVE  Inductive'
<1> DEFINE r == received[c]
           h == handled[c]
           buffer == Append(input[c], r + 1)
<1>1. /\ posted \in [Clients -> Seq(PacketKinds)] /\ posted' = posted
      /\ r \in Nat /\ r + 1 \in 1 .. Len(posted[c]) /\ Len(posted[c]) \in Nat
      /\ received' = [received EXCEPT ![c] = r + 1] /\ received'[c] = r + 1
      /\ h \in Seq(0 .. r) /\ InOrder(h)
  BY LenProperties DEF Receive, Inductive, InputInv
<1> DEFINE Before(m) == \A i \in 1 .. Len(h) : h[i] < m
           Short == r > 0 /\ input[c] = <<r>> /\ posted[c][r] = "short" /\ Before(r)
<1>2. CASE input[c] = <<>>
  <2>1. buffer = <<r + 1>> /\ buffer[1] = r + 1 /\ Len(buffer) = 1
    BY <1>2, AppendToEmpty
  <2>2. Before(r + 1)
    <3>1. \A i \in 1 .. Len(h) : h[i] \in 0 .. r
      BY <1>1, ElementOfSeq
    <3>2. r \in Nat
      BY <1>1
    <3>3. ASSUME NEW i \in 1 .. Len(h) PROVE h[i] < r + 1
      <4>1. h[i] \in 0 .. r
        BY <3>1
      <4> HIDE DEF h, r
      <4> QED
        BY <3>2, <4>1
    <3> QED
      BY <3>3
  <2>3. CASE posted[c][r + 1] = "short"
    <3>1. input' = [input EXCEPT ![c] = <<r + 1>>] /\ handled' = handled
      <4>1. ~HeaderIn(c, buffer)
        BY <2>1, <2>3 DEF HeaderIn
      <4>2. input' = [input EXCEPT ![c] = buffer] /\ handled' = handled
        BY <1>1, <4>1 DEF Receive
      <4> QED
        BY <2>1, <4>2
    <3>2. InputInv(c)'
      <4>1. h \in Seq(0 .. r + 1)
        <5>1. 0 .. r \subseteq 0 .. r + 1
          BY <1>1
        <5> QED
          BY <1>1, <5>1, SeqMonotonic
      <4>2. ASSUME NEW i \in 1 .. r + 1, IsWhole(c, i) PROVE i \in Range(h)
        <5>1. i \in 1 .. r
          BY <1>1, <2>3, <4>2 DEF IsWhole
        <5> QED
          BY <4>2, <5>1 DEF Inductive, InputInv
      <4>3. r + 1 \in 0 .. Len(posted[c]) /\ r + 1 > 0
        BY <1>1
      <4> HIDE DEF r, h
      <4> QED
        BY <1>1, <2>2, <2>3, <3>1, <4>1, <4>2, <4>3 DEF Inductive, InputInv, IsWhole, r, h
    <3>3. ASSUME NEW d \in Clients \ {c} PROVE InputInv(d)'
      BY <1>1, <3>1 DEF Inductive, InputInv, IsWhole
    <3> QED
      BY <1>1, <3>1, <3>2, <3>3 DEF Inductive
  <2>4. CASE posted[c][r + 1] # "short"
    <3>1. HeaderIn(c, buffer)
      BY <2>1, <2>4 DEF HeaderIn
    <3>2. ASSUME NEW i \in 1 .. r + 1, IsWhole(c, i) PROVE i \in 1 .. r \/ Outcomes(c, r + 1) = {<<i>>}
      BY <1>1, <3>2 DEF IsWhole, Outcomes
    <3>3. r + 1 \in 1 .. r + 1
      BY <1>1
    <3> HIDE DEF Before
    <3> QED
      BY <1>1, <2>1, <2>2, <3>1, <3>2, <3>3, BufferIsRead DEF Before
  <2> QED
    BY <2>3, <2>4
<1>3. CASE Short
  <2>1. buffer[1] = r /\ Len(buffer) = 2
    BY <1>3, AppendToOne
  <2>2. HeaderIn(c, buffer)
    BY <2>1 DEF HeaderIn
  <2>3. ASSUME NEW i \in 1 .. r + 1, IsWhole(c, i) PROVE i \in 1 .. r
    BY <1>1, <1>3, <2>3 DEF IsWhole
  <2>4. r \in 1 .. r + 1
    BY <1>1, <1>3
  <2> QED
    BY <1>1, <1>3, <2>1, <2>2, <2>3, <2>4, BufferIsRead
<1> QED
  BY <1>2, <1>3 DEF Inductive, InputInv

\* Whatever clients, remotes and the loop do, no handler is called with a packet
\* that is not later than those before it.
THEOREM InductiveInvariant == Spec => []Inductive
<1>1. Inductive /\ [Next]_vars => Inductive'
  <2> SUFFICES ASSUME Inductive, [Next]_vars PROVE Inductive'
    OBVIOUS
  <2>1. CASE \E c \in Clients : Post(c)
    BY <2>1, PostInductive
  <2>2. CASE \E c \in Clients : Receive(c)
    BY <2>2, ReceiveInductive
  <2>3. CASE UNCHANGED <<posted, received, input, handled>>
    BY <2>3 DEF Inductive, InputInv, InOrder, IsWhole
  <2> QED
    BY <2>1, <2>2, <2>3 DEF Next, vars, connVars, Activate, handleTermination, DestroyLoop, AppOpen,
       Construct, Destroy, sendPacket, Hangup, bevEvent
<1> QED
  BY <1>1, InitInductive, PTL DEF Spec

\* Packets are handled in the order in which they were sent, none of them twice and
\* none of the whole ones left out, however the remote cuts and runs them together
\* (bevRead).
THEOREM AlwaysHandledInOrder == Spec => []HandledInOrder
<1>1. Inductive => HandledInOrder
  BY DEF Inductive, InputInv, HandledInOrder
<1> QED
  BY <1>1, InductiveInvariant, PTL

--------------------------------------------------------------------------------
(* Types.  The descriptors of live clients are where their packets go.      *)

\* The types of what belongs to the process.
Typed ==
    /\ table \in [Fds -> Receivers]
    /\ client \in [Clients -> Members]
    /\ \A c \in Clients : Live(c) => client[c].fd \in Fds
    /\ remoteOpen \in [Clients -> BOOLEAN]
    /\ sent \in [Clients -> Seq([tag : 1 .. TagMod - 1, to : Receivers])]
    /\ loop \in [state : {"none", "running", "stopped"}, main : BOOLEAN]
    /\ dead \in BOOLEAN

\* A set of descriptors that is not empty has a least one: of the intervals that
\* end in a descriptor of the set, some one contains no other.
LEMMA MinOfFds ==
    ASSUME NEW S, S \subseteq Fds, S # {}
    PROVE  Min(S) \in S
<1> DEFINE Below == {0 .. x : x \in S}
<1>1. IsFiniteSet(Fds)
  <2>1. 0 \in Int /\ MaxFd \in Int
    BY BoundsAssumption
  <2> QED
    BY <2>1, FS_Interval DEF Fds
<1>2. IsWellFoundedOn(StrictSubsetOrdering(Fds), SUBSET Fds)
  BY <1>1, FS_StrictSubsetOrderingWellFounded, FS_FiniteSubsetsOfFinite
<1>3. ASSUME NEW x \in S PROVE 0 .. x \in SUBSET Fds
  BY BoundsAssumption DEF Fds
<1>4. Below \subseteq SUBSET Fds /\ Below # {}
  BY <1>3
<1>5. PICK B \in Below : \A U \in Below : <<U, B>> \notin StrictSubsetOrdering(Fds)
  <2> HIDE DEF Below
  <2> QED
    BY <1>2, <1>4, WFMin
<1>6. PICK x \in S : B = 0 .. x
  OBVIOUS
<1>7. ASSUME NEW y \in S, ~(x <= y) PROVE FALSE
  <2>1. y \in Nat /\ x \in Nat /\ y < x
    BY <1>7, BoundsAssumption DEF Fds
  <2>2. 0 .. y \subseteq 0 .. x /\ 0 .. y # 0 .. x
    BY <2>1
  <2>3. 0 .. y \in Below /\ 0 .. y \in SUBSET Fds /\ 0 .. x \in SUBSET Fds
    BY <1>3
  <2>4. <<0 .. y, B>> \in StrictSubsetOrdering(Fds)
    BY <1>6, <2>2, <2>3 DEF StrictSubsetOrdering
  <2> QED
    BY <1>5, <2>3, <2>4
<1> QED
  BY <1>7 DEF Min

\* socket() returns the lowest descriptor that is free.
LEMMA MinFree == Free # {} => Min(Free) \in Fds
<1>1. Free \subseteq Fds
  BY DEF Free
<1> QED
  BY <1>1, MinOfFds

\* Tags are those of a uint8_t, and skip zero.
LEMMA NextTagType ==
    ASSUME NEW t \in 0 .. TagMod - 1
    PROVE  NextTag(t) \in 1 .. TagMod - 1
<1>1. TagMod \in Nat /\ TagMod > 1 /\ t + 1 \in Nat
  BY BoundsAssumption
<1>2. (t + 1) % TagMod \in 0 .. TagMod - 1
  BY <1>1
<1> QED
  BY <1>1, <1>2 DEF NextTag

\* One client's members change, and it has a descriptor if it is live.
LEMMA MembersChange ==
    ASSUME Typed, NEW c \in Clients, NEW m \in Members, m.state = "live" => m.fd \in Fds,
           client' = [client EXCEPT ![c] = m]
    PROVE  client' \in [Clients -> Members] /\ \A d \in Clients : Live(d)' => client'[d].fd \in Fds
BY DEF Typed, Live

\* A constructor that connects gets the lowest free descriptor.
LEMMA ConstructTyped ==
    ASSUME Typed, NEW c \in Clients, Construct(c)
    PROVE  Typed'
<1>1. sent' = sent /\ loop' = loop
  BY DEF Construct
<1>2. CASE /\ dead' = TRUE
           /\ UNCHANGED <<table, client, remoteOpen>>
  BY <1>1, <1>2 DEF Typed, Live
<1>3. CASE /\ client' = [client EXCEPT ![c].state = "failed"]
           /\ UNCHANGED <<table, remoteOpen, dead>>
  <2> DEFINE m == [client[c] EXCEPT !.state = "failed"]
  <2>1. m \in Members /\ m.state # "live" /\ client' = [client EXCEPT ![c] = m]
    BY <1>3 DEF Typed, Members
  <2>2. client' \in [Clients -> Members] /\ \A d \in Clients : Live(d)' => client'[d].fd \in Fds
    <3> HIDE DEF m
    <3> QED
      BY <2>1, MembersChange
  <2> QED
    BY <1>1, <1>3, <2>2 DEF Typed
<1>4. CASE /\ Free # {} /\ table' = [table EXCEPT ![Min(Free)] = c]
           /\ remoteOpen' = [remoteOpen EXCEPT ![c] = TRUE]
           /\ \/ client' = [client EXCEPT ![c].state = "live", ![c].fd = Min(Free),
                                          ![c].listening = TRUE]
              \/ client' = [client EXCEPT ![c].state = "failed"]
           /\ UNCHANGED dead
  <2>1. Min(Free) \in Fds
    BY <1>4, MinFree
  <2> DEFINE f == Min(Free)
  <2> HIDE DEF f
  <2>2. table' \in [Fds -> Receivers] /\ remoteOpen' \in [Clients -> BOOLEAN] /\ dead' \in BOOLEAN
    BY <1>4, <2>1 DEF Typed, Receivers
  <2>3. client' \in [Clients -> Members] /\ \A d \in Clients : Live(d)' => client'[d].fd \in Fds
    <3>1. f \in Fds /\ client \in [Clients -> Members]
      BY <2>1 DEF Typed, f
    <3>2. CASE client' = [client EXCEPT ![c].state = "live", ![c].fd = f, ![c].listening = TRUE]
      <4> DEFINE m == [client[c] EXCEPT !.state = "live", !.fd = f, !.listening = TRUE]
      <4>1. m \in Members /\ m.fd \in Fds /\ client' = [client EXCEPT ![c] = m]
        BY <3>1, <3>2 DEF Members
      <4> HIDE DEF m
      <4> QED
        BY <4>1, MembersChange
    <3>3. CASE client' = [client EXCEPT ![c].state = "failed"]
      <4> DEFINE m == [client[c] EXCEPT !.state = "failed"]
      <4>1. m \in Members /\ m.state # "live" /\ client' = [client EXCEPT ![c] = m]
        BY <3>1, <3>3 DEF Members
      <4> HIDE DEF m
      <4> QED
        BY <4>1, MembersChange
    <3> QED
      BY <1>4, <3>2, <3>3 DEF f
  <2> QED
    BY <1>1, <2>2, <2>3 DEF Typed
<1> QED
  BY <1>2, <1>3, <1>4 DEF Construct

\* The destructor closes what fd says.
LEMMA DestroyTyped ==
    ASSUME Typed, NEW c \in Clients, Destroy(c)
    PROVE  Typed'
<1>1. client' \in [Clients -> Members] /\ \A d \in Clients : Live(d)' => client'[d].fd \in Fds
  BY ZenonT(60) DEF Destroy, Typed, Live, Members
<1>2. table' \in [Fds -> Receivers]
  BY DEF Destroy, Typed, Receivers
<1> QED
  BY <1>1, <1>2 DEF Destroy, Typed, connVars

\* A packet goes to what is open under the client's descriptor, or to nobody.
LEMMA sendPacketTyped ==
    ASSUME Typed, NEW c \in Clients, sendPacket(c)
    PROVE  Typed'
<1> DEFINE tag == NextTag(client[c].nextTag)
           to == table[client[c].fd]
           Packets == [tag : 1 .. TagMod - 1, to : Receivers]
<1>1. client[c] \in Members /\ client[c].fd \in Fds /\ to \in Receivers /\ Nil \in Receivers
  BY DEF sendPacket, Typed, Receivers
<1>2. tag \in 1 .. TagMod - 1
  BY <1>1, NextTagType DEF Members
<1>3. client' \in [Clients -> Members] /\ \A d \in Clients : Live(d)' => client'[d].fd \in Fds
  <2>1. tag \in 0 .. TagMod - 1
    BY <1>2, BoundsAssumption
  <2>2. client' = [client EXCEPT ![c].nextTag = tag]
    BY DEF sendPacket
  <2> HIDE DEF tag
  <2> DEFINE m == [client[c] EXCEPT !.nextTag = tag]
  <2>3. m \in Members /\ m.fd \in Fds /\ client' = [client EXCEPT ![c] = m]
    BY <1>1, <2>1, <2>2 DEF Members
  <2> HIDE DEF m
  <2> QED
    BY <2>3, MembersChange
<1>4. sent' \in [Clients -> Seq(Packets)] /\ dead' \in BOOLEAN
  <2>1. CASE sent' = sent /\ dead' = TRUE
    BY <2>1 DEF Typed
  <2>2. ASSUME NEW x \in Receivers, dead' = dead,
               sent' = [sent EXCEPT ![c] = Append(sent[c], [tag |-> tag, to |-> x])]
        PROVE  sent' \in [Clients -> Seq(Packets)] /\ dead' \in BOOLEAN
    <3> DEFINE packet == [tag |-> tag, to |-> x]
    <3>1. packet \in Packets
      BY <1>2
    <3>2. sent \in [Clients -> Seq(Packets)] /\ dead \in BOOLEAN
      BY DEF Typed
    <3> HIDE DEF packet, Packets
    <3>3. Append(sent[c], packet) \in Seq(Packets)
      BY <3>1, <3>2, AppendProperties
    <3> QED
      BY <2>2, <3>2, <3>3 DEF packet
  <2> QED
    BY <1>1, <2>1, <2>2 DEF sendPacket, sendRaw
<1> QED
  BY <1>3, <1>4 DEF sendPacket, connVars, Typed

\* After an error fd is 0, or what it was.
LEMMA bevEventTyped ==
    ASSUME Typed, NEW c \in Clients, bevEvent(c)
    PROVE  Typed'
<1>1. 0 \in Fds
  BY BoundsAssumption DEF Fds
<1>2. client' \in [Clients -> Members] /\ \A d \in Clients : Live(d)' => client'[d].fd \in Fds
  <2>1. client[c] \in Members /\ (client[c].state = "live" => client[c].fd \in Fds)
    BY DEF Typed, Live
  <2>2. CASE client' = [client EXCEPT ![c].listening = FALSE, ![c].fd = 0, ![c].eof = TRUE]
    <3> DEFINE m == [client[c] EXCEPT !.listening = FALSE, !.fd = 0, !.eof = TRUE]
    <3>1. m \in Members /\ m.fd \in Fds /\ client' = [client EXCEPT ![c] = m]
      BY <1>1, <2>1, <2>2 DEF Members
    <3> HIDE DEF m
    <3> QED
      BY <3>1, MembersChange
  <2>3. CASE client' = [client EXCEPT ![c].listening = FALSE]
    <3> DEFINE m == [client[c] EXCEPT !.listening = FALSE]
    <3>1. /\ m \in Members /\ m.state = client[c].state /\ m.fd = client[c].fd
          /\ client' = [client EXCEPT ![c] = m]
      BY <2>1, <2>3 DEF Members
    <3> HIDE DEF m
    <3> QED
      BY <2>1, <3>1, MembersChange
  <2> QED
    BY <2>2, <2>3 DEF bevEvent
<1> QED
  BY <1>2 DEF bevEvent, connVars, Typed

\* What the application opens gets the lowest free descriptor, too.
LEMMA AppOpenTyped ==
    ASSUME Typed, AppOpen
    PROVE  Typed'
<1>1. Min(Free) \in Fds
  BY MinFree DEF AppOpen
<1>2. table' \in [Fds -> Receivers]
  BY <1>1 DEF AppOpen, Typed, Receivers
<1> QED
  BY <1>2 DEF AppOpen, connVars, Typed, Live

\* The variables keep their types (ClientBase.h): descriptors are open or -1, and
\* tags are never zero.
THEOREM TypeCorrect == Spec => []TypeOK
<1>1. Init => Typed
  <2> SUFFICES ASSUME Init PROVE Typed
    OBVIOUS
  <2>1. client \in [Clients -> Members] /\ \A c \in Clients : ~Live(c)
    BY BoundsAssumption DEF Init, NoClient, Members, Live
  <2>2. table \in [Fds -> Receivers] /\ remoteOpen \in [Clients -> BOOLEAN]
    BY DEF Init, Receivers
  <2>3. sent \in [Clients -> Seq([tag : 1 .. TagMod - 1, to : Receivers])]
    BY EmptySeq DEF Init
  <2> QED
    BY <2>1, <2>2, <2>3 DEF Init, Typed
<1>2. Typed /\ [Next]_vars => Typed'
  <2> SUFFICES ASSUME Typed, [Next]_vars PROVE Typed'
    OBVIOUS
  <2>1. CASE \E c \in Clients : Construct(c)
    BY <2>1, ConstructTyped
  <2>2. CASE \E c \in Clients : Destroy(c)
    BY <2>2, DestroyTyped
  <2>3. CASE \E c \in Clients : sendPacket(c)
    BY <2>3, sendPacketTyped
  <2>4. CASE \E c \in Clients : bevEvent(c)
    BY <2>4, bevEventTyped
  <2>5. CASE AppOpen
    BY <2>5, AppOpenTyped
  <2>6. CASE Activate
    <3>1. loop' \in [state : {"none", "running", "stopped"}, main : BOOLEAN]
      BY <2>6 DEF Activate
    <3> QED
      BY <2>6, <3>1 DEF Activate, connVars, Typed, Live
  <2>7. CASE handleTermination
    BY <2>7 DEF handleTermination, connVars, Typed, Live
  <2>8. CASE DestroyLoop
    BY <2>8 DEF DestroyLoop, connVars, Typed, Live
  <2>9. CASE \E c \in Clients : Hangup(c)
    BY <2>9 DEF Hangup, Typed, Live
  <2>10. CASE UNCHANGED <<table, client, sent, remoteOpen, loop, dead>>
    BY <2>10 DEF Typed, Live
  <2> QED
    BY <2>1, <2>2, <2>3, <2>4, <2>5, <2>6, <2>7, <2>8, <2>9, <2>10 DEF Next, Post, Receive, vars
<1>3. Typed /\ Inductive => TypeOK
  <2> SUFFICES ASSUME Typed, Inductive PROVE TypeOK
    OBVIOUS
  <2>1. ASSUME NEW c \in Clients PROVE received[c] <= Len(posted[c])
    BY <2>1, LenProperties DEF Inductive, InputInv
  <2> HIDE DEF Inductive
  <2>2. /\ posted \in [Clients -> Seq(PacketKinds)]
        /\ received \in [Clients -> Nat]
        /\ handled \in [Clients -> Seq(Nat)] /\ input \in [Clients -> Seq(Nat)]
    BY DEF Inductive
  <2> QED
    BY <2>1, <2>2 DEF Typed, TypeOK
<1> QED
  BY <1>1, <1>2, <1>3, InductiveInvariant, PTL DEF Spec
================================================================================
