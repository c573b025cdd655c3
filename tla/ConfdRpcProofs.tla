---------------------------- MODULE ConfdRpcProofs -----------------------------
(***************************************************************************)
(* Proofs about ConfdRpc, for any number of processes, threads, calls and  *)
(* connections, whatever is interrupted, dropped, closed or restarted.     *)
(***************************************************************************)
EXTENDS ConfdRpc, TLAPS, SequenceTheorems, FiniteSetTheorems

(***************************************************************************)
(* The inductive invariant.                                                *)
(***************************************************************************)

\* The messages of a sequence, and that their numbers increase.
Elems(s) == {s[j] : j \in 1 .. Len(s)}
Increasing(s) == \A j, k \in 1 .. Len(s) : j < k => s[j].n < s[k].n

\* What is on its way on connection i and can reach a caller.
InFlight(i) == Elems(inbox[i]) \cup Elems(rep[i]) \cup (Elems(req[i]) \ {Junk})

\* Is connection i that of a process, or does a thread of one still use it?
Used(i) == HasPeer(i) \/ \E t \in Threads : InCall(t) /\ call[t].conn = i

\* The operation a call is for.
Operation(t) == [ep |-> call[t].ep, key |-> call[t].key, value |-> call[t].value,
                 large |-> call[t].large]

\* A connection belongs to one process, and is opened once.
ConnInv ==
    /\ \A c \in Clients : conn[c] # 0 => srv[conn[c]] # "unused"
    /\ \A c, d \in Clients : conn[c] # 0 /\ conn[c] = conn[d] => c = d
    /\ \A i \in Conns : srv[i] = "unused" => req[i] = <<>> /\ rep[i] = <<>> /\ inbox[i] = <<>>
    /\ \A t \in Threads : InCall(t) =>
          /\ call[t].conn \in Conns /\ Operation(t) \in Operations
          /\ srv[call[t].conn] # "unused"
          /\ ret[t].status = "none"
          /\ \A c \in Clients : conn[c] = call[t].conn => c = Home[t]
    /\ \A t, u \in Threads :
          InCall(t) /\ InCall(u) /\ call[t].conn = call[u].conn => Home[t] = Home[u]

\* One thread at a time holds the lock of a connection, and waits for the reply to
\* the latest request.
LockInv ==
    /\ \A t, u \in Threads :
          pc[t] = "wait" /\ pc[u] = "wait" /\ call[t].conn = call[u].conn => t = u
    /\ \A t \in Threads : pc[t] = "wait" => call[t].n = sent[call[t].conn]

\* There are no more requests than calls, and no more interrupts than requests.
CountInv ==
    \A i \in Conns :
        /\ sent[i] + Cardinality(Queued(i)) <= MaxCalls
        /\ interrupts[i] + (IF Locked(i) THEN 1 ELSE 0) <= sent[i]

\* Numbers increase along each queue, and from one queue to the next.
OrderInv ==
    \A i \in Conns :
        /\ Increasing(inbox[i]) /\ Increasing(rep[i]) /\ Increasing(req[i])
        /\ \A m \in Elems(inbox[i]), r \in Elems(rep[i]) : m.n < r.n
        /\ \A m \in Elems(inbox[i]) \cup Elems(rep[i]), q \in Elems(req[i]) \ {Junk} : m.n < q.n
        /\ \A m \in InFlight(i) : m.n <= sent[i]

\* The lag of LagBounded, also after confd_close, for as long as a thread calls.
LagInv ==
    \A i \in Conns : \A m \in InFlight(i) :
        Used(i) /\ (srv[i] = "closed" => Locked(i)) =>
            sent[i] - m.n + (IF Locked(i) THEN 0 ELSE 1) <= interrupts[i]

\* A message with the number of a waiting call is its request, or the reply to it.
MatchInv ==
    \A t \in Threads : pc[t] = "wait" =>
        LET i == call[t].conn IN
        /\ \A q \in Elems(req[i]) \ {Junk} : q.n = call[t].n =>
              q.op.ep = call[t].ep /\ q.op.key = call[t].key /\ q.op.value = call[t].value
        /\ \A r \in Elems(inbox[i]) \cup Elems(rep[i]) : r.n = call[t].n =>
              (IF call[t].ep = "query" THEN r.value ELSE call[t].value) \in window[t]

\* A get under way has seen what its key holds now.
WindowInv ==
    \A t \in Threads :
        InCall(t) /\ call[t].ep = "query" => store[call[t].key] \in window[t]

\* A thread whose last call succeeded made it on a connection, and is not in another.
ResultInv ==
    \A t \in Threads : ret[t].status = "ok" => ~InCall(t) /\ call[t].conn \in Conns

Inductive ==
    /\ TypeOK /\ ConnInv /\ LockInv /\ CountInv /\ OrderInv /\ LagInv /\ MatchInv /\ WindowInv
    /\ ResultInv /\ OwnReply /\ AnswersAreCurrent

(***************************************************************************)
(* Queues of messages.                                                     *)
(***************************************************************************)

\* The messages of a queue are of its type.
LEMMA ElemsAre ==
    ASSUME NEW S, NEW s \in Seq(S)
    PROVE  Elems(s) \subseteq S
BY ElementOfSeq DEF Elems

\* A queue without messages.
LEMMA EmptyQueue == Elems(<<>>) = {} /\ Increasing(<<>>)
BY DEF Elems, Increasing

\* A queue with one message.
LEMMA SingleQueue == ASSUME NEW x PROVE Elems(<<x>>) = {x} /\ Increasing(<<x>>)
BY DEF Elems, Increasing

\* A message that is put at the end.
LEMMA QueueAppend ==
    ASSUME NEW S, NEW s \in Seq(S), NEW x \in S
    PROVE  /\ Append(s, x) \in Seq(S)
           /\ Elems(Append(s, x)) = Elems(s) \cup {x}
           /\ Increasing(s) /\ (\A m \in Elems(s) : m.n < x.n) => Increasing(Append(s, x))
<1> DEFINE L == Len(s)
           e == Append(s, x)
<1>1. /\ L \in Nat /\ e \in Seq(S) /\ Len(e) = L + 1
      /\ \A j \in 1 .. L : e[j] = s[j]
      /\ e[L + 1] = x
  BY AppendProperties, LenProperties
<1> HIDE DEF L, e
<1>2. 1 .. L + 1 = (1 .. L) \cup {L + 1}
  BY <1>1
<1>3. Elems(e) = Elems(s) \cup {x}
  BY <1>1, <1>2 DEF Elems, L
<1>4. ASSUME Increasing(s), \A m \in Elems(s) : m.n < x.n PROVE Increasing(e)
  <2> SUFFICES ASSUME NEW j \in 1 .. L + 1, NEW k \in 1 .. L + 1, j < k
               PROVE  e[j].n < e[k].n
    BY <1>1 DEF Increasing
  <2>1. j \in 1 .. L
    BY <1>1
  <2>2. CASE k \in 1 .. L
    BY <1>1, <1>4, <2>1, <2>2 DEF Increasing, L
  <2>3. CASE k = L + 1
    <3>1. s[j] \in Elems(s)
      BY <2>1 DEF Elems, L
    <3> QED
      BY <1>1, <1>4, <2>1, <2>3, <3>1
  <2> QED
    BY <1>1, <2>2, <2>3
<1> QED
  BY <1>1, <1>3, <1>4 DEF e

\* A message that is taken off the front.
LEMMA QueueTail ==
    ASSUME NEW S, NEW s \in Seq(S), s # <<>>
    PROVE  /\ Head(s) \in S /\ Head(s) \in Elems(s)
           /\ Tail(s) \in Seq(S) /\ Elems(Tail(s)) \subseteq Elems(s)
           /\ Increasing(s) =>
                 Increasing(Tail(s)) /\ \A m \in Elems(Tail(s)) : Head(s).n < m.n
<1> DEFINE L == Len(s)
           e == Tail(s)
<1>1. /\ L \in Nat \ {0} /\ Head(s) \in S /\ e \in Seq(S) /\ Len(e) = L - 1
      /\ \A j \in 1 .. L - 1 : e[j] = s[j + 1]
      /\ Head(s) = s[1]
  BY HeadTailProperties, LenProperties, EmptySeq
<1> HIDE DEF L, e
<1>2. 1 \in 1 .. L /\ \A j \in 1 .. L - 1 : j + 1 \in 1 .. L /\ 1 < j + 1
  BY <1>1
<1>3. Elems(e) \subseteq Elems(s) /\ s[1] \in Elems(s)
  BY <1>1, <1>2 DEF Elems, L
<1>4. ASSUME Increasing(s) PROVE Increasing(e) /\ \A m \in Elems(e) : s[1].n < m.n
  <2>1. Increasing(e)
    <3> SUFFICES ASSUME NEW j \in 1 .. L - 1, NEW k \in 1 .. L - 1, j < k
                 PROVE  e[j].n < e[k].n
      BY <1>1 DEF Increasing
    <3>1. j + 1 < k + 1
      BY <1>1
    <3>2. s[j + 1].n < s[k + 1].n
      BY <1>2, <1>4, <3>1 DEF Increasing, L
    <3> QED
      BY <1>1, <3>2
  <2>2. \A j \in 1 .. L - 1 : s[1].n < e[j].n
    BY <1>1, <1>2, <1>4 DEF Increasing, L
  <2> QED
    BY <1>1, <2>1, <2>2 DEF Elems
<1> QED
  BY <1>1, <1>3, <1>4 DEF e

\* What is left of a queue from a message on that is not its first one.
LEMMA QueueSuffix ==
    ASSUME NEW S, NEW s \in Seq(S), s # <<>>, NEW j \in 2 .. Len(s) + 1
    PROVE  /\ SubSeq(s, j, Len(s)) \in Seq(S)
           /\ Elems(SubSeq(s, j, Len(s))) \subseteq Elems(s)
           /\ Increasing(s) =>
                 /\ Increasing(SubSeq(s, j, Len(s)))
                 /\ \A m \in Elems(SubSeq(s, j, Len(s))) : Head(s).n < m.n
<1> DEFINE L == Len(s)
           e == SubSeq(s, j, L)
           D == (L - j) + 1
<1>1. L \in Nat \ {0} /\ j \in 2 .. L + 1 /\ Head(s) = s[1]
  BY HeadTailProperties, LenProperties, EmptySeq
<1>2. /\ e \in Seq(S) /\ Len(e) = D /\ D \in Nat
      /\ \A k \in 1 .. D : e[k] = s[j + k - 1]
  <2>1. \A k \in j .. L : s[k] \in S
    BY <1>1, ElementOfSeq
  <2> HIDE DEF L
  <2>2. j \in Int /\ L \in Int
    BY <1>1
  <2> QED
    BY <1>1, <2>1, <2>2, SubSeqProperties
<1> HIDE DEF L, e
<1>3. \A k \in 1 .. D : j + k - 1 \in 1 .. L /\ 1 < j + k - 1
  BY <1>1
<1> HIDE DEF D
<1>4. Elems(e) \subseteq Elems(s)
  BY <1>2, <1>3 DEF Elems, L
<1>5. ASSUME Increasing(s) PROVE Increasing(e) /\ \A m \in Elems(e) : s[1].n < m.n
  <2>1. Increasing(e)
    <3> SUFFICES ASSUME NEW k \in 1 .. D, NEW l \in 1 .. D, k < l
                 PROVE  e[k].n < e[l].n
      BY <1>2 DEF Increasing
    <3>1. j + k - 1 < j + l - 1
      BY <1>1, <1>2
    <3>2. s[j + k - 1].n < s[j + l - 1].n
      BY <1>3, <1>5, <3>1 DEF Increasing, L
    <3> QED
      BY <1>2, <3>2
  <2>2. \A k \in 1 .. D : s[1].n < e[k].n
    <3> SUFFICES ASSUME NEW k \in 1 .. D PROVE s[1].n < e[k].n
      OBVIOUS
    <3>1. 1 \in 1 .. L
      BY <1>1
    <3>2. s[1].n < s[j + k - 1].n
      BY <1>3, <1>5, <3>1 DEF Increasing, L
    <3> QED
      BY <1>2, <3>2
  <2> QED
    BY <1>2, <2>1, <2>2 DEF Elems
<1> QED
  BY <1>1, <1>2, <1>4, <1>5 DEF e, L

\* Two queues, one after the other.
LEMMA QueueConcat ==
    ASSUME NEW S, NEW s \in Seq(S), NEW t \in Seq(S)
    PROVE  /\ s \o t \in Seq(S)
           /\ Elems(s \o t) = Elems(s) \cup Elems(t)
           /\ /\ Increasing(s) /\ Increasing(t)
              /\ \A m \in Elems(s), r \in Elems(t) : m.n < r.n
              => Increasing(s \o t)
<1> DEFINE K == Len(s)
           L == Len(t)
           e == s \o t
<1>1. /\ K \in Nat /\ L \in Nat /\ e \in Seq(S) /\ Len(e) = K + L
      /\ \A j \in 1 .. K + L : e[j] = IF j <= K THEN s[j] ELSE t[j - K]
  BY ConcatProperties, LenProperties
<1> HIDE DEF K, L, e
<1>2. /\ \A j \in 1 .. K + L : j \in 1 .. K \/ (~(j <= K) /\ j - K \in 1 .. L)
      /\ \A j \in 1 .. K : j \in 1 .. K + L /\ j <= K
      /\ \A j \in 1 .. L : K + j \in 1 .. K + L /\ ~(K + j <= K) /\ (K + j) - K = j
  BY <1>1
<1>3. Elems(e) = Elems(s) \cup Elems(t)
  <2>1. \A j \in 1 .. K + L : e[j] \in Elems(s) \cup Elems(t)
    BY <1>1, <1>2 DEF Elems, K, L
  <2>2. \A j \in 1 .. K : s[j] = e[j] /\ s[j] \in Elems(e)
    BY <1>1, <1>2 DEF Elems
  <2>3. \A j \in 1 .. L : t[j] = e[K + j] /\ t[j] \in Elems(e)
    BY <1>1, <1>2 DEF Elems
  <2> QED
    BY <1>1, <2>1, <2>2, <2>3 DEF Elems, K, L
<1>4. ASSUME Increasing(s), Increasing(t), \A m \in Elems(s), r \in Elems(t) : m.n < r.n
      PROVE  Increasing(e)
  <2> SUFFICES ASSUME NEW j \in 1 .. K + L, NEW k \in 1 .. K + L, j < k
               PROVE  e[j].n < e[k].n
    BY <1>1 DEF Increasing
  <2>1. CASE k <= K
    <3>1. j \in 1 .. K /\ k \in 1 .. K
      BY <1>1, <2>1
    <3> QED
      BY <1>1, <1>2, <1>4, <3>1 DEF Increasing, K
  <2>2. CASE ~(k <= K) /\ j <= K
    <3>1. j \in 1 .. K /\ k - K \in 1 .. L
      BY <1>1, <2>2
    <3>2. s[j] \in Elems(s) /\ t[k - K] \in Elems(t)
      BY <3>1 DEF Elems, K, L
    <3> QED
      BY <1>1, <1>4, <2>2, <3>2
  <2>3. CASE ~(j <= K)
    <3>1. j - K \in 1 .. L /\ k - K \in 1 .. L /\ j - K < k - K /\ ~(k <= K)
      BY <1>1, <2>3
    <3>2. t[j - K].n < t[k - K].n
      BY <1>4, <3>1 DEF Increasing, L
    <3> QED
      BY <1>1, <2>3, <3>1, <3>2
  <2> QED
    BY <2>1, <2>2, <2>3
<1> QED
  BY <1>1, <1>3, <1>4 DEF e

(***************************************************************************)
(* Types.                                                                  *)
(***************************************************************************)

\* What the actions put into the queues, calls and results.
LEMMA MessageTypes ==
    /\ NoCall \in Calls /\ NoRet \in Results
    /\ \A why \in Statuses : Failed(why) \in Results
    /\ \A op \in Operations : op.ep \in {"query", "update"} /\ op.key \in Keys
                                /\ op.value \in Values \cup {NoValue} /\ op.large \in BOOLEAN
    /\ Junk.n = 0 /\ Junk.op.ep = "junk" /\ Junk \notin Requests
    /\ \A q \in Requests : q.n \in 1 .. MaxCalls /\ q.op \in Operations /\ q.op.ep # "junk"
    /\ \A r \in Replies : r.n \in 1 .. MaxCalls
<1>1. 0 \in 0 .. MaxConns /\ 0 \in 0 .. MaxCalls
  BY BoundAssumption
<1>2. NoCall \in Calls /\ NoRet \in Results /\ \A why \in Statuses : Failed(why) \in Results
  BY <1>1 DEF NoCall, Calls, NoRet, Failed, Results, Statuses
<1>3. \A op \in Operations : op.ep \in {"query", "update"} /\ op.key \in Keys
                                /\ op.value \in Values \cup {NoValue} /\ op.large \in BOOLEAN
  BY DEF Operations
<1>4. Junk.n = 0 /\ Junk.op.ep = "junk"
  BY DEF Junk
<1>5. \A q \in Requests : q.n \in 1 .. MaxCalls /\ q.op \in Operations /\ q.op.ep # "junk"
  BY <1>3 DEF Requests
<1>6. Junk \notin Requests
  BY <1>4, <1>5
<1>7. \A r \in Replies : r.n \in 1 .. MaxCalls
  BY DEF Replies
<1> QED
  BY <1>2, <1>3, <1>4, <1>5, <1>6, <1>7

\* What reading the request at the head leaves: requests that came after it, maybe
\* without the beginning of the first one.
LEMMA RestOfQueue ==
    ASSUME NEW s \in Seq(Requests \cup {Junk}), s # <<>>, Head(s) \in Requests,
           NEW rest \in Remainders(s)
    PROVE  /\ rest \in Seq(Requests \cup {Junk}) /\ Elems(rest) \subseteq Elems(s) \cup {Junk}
           /\ Increasing(s) =>
                 Increasing(rest) /\ \A q \in Elems(rest) \ {Junk} : Head(s).n < q.n
<1> DEFINE S == Requests \cup {Junk}
<1>1. CASE \E j \in 2 .. Len(s) + 1 : rest = SubSeq(s, j, Len(s))
  <2>1. PICK j \in 2 .. Len(s) + 1 : rest = SubSeq(s, j, Len(s))
    BY <1>1
  <2> QED
    BY <2>1, QueueSuffix
<1>2. CASE \E j \in 2 .. Len(s) + 1 : rest = <<Junk>> \o SubSeq(s, j, Len(s))
  <2>1. PICK j \in 2 .. Len(s) + 1 : rest = <<Junk>> \o SubSeq(s, j, Len(s))
    BY <1>2
  <2> DEFINE e == SubSeq(s, j, Len(s))
  <2>2. /\ e \in Seq(S) /\ Elems(e) \subseteq Elems(s)
        /\ Increasing(s) => Increasing(e) /\ \A m \in Elems(e) : Head(s).n < m.n
    BY QueueSuffix
  <2> HIDE DEF e
  <2>3. <<Junk>> \in Seq(S) /\ Elems(<<Junk>>) = {Junk} /\ Increasing(<<Junk>>)
    BY SingleQueue
  <2>4. ASSUME Increasing(s), NEW m \in Elems(e) PROVE Junk.n < m.n
    <3>1. Head(s).n \in 1 .. MaxCalls /\ Junk.n = 0
      BY MessageTypes
    <3>2. m.n \in Nat
      <4>1. m \in S
        BY <2>2, <2>4, ElemsAre
      <4> QED
        BY <4>1, MessageTypes, BoundAssumption
    <3>3. Head(s).n < m.n
      BY <2>2, <2>4
    <3> QED
      BY <3>1, <3>2, <3>3, BoundAssumption
  <2>5. rest = <<Junk>> \o e
    BY <2>1 DEF e
  <2> DEFINE j1 == <<Junk>>
  <2> HIDE DEF S, j1
  <2>6. /\ j1 \o e \in Seq(S) /\ Elems(j1 \o e) = Elems(j1) \cup Elems(e)
        /\ /\ Increasing(j1) /\ Increasing(e) /\ \A m \in Elems(j1), r \in Elems(e) : m.n < r.n
           => Increasing(j1 \o e)
    <3>1. j1 \in Seq(S) /\ e \in Seq(S)
      BY <2>2, <2>3 DEF j1
    <3> QED
      BY <3>1, QueueConcat
  <2>7. rest \in Seq(S) /\ Elems(rest) = {Junk} \cup Elems(e)
    BY <2>3, <2>5, <2>6 DEF j1
  <2>8. ASSUME Increasing(s) PROVE Increasing(rest)
    BY <2>2, <2>3, <2>4, <2>5, <2>6, <2>8 DEF j1
  <2> QED
    BY <2>2, <2>7, <2>8 DEF S
<1>3. \/ \E j \in 2 .. Len(s) + 1 : rest = SubSeq(s, j, Len(s))
      \/ \E j \in 2 .. Len(s) + 1 : rest = <<Junk>> \o SubSeq(s, j, Len(s))
  <2>1. CASE \E j \in 2 .. Len(s) + 1 : rest = SubSeq(s, j, Len(s))
    BY <2>1
  <2>2. CASE \E j \in (2 .. Len(s) + 1) \ {Len(s) + 1} :
               rest = <<Junk>> \o SubSeq(s, j + 1, Len(s))
    <3>1. PICK j \in (2 .. Len(s) + 1) \ {Len(s) + 1} :
                 rest = <<Junk>> \o SubSeq(s, j + 1, Len(s))
      BY <2>2
    <3>2. Len(s) \in Nat
      BY LenProperties
    <3>3. j + 1 \in 2 .. Len(s) + 1
      BY <3>1, <3>2
    <3> QED
      BY <3>1, <3>3
  <2> QED
    BY <2>1, <2>2 DEF Remainders
<1> QED
  BY <1>1, <1>2, <1>3

\* The request at the head of a queue that is read, and the reply to it.
LEMMA HeadRequest ==
    ASSUME TypeOK, NEW i \in Conns, req[i] # <<>>, Head(req[i]).op.ep # "junk"
    PROVE  /\ Head(req[i]) \in Requests /\ Head(req[i]) \in Elems(req[i]) \ {Junk}
           /\ \A rest \in Remainders(req[i]) :
                 /\ rest \in Seq(Requests \cup {Junk})
                 /\ Elems(rest) \ {Junk} \subseteq Elems(req[i]) \ {Junk}
                 /\ Increasing(req[i]) => /\ Increasing(rest)
                                          /\ \A q \in Elems(rest) \ {Junk} : Head(req[i]).n < q.n
           /\ \A v \in Values \cup {NoValue} :
                 [n |-> Head(req[i]).n, ep |-> Head(req[i]).op.ep, value |-> v] \in Replies
<1>1. req[i] \in Seq(Requests \cup {Junk})
  BY DEF TypeOK
<1>2. Head(req[i]) \in Requests \cup {Junk} /\ Head(req[i]) \in Elems(req[i])
  BY <1>1, QueueTail
<1>3. Head(req[i]) \in Requests /\ Head(req[i]) \in Elems(req[i]) \ {Junk}
  BY <1>2, MessageTypes
<1>4. \A rest \in Remainders(req[i]) :
         /\ rest \in Seq(Requests \cup {Junk})
         /\ Elems(rest) \subseteq Elems(req[i]) \cup {Junk}
         /\ Increasing(req[i]) => /\ Increasing(rest)
                                  /\ \A q \in Elems(rest) \ {Junk} : Head(req[i]).n < q.n
  BY <1>1, <1>3, RestOfQueue
<1>5. Head(req[i]).n \in 1 .. MaxCalls /\ Head(req[i]).op.ep \in {"query", "update"}
  BY <1>3, MessageTypes
<1> QED
  BY <1>3, <1>4, <1>5 DEF Replies

\* A thread that is about to send leaves room for its request.
LEMMA RoomToSend ==
    ASSUME TypeOK, CountInv, NEW t \in Threads, pc[t] = "lock", call[t].conn \in Conns
    PROVE  sent[call[t].conn] + 1 \in 1 .. MaxCalls
<1> DEFINE i == call[t].conn
<1>1. t \in Queued(i) /\ IsFiniteSet(Queued(i))
  BY ThreadsAssumption, FS_Subset DEF Queued
<1>2. Cardinality(Queued(i)) \in Nat /\ Cardinality(Queued(i)) # 0
  BY <1>1, FS_CardinalityType, FS_EmptySet
<1>3. sent[i] \in 0 .. MaxCalls /\ sent[i] + Cardinality(Queued(i)) <= MaxCalls
  BY DEF TypeOK, CountInv
<1> QED
  BY <1>2, <1>3, BoundAssumption

\* Variables keep their types.
LEMMA TypeKept == TypeOK /\ ConnInv /\ CountInv /\ [Next]_vars => TypeOK'
<1> SUFFICES ASSUME TypeOK, ConnInv, CountInv, [Next]_vars PROVE TypeOK'
  OBVIOUS
<1> USE DEF connVars, threadVars
<1>1. CASE \E c \in Clients : Open(c)
  BY <1>1 DEF TypeOK, Open, Conns
<1>2. CASE \E c \in Clients : Close(c)
  <2>1. 0 \in 0 .. MaxConns
    BY BoundAssumption
  <2> QED
    BY <1>2, <2>1 DEF TypeOK, Close
<1>3. CASE \E c \in Clients : Exit(c)
  <2>1. 0 \in 0 .. MaxConns
    BY BoundAssumption
  <2> QED
    BY <1>3, <2>1, MessageTypes DEF TypeOK, Exit
<1>4. ASSUME NEW t \in Threads, Call(t) PROVE TypeOK'
  <2>1. PICK op \in Operations :
          /\ call' = [call EXCEPT ![t] = [conn |-> conn[Home[t]], n |-> 0, ep |-> op.ep,
                         key |-> op.key, value |-> op.value, large |-> op.large]]
          /\ window' = [window EXCEPT ![t] = IF op.ep = "query" THEN {store[op.key]} ELSE {}]
    BY <1>4 DEF Call
  <2>2. conn[Home[t]] \in 0 .. MaxConns /\ 0 \in 0 .. MaxCalls
    BY BoundAssumption, HomeAssumption DEF TypeOK
  <2>3. [conn |-> conn[Home[t]], n |-> 0, ep |-> op.ep, key |-> op.key, value |-> op.value,
         large |-> op.large] \in Calls
    BY <2>2, MessageTypes DEF Calls
  <2>4. call' \in [Threads -> Calls]
    BY <2>1, <2>3 DEF TypeOK
  <2>5. window' \in [Threads -> SUBSET (Values \cup {NoValue})]
    BY <2>1, MessageTypes DEF TypeOK
  <2> QED
    BY <1>4, <2>4, <2>5, MessageTypes DEF TypeOK, Call
<1>5. ASSUME NEW t \in Threads, SendRequest(t) PROVE TypeOK'
  <2> DEFINE i == call[t].conn
             n == sent[i] + 1
  <2>1. i \in Conns /\ n \in 1 .. MaxCalls /\ n \in 0 .. MaxCalls /\ Operation(t) \in Operations
    <3>1. i \in Conns /\ Operation(t) \in Operations /\ pc[t] = "lock"
      BY <1>5 DEF SendRequest, ConnInv, InCall
    <3>2. n \in 1 .. MaxCalls
      BY <3>1, RoomToSend
    <3> QED
      BY <3>1, <3>2
  <2> HIDE DEF i, n
  <2>2. sent' = [sent EXCEPT ![i] = n] /\ call' = [call EXCEPT ![t].n = n]
        /\ UNCHANGED <<up, store, srv, rep, inbox, conn, interrupts, window>>
    BY <1>5 DEF SendRequest, Finish, i, n
  <2>3. sent' \in [Conns -> 0 .. MaxCalls] /\ call' \in [Threads -> Calls]
    <3>1. [call[t] EXCEPT !.n = n] \in Calls
      <4>1. call[t] \in Calls
        BY DEF TypeOK
      <4> QED
        BY <2>1, <4>1 DEF Calls
    <3>2. call' = [call EXCEPT ![t] = [call[t] EXCEPT !.n = n]]
      BY <2>2
    <3> QED
      BY <2>1, <2>2, <3>1, <3>2 DEF TypeOK
  <2>4. req' \in [Conns -> Seq(Requests \cup {Junk})]
    <3>1. Request(n, Operation(t)) \in Requests \cup {Junk}
      BY <2>1 DEF Requests, Request
    <3>2. Append(req[i], Request(n, Operation(t))) \in Seq(Requests \cup {Junk})
      BY <2>1, <3>1, AppendProperties DEF TypeOK
    <3>3. req' = req \/ req' = [req EXCEPT ![i] = Append(req[i], Request(n, Operation(t)))]
      BY <1>5 DEF SendRequest, Operation, i, n
    <3> QED
      BY <3>2, <3>3 DEF TypeOK
  <2>5. pc' \in [Threads -> {"idle", "lock", "wait"}] /\ ret' \in [Threads -> Results]
    BY <1>5, MessageTypes, ZenonT(60) DEF TypeOK, SendRequest, Finish, Statuses
  <2> QED
    BY <2>2, <2>3, <2>4, <2>5 DEF TypeOK
<1>6. ASSUME NEW t \in Threads, ReceiveReply(t) PROVE TypeOK'
  <2> DEFINE i == call[t].conn
             r == Head(inbox[i])
  <2>1. i \in Conns /\ inbox[i] \in Seq(Replies) /\ inbox[i] # <<>>
    BY <1>6 DEF ReceiveReply, TypeOK, ConnInv, InCall
  <2>2. r \in Replies /\ Tail(inbox[i]) \in Seq(Replies)
    BY <2>1, HeadTailProperties
  <2> HIDE DEF i, r
  <2>3. inbox' \in [Conns -> Seq(Replies)]
    BY <1>6, <2>2 DEF ReceiveReply, Unread, TypeOK, i
  <2>4. [status |-> "ok", n |-> r.n, value |-> r.value] \in Results
    BY <2>2 DEF Replies, Results, Statuses
  <2>5. pc' \in [Threads -> {"idle", "lock", "wait"}] /\ ret' \in [Threads -> Results]
    <3>1. PICK x \in Results : Finish(t, x)
      <4>1. Failed("mismatch") \in Results
        BY MessageTypes DEF Statuses
      <4> QED
        BY <1>6, <2>4, <4>1 DEF ReceiveReply, i, r
    <3> QED
      BY <3>1 DEF Finish, TypeOK
  <2> QED
    BY <1>6, <2>3, <2>5 DEF TypeOK, ReceiveReply, Finish
<1>7. ASSUME NEW t \in Threads, ReceiveEof(t) \/ Interrupt(t) PROVE TypeOK'
  <2> DEFINE i == call[t].conn
  <2>1. pc' \in [Threads -> {"idle", "lock", "wait"}] /\ ret' \in [Threads -> Results]
    <3>1. PICK x \in Results : Finish(t, x)
      <4>1. Failed("lost") \in Results /\ Failed("interrupted") \in Results
        BY MessageTypes DEF Statuses
      <4> QED
        BY <1>7, <4>1 DEF ReceiveEof, Interrupt
    <3> QED
      BY <3>1 DEF Finish, TypeOK
  <2>2. interrupts' \in [Conns -> 0 .. MaxCalls]
    <3>1. CASE ReceiveEof(t)
      BY <3>1 DEF ReceiveEof, TypeOK
    <3>2. CASE Interrupt(t)
      <4>1. i \in Conns /\ Locked(i)
        BY <3>2 DEF Interrupt, ConnInv, InCall, Locked
      <4>2. interrupts[i] + 1 <= sent[i] /\ sent[i] \in 0 .. MaxCalls /\ interrupts[i] \in Nat
        BY <4>1 DEF CountInv, TypeOK
      <4>3. interrupts[i] + 1 \in 0 .. MaxCalls
        BY <4>2, BoundAssumption
      <4> QED
        BY <3>2, <4>3 DEF Interrupt, TypeOK
    <3> QED
      BY <1>7, <3>1, <3>2
  <2> QED
    BY <1>7, <2>1, <2>2 DEF TypeOK, ReceiveEof, Interrupt, Finish
<1>8. ASSUME NEW i \in Conns, Accept(i) \/ RejectRequest(i) \/ RejectTail(i) \/ PeerGone(i) PROVE TypeOK'
  <2>1. <<>> \in Seq(Requests \cup {Junk}) /\ <<>> \in Seq(Replies)
    BY EmptySeq
  <2>2. /\ srv' \in [Conns -> {"unused", "backlog", "open", "closed"}]
        /\ req' \in [Conns -> Seq(Requests \cup {Junk})] /\ rep' \in [Conns -> Seq(Replies)]
    BY <1>8, <2>1, ZenonT(60) DEF TypeOK, Accept, RejectRequest, RejectTail, PeerGone, Drop
  <2> QED
    BY <1>8, <2>2 DEF TypeOK, Accept, RejectRequest, RejectTail, PeerGone
<1>9. ASSUME NEW i \in Conns, HandleQuery(i) \/ HandleUpdate(i) PROVE TypeOK'
  <2> DEFINE m == Head(req[i])
  <2>1. req[i] # <<>> /\ m.op.ep # "junk"
    BY <1>9 DEF HandleQuery, HandleUpdate, Readable
  <2>2. /\ m \in Requests
        /\ \A rest \in Remainders(req[i]) : rest \in Seq(Requests \cup {Junk})
        /\ \A v \in Values \cup {NoValue} :
              [n |-> m.n, ep |-> m.op.ep, value |-> v] \in Replies
    BY <2>1, HeadRequest
  <2>3. m.op.key \in Keys /\ m.op.value \in Values \cup {NoValue}
    BY <2>2, MessageTypes
  <2> HIDE DEF m
  <2>4. PICK v \in Values \cup {NoValue} : Reply(i, m, v)
    <3>1. store[m.op.key] \in Values \cup {NoValue}
      BY <2>3 DEF TypeOK
    <3> QED
      BY <1>9, <3>1 DEF HandleQuery, HandleUpdate, m
  <2>5. req' \in [Conns -> Seq(Requests \cup {Junk})]
    <3>1. PICK rest \in Remainders(req[i]) : req' = [req EXCEPT ![i] = rest]
      BY <2>4 DEF Reply
    <3> QED
      BY <2>2, <3>1 DEF TypeOK
  <2>6. rep' \in [Conns -> Seq(Replies)] /\ srv' = srv
    BY <2>2, <2>4, AppendProperties DEF Reply, TypeOK
  <2>7. store' \in [Keys -> Values \cup {NoValue}]
    BY <1>9, <2>3 DEF HandleQuery, HandleUpdate, Updated, TypeOK, m
  <2>8. window' \in [Threads -> SUBSET (Values \cup {NoValue})]
    <3>1. CASE HandleQuery(i)
      BY <3>1 DEF HandleQuery, TypeOK
    <3>2. CASE HandleUpdate(i)
      <4>1. \A t \in Threads : InCall(t) => call[t].key \in Keys
        BY MessageTypes DEF ConnInv, Operation
      <4>2. \A t \in Threads : InCall(t) => store'[call[t].key] \in Values \cup {NoValue}
        BY <2>7, <4>1
      <4>3. window' = [t \in Threads |->
                          IF InCall(t) THEN window[t] \cup {store'[call[t].key]} ELSE window[t]]
        BY <3>2 DEF HandleUpdate, Observe
      <4>4. \A t \in Threads : window[t] \in SUBSET (Values \cup {NoValue})
        BY DEF TypeOK
      <4> QED
        BY <4>2, <4>3, <4>4
    <3> QED
      BY <1>9, <3>1, <3>2
  <2> QED
    BY <1>9, <2>5, <2>6, <2>7, <2>8 DEF TypeOK, HandleQuery, HandleUpdate
<1>12. ASSUME NEW i \in Conns, Flush(i) PROVE TypeOK'
  <2>1. <<>> \in Seq(Replies) /\ inbox[i] \o rep[i] \in Seq(Replies)
    BY EmptySeq, ConcatProperties DEF TypeOK
  <2>2. inbox' \in [Conns -> Seq(Replies)] /\ rep' \in [Conns -> Seq(Replies)]
    BY <1>12, <2>1 DEF TypeOK, Flush
  <2> QED
    BY <1>12, <2>2 DEF TypeOK, Flush
<1>10. CASE Stop \/ Start
  <2>1. <<>> \in Seq(Requests \cup {Junk}) /\ <<>> \in Seq(Replies)
    BY EmptySeq
  <2> QED
    BY <1>10, <2>1 DEF TypeOK, Stop, Start
<1>11. CASE UNCHANGED vars
  BY <1>11 DEF vars, TypeOK
<1> QED
  BY <1>1, <1>2, <1>3, <1>4, <1>5, <1>6, <1>7, <1>8, <1>9, <1>10, <1>11, <1>12
     DEF Next, Library, EventLoop, Serve

(***************************************************************************)
(* Connections, the lock and the counters.                                 *)
(***************************************************************************)

\* The threads that are in a call stay in the same one.
SameCalls ==
    \A t \in Threads : InCall(t)' =>
        /\ InCall(t) /\ call'[t].conn = call[t].conn /\ Operation(t)' = Operation(t)
        /\ ret'[t].status = ret[t].status

\* That, and connections that stay as they are, keep ConnInv.
LEMMA ConnInvSame ==
    ASSUME ConnInv, SameCalls, conn' = conn,
           \A i \in Conns : (srv'[i] = "unused" <=> srv[i] = "unused")
                               /\ (srv[i] = "unused" =>
                                      req'[i] = <<>> /\ rep'[i] = <<>> /\ inbox'[i] = <<>>),
           \A c \in Clients : conn[c] \in 0 .. MaxConns
    PROVE  ConnInv'
<1>1. \A c \in Clients : conn[c] # 0 => conn[c] \in Conns
  BY BoundAssumption DEF Conns
<1> QED
  BY <1>1 DEF ConnInv, SameCalls

\* A thread that goes on, or returns.
LEMMA SameCallsThread ==
    ASSUME TypeOK, NEW t \in Threads,
           SendRequest(t) \/ ReceiveReply(t) \/ ReceiveEof(t) \/ Interrupt(t)
    PROVE  SameCalls
<1>1. ASSUME NEW u \in Threads PROVE call'[u].conn = call[u].conn /\ Operation(u)' = Operation(u)
  <2>1. call[u] \in Calls /\ call[t] \in Calls
    BY DEF TypeOK
  <2> QED
    <3>1. call' = call \/ \E n : call' = [call EXCEPT ![t].n = n]
      BY DEF SendRequest, ReceiveReply, ReceiveEof, Interrupt
    <3>2. call'[u] = call[u] \/ \E n : call'[u] = [call[u] EXCEPT !.n = n]
      <4>1. call \in [Threads -> Calls]
        BY DEF TypeOK
      <4>2. ASSUME NEW n, call' = [call EXCEPT ![t].n = n]
            PROVE  call'[u] = call[u] \/ call'[u] = [call[u] EXCEPT !.n = n]
        <5>1. CASE u = t
          BY <4>1, <4>2, <5>1
        <5>2. CASE u # t
          BY <4>1, <4>2, <5>2
        <5> QED
          BY <5>1, <5>2
      <4> QED
        BY <3>1, <4>2
    <3> QED
      BY <2>1, <3>2 DEF Calls, Operation
<1>2. ASSUME NEW u \in Threads, InCall(u)' PROVE InCall(u) /\ ret'[u].status = ret[u].status
  BY <1>2 DEF SendRequest, ReceiveReply, ReceiveEof, Interrupt, Finish, InCall, TypeOK
<1> QED
  BY <1>1, <1>2 DEF SameCalls

\* Connections keep their owners.
LEMMA ConnKept == TypeOK /\ ConnInv /\ [Next]_vars => ConnInv'
<1> SUFFICES ASSUME TypeOK, ConnInv, [Next]_vars PROVE ConnInv'
  OBVIOUS
<1> USE DEF connVars, threadVars
<1>0. /\ \A c \in Clients : conn[c] \in 0 .. MaxConns /\ (conn[c] # 0 => conn[c] \in Conns)
      /\ 0 \notin Conns
  BY BoundAssumption DEF TypeOK, Conns
<1>1. ASSUME NEW c \in Clients, Open(c) PROVE ConnInv'
  <2>1. PICK i \in Conns : /\ srv[i] = "unused"
                           /\ conn' = [conn EXCEPT ![c] = i]
                           /\ srv' = [srv EXCEPT ![i] = "backlog"]
    BY <1>1 DEF Open
  <2>2. UNCHANGED <<req, rep, inbox, pc, call, ret>>
    BY <1>1 DEF Open
  <2>3. /\ conn'[c] = i /\ \A d \in Clients \ {c} : conn'[d] = conn[d]
        /\ srv'[i] = "backlog" /\ \A j \in Conns \ {i} : srv'[j] = srv[j]
    BY <2>1 DEF TypeOK
  <2>4. \A d \in Clients : conn[d] # i
    BY <1>0, <2>1 DEF ConnInv
  <2>5. \A t \in Threads : InCall(t) => call[t].conn # i
    BY <2>1 DEF ConnInv
  <2> QED
    BY <1>0, <2>2, <2>3, <2>4, <2>5 DEF ConnInv, InCall, Operation
<1>2. ASSUME NEW c \in Clients, Close(c) PROVE ConnInv'
  <2>1. conn'[c] = 0 /\ \A d \in Clients \ {c} : conn'[d] = conn[d]
    BY <1>2 DEF Close, TypeOK
  <2> QED
    BY <1>0, <1>2, <2>1 DEF Close, ConnInv, InCall, Operation
<1>3. ASSUME NEW c \in Clients, Exit(c) PROVE ConnInv'
  <2>1. conn'[c] = 0 /\ \A d \in Clients \ {c} : conn'[d] = conn[d]
    BY <1>3 DEF Exit, TypeOK
  <2>2. ASSUME NEW t \in Threads, InCall(t)'
        PROVE  /\ InCall(t) /\ call'[t] = call[t] /\ ret'[t] = ret[t]
               /\ Operation(t)' = Operation(t)
    BY <1>3, <2>2 DEF Exit, InCall, Operation
  <2>3. UNCHANGED <<srv, req, rep, inbox>>
    BY <1>3 DEF Exit
  <2> QED
    BY <1>0, <2>1, <2>2, <2>3 DEF ConnInv
<1>4. ASSUME NEW t \in Threads, Call(t) PROVE ConnInv'
  <2>1. PICK op \in Operations :
          call' = [call EXCEPT ![t] = [conn |-> conn[Home[t]], n |-> 0, ep |-> op.ep,
                      key |-> op.key, value |-> op.value, large |-> op.large]]
    BY <1>4 DEF Call
  <2>2. /\ ~InCall(t) /\ conn[Home[t]] \in Conns /\ Home[t] \in Clients
        /\ UNCHANGED <<srv, req, rep, inbox, conn>>
    BY <1>0, <1>4, HomeAssumption DEF Call, InCall
  <2>3. /\ call'[t].conn = conn[Home[t]] /\ Operation(t)' \in Operations /\ ret'[t].status = "none"
    <3>1. op = [ep |-> op.ep, key |-> op.key, value |-> op.value, large |-> op.large]
      BY DEF Operations
    <3>2. Operation(t)' = op /\ call'[t].conn = conn[Home[t]]
      BY <2>1, <3>1 DEF Operation, TypeOK
    <3>3. ret'[t].status = "none"
      BY <1>4 DEF Call, TypeOK, NoRet
    <3> QED
      BY <3>2, <3>3
  <2>4. ASSUME NEW u \in Threads \ {t}
        PROVE  /\ InCall(u)' <=> InCall(u)
               /\ call'[u] = call[u] /\ ret'[u] = ret[u] /\ Operation(u)' = Operation(u)
    BY <1>4, <2>1 DEF Call, TypeOK, InCall, Operation
  <2>5. ASSUME NEW u \in Threads, InCall(u)'
        PROVE  /\ call'[u].conn \in Conns /\ Operation(u)' \in Operations
               /\ srv[call'[u].conn] # "unused" /\ ret'[u].status = "none"
               /\ \A c \in Clients : conn[c] = call'[u].conn => c = Home[u]
    BY <1>0, <2>2, <2>3, <2>4, <2>5 DEF ConnInv
  <2>6. ASSUME NEW u \in Threads, NEW w \in Threads, InCall(u)', InCall(w)',
               call'[u].conn = call'[w].conn
        PROVE  Home[u] = Home[w]
    BY <2>2, <2>3, <2>4, <2>6 DEF ConnInv
  <2> QED
    BY <2>2, <2>5, <2>6 DEF ConnInv
<1>5. ASSUME NEW t \in Threads, SendRequest(t) \/ ReceiveReply(t) \/ ReceiveEof(t) \/ Interrupt(t)
      PROVE  ConnInv'
  <2>1. SameCalls /\ UNCHANGED <<srv, rep, conn>>
    BY <1>5, SameCallsThread DEF SendRequest, ReceiveReply, ReceiveEof, Interrupt
  <2>2. pc[t] # "idle" /\ call[t].conn \in Conns /\ srv[call[t].conn] # "unused"
    BY <1>5 DEF SendRequest, ReceiveReply, ReceiveEof, Interrupt, ConnInv, InCall
  <2>3. \A i \in Conns \ {call[t].conn} : req'[i] = req[i] /\ inbox'[i] = inbox[i]
    BY <1>5 DEF SendRequest, ReceiveReply, ReceiveEof, Interrupt, TypeOK
  <2>4. \A i \in Conns : srv[i] = "unused" =>
                            req'[i] = <<>> /\ rep'[i] = <<>> /\ inbox'[i] = <<>>
    BY <2>1, <2>2, <2>3 DEF ConnInv
  <2> QED
    BY <1>0, <2>1, <2>4, ConnInvSame
<1>6. ASSUME NEW i \in Conns, EventLoop(i) PROVE ConnInv'
  <2>1. SameCalls /\ conn' = conn
    BY <1>6 DEF EventLoop, Serve, Accept, HandleQuery, HandleUpdate, RejectRequest, RejectTail, Flush, PeerGone,
       SameCalls, InCall, Operation
  <2>2. srv[i] \in {"backlog", "open"}
    BY <1>6 DEF EventLoop, Serve, Accept, HandleQuery, HandleUpdate, RejectRequest, RejectTail, Flush, PeerGone, Readable
  <2>3. \A j \in Conns \ {i} : req'[j] = req[j] /\ rep'[j] = rep[j] /\ inbox'[j] = inbox[j]
                                 /\ srv'[j] = srv[j]
    BY <1>6 DEF EventLoop, Serve, Accept, HandleQuery, HandleUpdate, RejectRequest, RejectTail, Flush, PeerGone, Reply,
       Drop, TypeOK
  <2>4. srv'[i] # "unused"
    BY <1>6, <2>2 DEF EventLoop, Serve, Accept, HandleQuery, HandleUpdate, RejectRequest, RejectTail, Flush, PeerGone,
       Reply, Drop, TypeOK
  <2> QED
    BY <1>0, <2>1, <2>2, <2>3, <2>4, ConnInvSame DEF ConnInv
<1>7. CASE Stop \/ Start
  <2>1. SameCalls /\ conn' = conn
    BY <1>7 DEF Stop, Start, SameCalls, InCall, Operation
  <2>2. \A j \in Conns : /\ srv'[j] = "unused" <=> srv[j] = "unused"
                         /\ srv[j] = "unused" =>
                               req'[j] = <<>> /\ rep'[j] = <<>> /\ inbox'[j] = <<>>
    BY <1>7 DEF Stop, Start, ConnInv
  <2> QED
    BY <1>0, <2>1, <2>2, ConnInvSame
<1>8. CASE UNCHANGED vars
  <2>1. SameCalls /\ UNCHANGED <<conn, srv, req, rep, inbox>>
    BY <1>8 DEF vars, SameCalls, InCall, Operation
  <2> QED
    BY <1>0, <2>1, ConnInvSame DEF ConnInv
<1> QED
  BY <1>1, <1>2, <1>3, <1>4, <1>5, <1>6, <1>7, <1>8 DEF Next, Library

\* Only sendPacket makes a thread wait and gives out numbers.
LEMMA WaitersStay ==
    ASSUME TypeOK, [Next]_vars, \A t \in Threads : ~SendRequest(t)
    PROVE  /\ sent' = sent
           /\ \A t \in Threads : pc'[t] = "wait" => pc[t] = "wait" /\ call'[t] = call[t]
<1> USE DEF connVars, threadVars
<1>1. CASE \E c \in Clients : Open(c) \/ Close(c) \/ Exit(c)
  BY <1>1 DEF Open, Close, Exit
<1>2. CASE \E t \in Threads : Call(t) \/ ReceiveReply(t) \/ ReceiveEof(t) \/ Interrupt(t)
  BY <1>2 DEF Call, ReceiveReply, ReceiveEof, Interrupt, Finish, TypeOK
<1>3. CASE \E i \in Conns : EventLoop(i)
  BY <1>3 DEF EventLoop, Serve, Accept, HandleQuery, HandleUpdate, RejectRequest, RejectTail, Flush, PeerGone
<1>4. CASE Stop \/ Start \/ UNCHANGED vars
  BY <1>4 DEF Stop, Start, vars
<1> QED
  BY <1>1, <1>2, <1>3, <1>4 DEF Next, Library

\* What sendPacket does to numbers and threads.
LEMMA SendFacts ==
    ASSUME TypeOK, ConnInv, NEW t \in Threads, SendRequest(t)
    PROVE  LET i == call[t].conn IN
           /\ i \in Conns /\ ~Locked(i) /\ pc[t] = "lock"
           /\ sent'[i] = sent[i] + 1 /\ \A j \in Conns \ {i} : sent'[j] = sent[j]
           /\ call'[t].conn = i /\ call'[t].n = sent[i] + 1 /\ Operation(t)' = Operation(t)
           /\ pc'[t] = (IF srv[i] = "closed" THEN "idle" ELSE "wait")
           /\ \A u \in Threads \ {t} :
                 pc'[u] = pc[u] /\ call'[u] = call[u] /\ ret'[u] = ret[u]
           /\ UNCHANGED <<up, store, srv, rep, inbox, conn, interrupts, window>>
<1> DEFINE i == call[t].conn
<1>1. i \in Conns /\ ~Locked(i) /\ pc[t] = "lock"
  BY DEF SendRequest, ConnInv, InCall
<1>2. sent' = [sent EXCEPT ![i] = sent[i] + 1] /\ call' = [call EXCEPT ![t].n = sent[i] + 1]
      /\ UNCHANGED <<up, store, srv, rep, inbox, conn, interrupts, window>>
  BY DEF SendRequest, Finish
<1>3. sent'[i] = sent[i] + 1 /\ \A j \in Conns \ {i} : sent'[j] = sent[j]
  BY <1>1, <1>2 DEF TypeOK
<1>4. /\ call'[t].conn = i /\ call'[t].n = sent[i] + 1 /\ Operation(t)' = Operation(t)
      /\ \A u \in Threads \ {t} : call'[u] = call[u]
  <2>1. call \in [Threads -> Calls] /\ call[t] \in Calls
    BY DEF TypeOK
  <2>2. call'[t] = [call[t] EXCEPT !.n = sent[i] + 1] /\ \A u \in Threads \ {t} : call'[u] = call[u]
    BY <1>2, <2>1
  <2> QED
    BY <2>1, <2>2 DEF Calls, Operation
<1>5. /\ pc'[t] = (IF srv[i] = "closed" THEN "idle" ELSE "wait")
      /\ \A u \in Threads \ {t} : pc'[u] = pc[u] /\ ret'[u] = ret[u]
  BY DEF SendRequest, Finish, TypeOK
<1> QED
  BY <1>1, <1>2, <1>3, <1>4, <1>5

\* One thread waits on a connection, for the latest request.
LEMMA LockKept == TypeOK /\ ConnInv /\ LockInv /\ [Next]_vars => LockInv'
<1> SUFFICES ASSUME TypeOK, ConnInv, LockInv, [Next]_vars PROVE LockInv'
  OBVIOUS
<1>1. ASSUME NEW t \in Threads, SendRequest(t) PROVE LockInv'
  <2> DEFINE i == call[t].conn
  <2>1. /\ i \in Conns /\ ~Locked(i)
        /\ sent'[i] = sent[i] + 1 /\ \A j \in Conns \ {i} : sent'[j] = sent[j]
        /\ call'[t].conn = i /\ call'[t].n = sent[i] + 1
        /\ \A u \in Threads \ {t} : pc'[u] = pc[u] /\ call'[u] = call[u]
    BY <1>1, SendFacts
  <2>2. \A u \in Threads \ {t} : pc'[u] = "wait" => call'[u].conn \in Conns /\ call'[u].conn # i
    BY <2>1 DEF Locked, ConnInv, InCall
  <2> HIDE DEF i
  <2> QED
    BY <2>1, <2>2 DEF LockInv
<1>2. CASE \A t \in Threads : ~SendRequest(t)
  BY <1>2, WaitersStay DEF LockInv
<1> QED
  BY <1>1, <1>2

\* Who holds the lock after a step.
LEMMA LockedAfter ==
    ASSUME TypeOK, ConnInv, LockInv, [Next]_vars, NEW i \in Conns
    PROVE  /\ (\A t \in Threads : ~SendRequest(t)) => (Locked(i)' => Locked(i))
           /\ \A t \in Threads : SendRequest(t) /\ call[t].conn # i => (Locked(i)' <=> Locked(i))
           /\ \A t \in Threads : SendRequest(t) /\ call[t].conn = i =>
                 ~Locked(i) /\ (Locked(i)' <=> srv[i] # "closed")
           /\ \A t \in Threads : /\ ReceiveReply(t) \/ ReceiveEof(t) \/ Interrupt(t)
                                 /\ call[t].conn = i
                                 => Locked(i) /\ ~Locked(i)'
<1>1. (\A t \in Threads : ~SendRequest(t)) => (Locked(i)' => Locked(i))
  BY WaitersStay DEF Locked
<1>2. ASSUME NEW t \in Threads, SendRequest(t), call[t].conn # i PROVE Locked(i)' <=> Locked(i)
  <2>1. /\ pc[t] # "wait" /\ call'[t].conn # i
        /\ \A u \in Threads \ {t} : pc'[u] = pc[u] /\ call'[u] = call[u]
    BY <1>2, SendFacts
  <2> QED
    BY <2>1 DEF Locked
<1>3. ASSUME NEW t \in Threads, SendRequest(t), call[t].conn = i
      PROVE  ~Locked(i) /\ (Locked(i)' <=> srv[i] # "closed")
  <2>1. /\ ~Locked(i) /\ call'[t].conn = i
        /\ pc'[t] = (IF srv[i] = "closed" THEN "idle" ELSE "wait")
        /\ \A u \in Threads \ {t} : pc'[u] = pc[u] /\ call'[u] = call[u]
    BY <1>3, SendFacts
  <2> QED
    BY <2>1 DEF Locked
<1>4. ASSUME NEW t \in Threads, ReceiveReply(t) \/ ReceiveEof(t) \/ Interrupt(t), call[t].conn = i
      PROVE  Locked(i) /\ ~Locked(i)'
  <2>1. /\ pc[t] = "wait" /\ call' = call /\ pc' = [pc EXCEPT ![t] = "idle"]
    BY <1>4 DEF ReceiveReply, ReceiveEof, Interrupt, Finish
  <2>2. pc'[t] = "idle" /\ \A u \in Threads \ {t} : pc'[u] = pc[u]
    BY <2>1 DEF TypeOK
  <2> QED
    BY <1>4, <2>1, <2>2 DEF Locked, LockInv
<1> QED
  BY <1>1, <1>2, <1>3, <1>4

\* The threads that wait for a lock are finitely many.
LEMMA QueuedFinite ==
    ASSUME NEW i
    PROVE  IsFiniteSet(Queued(i)) /\ Cardinality(Queued(i)) \in Nat
BY ThreadsAssumption, FS_Subset, FS_CardinalityType DEF Queued

\* The numbers of requests and interrupts stay within their bounds.
LEMMA CountKept == TypeOK /\ ConnInv /\ LockInv /\ CountInv /\ [Next]_vars => CountInv'
<1> SUFFICES ASSUME TypeOK, ConnInv, LockInv, CountInv, [Next]_vars, NEW i \in Conns
             PROVE  /\ sent'[i] + Cardinality(Queued(i)') <= MaxCalls
                    /\ interrupts'[i] + (IF Locked(i)' THEN 1 ELSE 0) <= sent'[i]
  BY DEF CountInv
<1> USE DEF connVars, threadVars
<1>0. /\ sent[i] \in Nat /\ interrupts[i] \in Nat /\ MaxCalls \in Nat
      /\ Cardinality(Queued(i)) \in Nat /\ IsFiniteSet(Queued(i))
      /\ sent[i] + Cardinality(Queued(i)) <= MaxCalls
      /\ interrupts[i] + (IF Locked(i) THEN 1 ELSE 0) <= sent[i]
  <2>1. sent[i] \in 0 .. MaxCalls /\ interrupts[i] \in 0 .. MaxCalls
    BY DEF TypeOK
  <2> QED
    BY <2>1, BoundAssumption, QueuedFinite DEF CountInv
<1>1. ASSUME NEW t \in Threads, SendRequest(t), call[t].conn = i
      PROVE  /\ sent'[i] + Cardinality(Queued(i)') <= MaxCalls
             /\ interrupts'[i] + (IF Locked(i)' THEN 1 ELSE 0) <= sent'[i]
  <2>1. /\ pc[t] = "lock" /\ sent'[i] = sent[i] + 1 /\ interrupts' = interrupts
        /\ pc'[t] # "lock"
        /\ \A u \in Threads \ {t} : pc'[u] = pc[u] /\ call'[u] = call[u]
    BY <1>1, SendFacts
  <2>2. Queued(i)' = Queued(i) \ {t} /\ t \in Queued(i)
    BY <1>1, <2>1 DEF Queued
  <2>3. Cardinality(Queued(i)') = Cardinality(Queued(i)) - 1
    BY <1>0, <2>2, FS_RemoveElement
  <2>4. ~Locked(i)
    BY <1>1, LockedAfter
  <2> QED
    BY <1>0, <2>1, <2>3, <2>4
<1>2. ASSUME NEW t \in Threads, Call(t)
      PROVE  /\ sent'[i] + Cardinality(Queued(i)') <= MaxCalls
             /\ interrupts'[i] + (IF Locked(i)' THEN 1 ELSE 0) <= sent'[i]
  <2>1. /\ pc[t] = "idle" /\ pc'[t] = "lock" /\ call'[t].conn = conn[Home[t]]
        /\ \A u \in Threads \ {t} : pc'[u] = pc[u] /\ call'[u] = call[u]
        /\ sent[conn[Home[t]]] + Cardinality(Queued(conn[Home[t]])) < MaxCalls
        /\ UNCHANGED <<sent, interrupts>>
    BY <1>2 DEF Call, TypeOK
  <2>2. Locked(i)' <=> Locked(i)
    BY <2>1 DEF Locked
  <2>3. sent[i] + Cardinality(Queued(i)') <= MaxCalls
    <3>1. CASE conn[Home[t]] = i
      <4>1. Queued(i)' = Queued(i) \cup {t} /\ t \notin Queued(i)
        BY <2>1, <3>1 DEF Queued
      <4>2. Cardinality(Queued(i)') = Cardinality(Queued(i)) + 1
        BY <1>0, <4>1, FS_AddElement
      <4> QED
        BY <1>0, <2>1, <3>1, <4>2
    <3>2. CASE conn[Home[t]] # i
      <4>1. Queued(i)' = Queued(i)
        BY <2>1, <3>2 DEF Queued
      <4> QED
        BY <1>0, <4>1
    <3> QED
      BY <3>1, <3>2
  <2> QED
    BY <1>0, <2>1, <2>2, <2>3
<1>3. CASE (\A t \in Threads : ~Call(t)) /\ (\A t \in Threads : SendRequest(t) => call[t].conn # i)
  <2>1. Queued(i)' \subseteq Queued(i)
    <3>1. ASSUME NEW u \in Threads, pc'[u] = "lock", call'[u].conn = i
          PROVE  pc[u] = "lock" /\ call[u].conn = i
      <4>1. CASE \E t \in Threads : SendRequest(t)
        BY <1>3, <3>1, <4>1, SendFacts
      <4>2. CASE \E c \in Clients : Open(c) \/ Close(c) \/ Exit(c)
        BY <3>1, <4>2 DEF Open, Close, Exit
      <4>3. CASE \E t \in Threads : ReceiveReply(t) \/ ReceiveEof(t) \/ Interrupt(t)
        BY <3>1, <4>3 DEF ReceiveReply, ReceiveEof, Interrupt, Finish, TypeOK
      <4>4. CASE \E j \in Conns : EventLoop(j)
        BY <3>1, <4>4 DEF EventLoop, Serve, Accept, HandleQuery, HandleUpdate, RejectRequest, RejectTail, Flush, PeerGone
      <4>5. CASE Stop \/ Start \/ UNCHANGED vars
        BY <3>1, <4>5 DEF Stop, Start, vars
      <4> QED
        BY <1>3, <4>1, <4>2, <4>3, <4>4, <4>5 DEF Next, Library
    <3> QED
      BY <3>1 DEF Queued
  <2>2. Cardinality(Queued(i)') \in Nat /\ Cardinality(Queued(i)') <= Cardinality(Queued(i))
    BY <1>0, <2>1, FS_Subset, FS_CardinalityType
  <2>3. sent'[i] = sent[i]
    BY <1>3, SendFacts, WaitersStay
  <2>4. Locked(i)' => Locked(i)
    BY <1>3, LockedAfter
  <2>5. CASE \E t \in Threads : Interrupt(t) /\ call[t].conn = i
    <3>1. Locked(i) /\ ~Locked(i)'
      BY <2>5, LockedAfter
    <3>2. interrupts'[i] = interrupts[i] + 1
      BY <2>5 DEF Interrupt, TypeOK
    <3> QED
      BY <1>0, <2>2, <2>3, <3>1, <3>2
  <2>6. CASE \A t \in Threads : Interrupt(t) => call[t].conn # i
    <3>1. interrupts'[i] = interrupts[i]
      <4>1. CASE \E t \in Threads : Interrupt(t)
        BY <2>6, <4>1 DEF Interrupt, TypeOK
      <4>2. CASE \A t \in Threads : ~Interrupt(t)
        BY <4>2 DEF Next, Library, EventLoop, Serve, vars, Open, Close, Exit, Call, SendRequest,
           ReceiveReply, ReceiveEof, Accept, HandleQuery, HandleUpdate, RejectRequest, RejectTail, Flush,
           PeerGone, Stop, Start
      <4> QED
        BY <4>1, <4>2
    <3> QED
      BY <1>0, <2>2, <2>3, <2>4, <3>1
  <2> QED
    BY <2>5, <2>6
<1> QED
  BY <1>1, <1>2, <1>3

\* What a step can do to the queues of a connection: nothing, send a request, take
\* a reply, answer the first request, write replies out, or lose what is queued.
LEMMA QueueSteps ==
    ASSUME TypeOK, ConnInv, [Next]_vars, NEW i \in Conns
    PROVE  \/ inbox'[i] = inbox[i] /\ rep'[i] = rep[i] /\ req'[i] = req[i]
           \/ \E t \in Threads :
                 /\ SendRequest(t) /\ call[t].conn = i /\ srv[i] # "closed"
                 /\ inbox'[i] = inbox[i] /\ rep'[i] = rep[i]
                 /\ req'[i] = Append(req[i], Request(sent[i] + 1, Operation(t)))
           \/ \E t \in Threads :
                 /\ ReceiveReply(t) /\ call[t].conn = i /\ inbox[i] # <<>>
                 /\ inbox'[i] = Tail(inbox[i]) /\ rep'[i] = rep[i] /\ req'[i] = req[i]
           \/ /\ HandleQuery(i) \/ HandleUpdate(i)
              /\ inbox'[i] = inbox[i]
              /\ \E v \in Values \cup {NoValue} : rep'[i] = Append(rep[i],
                    [n |-> Head(req[i]).n, ep |-> Head(req[i]).op.ep, value |-> v])
              /\ req'[i] \in Remainders(req[i])
           \/ Flush(i) /\ inbox'[i] = inbox[i] \o rep[i] /\ rep'[i] = <<>> /\ req'[i] = req[i]
           \/ inbox'[i] = inbox[i] /\ rep'[i] = <<>> /\ req'[i] = <<>>
<1> USE DEF connVars, threadVars
<1>1. CASE \E c \in Clients : Open(c) \/ Close(c) \/ Exit(c)
  BY <1>1 DEF Open, Close, Exit
<1>2. CASE \E t \in Threads : Call(t) \/ ReceiveEof(t) \/ Interrupt(t)
  BY <1>2 DEF Call, ReceiveEof, Interrupt
<1>3. ASSUME NEW t \in Threads, SendRequest(t)
      PROVE  \/ inbox'[i] = inbox[i] /\ rep'[i] = rep[i] /\ req'[i] = req[i]
             \/ /\ call[t].conn = i /\ srv[i] # "closed"
                /\ inbox'[i] = inbox[i] /\ rep'[i] = rep[i]
                /\ req'[i] = Append(req[i], Request(sent[i] + 1, Operation(t)))
  <2>1. UNCHANGED <<inbox, rep>>
    BY <1>3 DEF SendRequest
  <2>2. req \in [Conns -> Seq(Requests \cup {Junk})]
    BY DEF TypeOK
  <2>3. \/ UNCHANGED req
        \/ /\ srv[call[t].conn] # "closed"
           /\ req' = [req EXCEPT ![call[t].conn] = Append(req[call[t].conn],
                         Request(sent[call[t].conn] + 1, Operation(t)))]
    BY <1>3 DEF SendRequest, Operation
  <2> QED
    BY <2>1, <2>2, <2>3
<1>4. ASSUME NEW t \in Threads, ReceiveReply(t)
      PROVE  \/ inbox'[i] = inbox[i] /\ rep'[i] = rep[i] /\ req'[i] = req[i]
             \/ /\ call[t].conn = i /\ inbox[i] # <<>>
                /\ inbox'[i] = Tail(inbox[i]) /\ rep'[i] = rep[i] /\ req'[i] = req[i]
  BY <1>4 DEF ReceiveReply, Unread, TypeOK
<1>5. ASSUME NEW j \in Conns, EventLoop(j), j # i
      PROVE  inbox'[i] = inbox[i] /\ rep'[i] = rep[i] /\ req'[i] = req[i]
  BY <1>5 DEF EventLoop, Serve, Accept, HandleQuery, HandleUpdate, RejectRequest, RejectTail, Flush, PeerGone, Reply,
     Drop, TypeOK
<1>6. CASE Accept(i) \/ RejectRequest(i) \/ RejectTail(i) \/ PeerGone(i)
  BY <1>6 DEF Accept, RejectRequest, RejectTail, PeerGone, Drop, TypeOK
<1>7. CASE HandleQuery(i) \/ HandleUpdate(i)
  <2>1. PICK v : Reply(i, Head(req[i]), v) /\ (v = NoValue \/ v = store[Head(req[i]).op.key])
                 /\ inbox' = inbox /\ (HandleUpdate(i) \/ v = store[Head(req[i]).op.key])
                 /\ (HandleQuery(i) \/ v = NoValue)
    BY <1>7 DEF HandleQuery, HandleUpdate
  <2>2. v \in Values \cup {NoValue}
    <3>1. CASE v = NoValue
      BY <3>1
    <3>2. CASE v # NoValue
      <4>1. v = store[Head(req[i]).op.key] /\ Head(req[i]).op.ep = "query" /\ req[i] # <<>>
        BY <2>1, <3>2 DEF HandleQuery, Readable
      <4>2. Head(req[i]) \in Requests
        BY <4>1, HeadRequest
      <4>3. Head(req[i]).op.key \in Keys
        BY <4>2, MessageTypes
      <4> QED
        BY <4>1, <4>3 DEF TypeOK
    <3> QED
      BY <3>1, <3>2
  <2>3. /\ inbox'[i] = inbox[i] /\ req'[i] \in Remainders(req[i])
        /\ rep'[i] = Append(rep[i],
                        [n |-> Head(req[i]).n, ep |-> Head(req[i]).op.ep, value |-> v])
    BY <2>1 DEF Reply, TypeOK
  <2> QED
    BY <1>7, <2>2, <2>3
<1>8. CASE Flush(i)
  BY <1>8 DEF Flush, TypeOK
<1>9. CASE Stop \/ Start \/ UNCHANGED vars
  BY <1>9 DEF Stop, Start, vars
<1> QED
  BY <1>1, <1>2, <1>3, <1>4, <1>5, <1>6, <1>7, <1>8, <1>9 DEF Next, Library, EventLoop, Serve

\* The messages that are on their way have numbers.
LEMMA NumbersAre ==
    ASSUME TypeOK, NEW i \in Conns
    PROVE  /\ \A m \in InFlight(i) : m.n \in Nat
           /\ \A m \in Elems(req[i]) : m.n \in Nat
           /\ \A m \in Elems(inbox[i]) \cup Elems(rep[i]) : m.n \in Nat
           /\ sent[i] \in Nat /\ interrupts[i] \in Nat
           /\ inbox[i] \in Seq(Replies) /\ rep[i] \in Seq(Replies)
           /\ req[i] \in Seq(Requests \cup {Junk})
<1>1. /\ inbox[i] \in Seq(Replies) /\ rep[i] \in Seq(Replies)
      /\ req[i] \in Seq(Requests \cup {Junk})
      /\ sent[i] \in 0 .. MaxCalls /\ interrupts[i] \in 0 .. MaxCalls
  BY DEF TypeOK
<1>2. /\ Elems(inbox[i]) \subseteq Replies /\ Elems(rep[i]) \subseteq Replies
      /\ Elems(req[i]) \subseteq Requests \cup {Junk}
  BY <1>1, ElemsAre
<1>3. /\ \A m \in Replies : m.n \in Nat
      /\ \A m \in Requests \cup {Junk} : m.n \in Nat
  BY MessageTypes, BoundAssumption
<1> QED
  BY <1>1, <1>2, <1>3, BoundAssumption DEF InFlight

\* The numbers on a connection never go down.
LEMMA SentGrows ==
    ASSUME TypeOK, ConnInv, [Next]_vars, NEW i \in Conns
    PROVE  sent[i] <= sent'[i]
<1>1. sent[i] \in Nat
  BY NumbersAre
<1> QED
  BY <1>1, SendFacts, WaitersStay

\* Numbers increase along the queues of a connection.
LEMMA OrderKept == TypeOK /\ ConnInv /\ OrderInv /\ [Next]_vars /\ TypeOK' => OrderInv'
<1> SUFFICES ASSUME TypeOK, ConnInv, OrderInv, [Next]_vars, TypeOK', NEW i \in Conns
             PROVE  /\ Increasing(inbox'[i]) /\ Increasing(rep'[i]) /\ Increasing(req'[i])
                    /\ \A m \in Elems(inbox'[i]), r \in Elems(rep'[i]) : m.n < r.n
                    /\ \A m \in Elems(inbox'[i]) \cup Elems(rep'[i]),
                          q \in Elems(req'[i]) \ {Junk} : m.n < q.n
                    /\ \A m \in Elems(inbox'[i]) \cup Elems(rep'[i])
                                  \cup (Elems(req'[i]) \ {Junk}) : m.n <= sent'[i]
  BY DEF OrderInv, InFlight
<1> DEFINE A == Elems(inbox[i])
           B == Elems(rep[i])
           C == Elems(req[i])
<1>0. /\ \A m \in A \cup B \cup C : m.n \in Nat
      /\ sent[i] \in Nat /\ sent'[i] \in Nat /\ sent[i] <= sent'[i]
      /\ Increasing(inbox[i]) /\ Increasing(rep[i]) /\ Increasing(req[i])
      /\ \A m \in A, r \in B : m.n < r.n
      /\ \A m \in A \cup B, q \in C \ {Junk} : m.n < q.n
      /\ \A m \in A \cup B \cup (C \ {Junk}) : m.n <= sent[i]
      /\ \A m \in A \cup B \cup (C \ {Junk}) : m.n <= sent'[i]
  <2>1. /\ \A m \in A \cup B \cup C : m.n \in Nat
        /\ sent[i] \in Nat
    BY NumbersAre
  <2>2. sent'[i] \in Nat
    BY BoundAssumption DEF TypeOK
  <2>3. sent[i] <= sent'[i]
    BY SentGrows
  <2>4. \A m \in A \cup B \cup (C \ {Junk}) : m.n <= sent[i]
    BY DEF OrderInv, InFlight
  <2>5. \A m \in A \cup B \cup (C \ {Junk}) : m.n <= sent'[i]
    BY <2>1, <2>2, <2>3, <2>4
  <2> QED
    BY <2>1, <2>2, <2>3, <2>4, <2>5 DEF OrderInv
<1>00. /\ inbox[i] \in Seq(Replies) /\ rep[i] \in Seq(Replies)
       /\ req[i] \in Seq(Requests \cup {Junk})
  BY NumbersAre
<1> HIDE DEF A, B, C
<1>1. CASE inbox'[i] = inbox[i] /\ rep'[i] = rep[i] /\ req'[i] = req[i]
  BY <1>0, <1>1 DEF A, B, C
<1>2. ASSUME NEW t \in Threads, SendRequest(t), call[t].conn = i,
             inbox'[i] = inbox[i], rep'[i] = rep[i],
             req'[i] = Append(req[i], Request(sent[i] + 1, Operation(t)))
      PROVE  /\ Increasing(req'[i])
             /\ \A m \in A \cup B, q \in Elems(req'[i]) \ {Junk} : m.n < q.n
             /\ \A m \in Elems(req'[i]) \ {Junk} : m.n <= sent'[i]
  <2> DEFINE x == Request(sent[i] + 1, Operation(t))
  <2>1. x.n = sent[i] + 1 /\ sent'[i] = sent[i] + 1
    BY <1>2, SendFacts DEF Request
  <2>2. \A S : x \in S /\ req[i] \in Seq(S) =>
          /\ Elems(Append(req[i], x)) = C \cup {x}
          /\ (\A m \in C : m.n < x.n) => Increasing(Append(req[i], x))
    BY <1>0, QueueAppend DEF C
  <2>3. x \in Requests
    <3>1. sent[i] + 1 \in 1 .. MaxCalls
      BY <1>0, <2>1, BoundAssumption DEF TypeOK
    <3>2. Operation(t) \in Operations
      BY <1>2, SendFacts DEF ConnInv, InCall
    <3> QED
      BY <3>1, <3>2 DEF Request, Requests
  <2> HIDE DEF x
  <2>4. \A m \in C : m.n < x.n
    BY <1>0, <2>1, MessageTypes
  <2>5. Elems(req'[i]) = C \cup {x} /\ Increasing(req'[i])
    BY <1>2, <1>00, <2>2, <2>3, <2>4 DEF x
  <2> QED
    BY <1>0, <2>1, <2>5
<1>3. CASE inbox[i] # <<>> /\ inbox'[i] = Tail(inbox[i]) /\ rep'[i] = rep[i] /\ req'[i] = req[i]
  <2>1. Elems(inbox'[i]) \subseteq A /\ Increasing(inbox'[i])
    BY <1>0, <1>00, <1>3, QueueTail DEF A
  <2> QED
    BY <1>0, <1>3, <2>1 DEF B, C
<1>4. ASSUME HandleQuery(i) \/ HandleUpdate(i), inbox'[i] = inbox[i],
             NEW v \in Values \cup {NoValue},
             rep'[i] = Append(rep[i],
                         [n |-> Head(req[i]).n, ep |-> Head(req[i]).op.ep, value |-> v]),
             req'[i] \in Remainders(req[i])
      PROVE  /\ Increasing(rep'[i]) /\ Increasing(req'[i])
             /\ \A m \in A, r \in Elems(rep'[i]) : m.n < r.n
             /\ \A m \in A \cup Elems(rep'[i]), q \in Elems(req'[i]) \ {Junk} : m.n < q.n
             /\ \A m \in Elems(rep'[i]) \cup (Elems(req'[i]) \ {Junk}) : m.n <= sent'[i]
  <2> DEFINE x == [n |-> Head(req[i]).n, ep |-> Head(req[i]).op.ep, value |-> v]
  <2>1. /\ Head(req[i]) \in C \ {Junk} /\ x.n = Head(req[i]).n
        /\ x \in Replies
        /\ Elems(req'[i]) \ {Junk} \subseteq C \ {Junk} /\ Increasing(req'[i])
        /\ \A q \in Elems(req'[i]) \ {Junk} : x.n < q.n
    BY <1>0, <1>4, HeadRequest DEF HandleQuery, HandleUpdate, Readable, C
  <2> HIDE DEF x
  <2>2. \A m \in A \cup B : m.n < x.n
    BY <1>0, <2>1
  <2>3. Elems(rep'[i]) = B \cup {x} /\ Increasing(rep'[i])
    BY <1>0, <1>00, <1>4, <2>1, <2>2, QueueAppend DEF B, x
  <2>4. \A m \in A \cup Elems(rep'[i]), q \in Elems(req'[i]) \ {Junk} : m.n < q.n
    BY <1>0, <2>1, <2>3
  <2>5. x.n <= sent'[i]
    BY <1>0, <2>1
  <2> QED
    BY <1>0, <2>1, <2>2, <2>3, <2>4, <2>5
<1>5. CASE inbox'[i] = inbox[i] \o rep[i] /\ rep'[i] = <<>> /\ req'[i] = req[i]
  <2>1. Elems(inbox'[i]) = A \cup B /\ Increasing(inbox'[i])
    BY <1>0, <1>00, <1>5, QueueConcat DEF A, B
  <2> QED
    BY <1>0, <1>5, <2>1, EmptyQueue DEF C
<1>6. CASE inbox'[i] = inbox[i] /\ rep'[i] = <<>> /\ req'[i] = <<>>
  BY <1>0, <1>6, EmptyQueue DEF A
<1> QED
  <2>2. ASSUME NEW t \in Threads, SendRequest(t), call[t].conn = i,
               inbox'[i] = inbox[i], rep'[i] = rep[i],
               req'[i] = Append(req[i], Request(sent[i] + 1, Operation(t)))
        PROVE  /\ Increasing(inbox'[i]) /\ Increasing(rep'[i]) /\ Increasing(req'[i])
               /\ \A m \in Elems(inbox'[i]), r \in Elems(rep'[i]) : m.n < r.n
               /\ \A m \in Elems(inbox'[i]) \cup Elems(rep'[i]),
                     q \in Elems(req'[i]) \ {Junk} : m.n < q.n
               /\ \A m \in Elems(inbox'[i]) \cup Elems(rep'[i])
                             \cup (Elems(req'[i]) \ {Junk}) : m.n <= sent'[i]
    BY <1>0, <1>2, <2>2 DEF A, B
  <2>4. ASSUME HandleQuery(i) \/ HandleUpdate(i), inbox'[i] = inbox[i],
               NEW v \in Values \cup {NoValue},
               rep'[i] = Append(rep[i],
                           [n |-> Head(req[i]).n, ep |-> Head(req[i]).op.ep, value |-> v]),
               req'[i] \in Remainders(req[i])
        PROVE  /\ Increasing(inbox'[i]) /\ Increasing(rep'[i]) /\ Increasing(req'[i])
               /\ \A m \in Elems(inbox'[i]), r \in Elems(rep'[i]) : m.n < r.n
               /\ \A m \in Elems(inbox'[i]) \cup Elems(rep'[i]),
                     q \in Elems(req'[i]) \ {Junk} : m.n < q.n
               /\ \A m \in Elems(inbox'[i]) \cup Elems(rep'[i])
                             \cup (Elems(req'[i]) \ {Junk}) : m.n <= sent'[i]
    BY <1>0, <1>4, <2>4 DEF A
  <2> QED
    BY <1>1, <2>2, <1>3, <2>4, <1>5, <1>6, QueueSteps

\* What is on its way after a step was on its way before, or has just been sent.
LEMMA InFlightAfter ==
    ASSUME TypeOK, ConnInv, [Next]_vars, TypeOK', NEW i \in Conns, NEW m \in InFlight(i)'
    PROVE  \/ \E o \in InFlight(i) : o.n = m.n
           \/ \E t \in Threads : SendRequest(t) /\ call[t].conn = i /\ m.n = sent[i] + 1
<1>0. /\ inbox[i] \in Seq(Replies) /\ rep[i] \in Seq(Replies)
      /\ req[i] \in Seq(Requests \cup {Junk})
  BY NumbersAre
<1>1. m \in Elems(inbox'[i]) \cup Elems(rep'[i]) \cup (Elems(req'[i]) \ {Junk})
  BY DEF InFlight
<1>2. CASE inbox'[i] = inbox[i] /\ rep'[i] = rep[i] /\ req'[i] = req[i]
  BY <1>1, <1>2 DEF InFlight
<1>3. ASSUME NEW t \in Threads, SendRequest(t), call[t].conn = i,
             inbox'[i] = inbox[i], rep'[i] = rep[i],
             req'[i] = Append(req[i], Request(sent[i] + 1, Operation(t)))
      PROVE  m \in InFlight(i) \/ m.n = sent[i] + 1
  <2> DEFINE x == Request(sent[i] + 1, Operation(t))
  <2>1. x.n = sent[i] + 1 /\ sent'[i] = sent[i] + 1
    BY <1>3, SendFacts DEF Request
  <2>2. x \in Requests
    <3>1. sent[i] + 1 \in 1 .. MaxCalls
      <4>1. sent[i] \in Nat /\ sent'[i] \in 0 .. MaxCalls
        BY NumbersAre DEF TypeOK
      <4> QED
        BY <2>1, <4>1, BoundAssumption
    <3>2. Operation(t) \in Operations
      BY <1>3, SendFacts DEF ConnInv, InCall
    <3> QED
      BY <3>1, <3>2 DEF Request, Requests
  <2> HIDE DEF x
  <2>3. Elems(req'[i]) = Elems(req[i]) \cup {x}
    BY <1>0, <1>3, <2>2, QueueAppend DEF x
  <2> QED
    BY <1>1, <1>3, <2>1, <2>3 DEF InFlight
<1>4. CASE inbox[i] # <<>> /\ inbox'[i] = Tail(inbox[i]) /\ rep'[i] = rep[i] /\ req'[i] = req[i]
  <2>1. Elems(inbox'[i]) \subseteq Elems(inbox[i])
    BY <1>0, <1>4, QueueTail
  <2> QED
    BY <1>1, <1>4, <2>1 DEF InFlight
<1>5. ASSUME HandleQuery(i) \/ HandleUpdate(i), inbox'[i] = inbox[i],
             NEW v \in Values \cup {NoValue},
             rep'[i] = Append(rep[i],
                         [n |-> Head(req[i]).n, ep |-> Head(req[i]).op.ep, value |-> v]),
             req'[i] \in Remainders(req[i])
      PROVE  \E o \in InFlight(i) : o.n = m.n
  <2> DEFINE x == [n |-> Head(req[i]).n, ep |-> Head(req[i]).op.ep, value |-> v]
  <2>1. /\ Head(req[i]) \in Elems(req[i]) \ {Junk} /\ x.n = Head(req[i]).n
        /\ x \in Replies /\ Elems(req'[i]) \ {Junk} \subseteq Elems(req[i]) \ {Junk}
    BY <1>5, HeadRequest DEF HandleQuery, HandleUpdate, Readable
  <2> HIDE DEF x
  <2>2. Elems(rep'[i]) = Elems(rep[i]) \cup {x}
    BY <1>0, <1>5, <2>1, QueueAppend DEF x
  <2> QED
    BY <1>1, <1>5, <2>1, <2>2 DEF InFlight
<1>6. CASE inbox'[i] = inbox[i] \o rep[i] /\ rep'[i] = <<>> /\ req'[i] = req[i]
  <2>1. Elems(inbox'[i]) = Elems(inbox[i]) \cup Elems(rep[i])
    BY <1>0, <1>6, QueueConcat
  <2> QED
    BY <1>1, <1>6, <2>1, EmptyQueue DEF InFlight
<1>7. CASE inbox'[i] = inbox[i] /\ rep'[i] = <<>> /\ req'[i] = <<>>
  BY <1>1, <1>7, EmptyQueue DEF InFlight
<1> QED
  BY <1>2, <1>3, <1>4, <1>5, <1>6, <1>7, QueueSteps

\* A closed connection stays closed.
LEMMA ClosedStays ==
    ASSUME TypeOK, ConnInv, [Next]_vars, NEW i \in Conns, srv[i] = "closed"
    PROVE  srv'[i] = "closed"
<1> USE DEF connVars, threadVars
<1>1. CASE \E c \in Clients : Open(c) \/ Close(c) \/ Exit(c)
  BY <1>1 DEF Open, Close, Exit, TypeOK
<1>2. CASE \E t \in Threads : Library(t)
  BY <1>2 DEF Library, Call, SendRequest, ReceiveReply, ReceiveEof, Interrupt
<1>3. ASSUME NEW j \in Conns, EventLoop(j) PROVE srv'[i] = "closed"
  BY <1>3 DEF EventLoop, Serve, Accept, HandleQuery, HandleUpdate, RejectRequest, RejectTail, Flush, PeerGone, Reply,
     Drop, TypeOK, Readable
<1>4. CASE Stop \/ Start \/ UNCHANGED vars
  BY <1>4 DEF Stop, Start, vars
<1> QED
  BY <1>1, <1>2, <1>3, <1>4 DEF Next

\* Interrupts of other connections do not count.
LEMMA InterruptsSame ==
    ASSUME TypeOK, [Next]_vars, NEW i \in Conns,
           \A t \in Threads : Interrupt(t) => call[t].conn # i
    PROVE  interrupts'[i] = interrupts[i]
<1>1. CASE \E t \in Threads : Interrupt(t)
  BY <1>1 DEF Interrupt, TypeOK
<1>2. CASE \A t \in Threads : ~Interrupt(t)
  BY <1>2 DEF Next, Library, EventLoop, Serve, vars, Open, Close, Exit, Call, SendRequest,
     ReceiveReply, ReceiveEof, Accept, HandleQuery, HandleUpdate, RejectRequest, RejectTail, Flush,
     PeerGone, Stop, Start
<1> QED
  BY <1>1, <1>2

\* A connection in use was in use before, or has just been opened; and while it is
\* in use, its lock changes hands only in the steps of sendPacketWithReply.
LEMMA UsedAfter ==
    ASSUME TypeOK, ConnInv, [Next]_vars, NEW i \in Conns, Used(i)',
           \A t \in Threads : call[t].conn = i =>
               ~SendRequest(t) /\ ~ReceiveReply(t) /\ ~ReceiveEof(t) /\ ~Interrupt(t)
    PROVE  /\ Used(i) \/ srv[i] = "unused"
           /\ Locked(i) => Locked(i)'
<1> USE DEF connVars, threadVars
<1>1. ASSUME NEW c \in Clients, Open(c)
      PROVE  (Used(i) \/ srv[i] = "unused") /\ (Locked(i) => Locked(i)')
  <2>1. UNCHANGED threadVars /\ \A d \in Clients : conn'[d] = i => conn[d] = i \/ srv[i] = "unused"
    BY <1>1 DEF Open, TypeOK
  <2> QED
    BY <2>1 DEF Used, HasPeer, InCall, Locked
<1>2. ASSUME NEW c \in Clients, Close(c)
      PROVE  Used(i) /\ (Locked(i) => Locked(i)')
  <2>1. UNCHANGED threadVars /\ \A d \in Clients : conn'[d] = i => conn[d] = i
    BY <1>2, BoundAssumption DEF Close, TypeOK, Conns
  <2> QED
    BY <2>1 DEF Used, HasPeer, InCall, Locked
<1>3. ASSUME NEW c \in Clients, Exit(c)
      PROVE  Used(i) /\ (Locked(i) => Locked(i)')
  <2>1. /\ \A d \in Clients : conn'[d] = i => conn[d] = i /\ d # c
        /\ \A t \in Threads : Home[t] = c => pc'[t] = "idle"
        /\ \A t \in Threads : Home[t] # c => pc'[t] = pc[t] /\ call'[t] = call[t]
    <3>1. \A d \in Clients : conn'[d] = i => conn[d] = i /\ d # c
      BY <1>3, BoundAssumption DEF Exit, TypeOK, Conns
    <3> QED
      BY <1>3, <3>1 DEF Exit
  <2>2. Used(i)
    BY <2>1 DEF Used, HasPeer, InCall
  <2>3. ASSUME NEW t \in Threads, pc[t] = "wait", call[t].conn = i, Home[t] = c PROVE FALSE
    <3>1. ASSUME NEW d \in Clients, conn'[d] = i PROVE FALSE
      BY <2>1, <2>3, <3>1 DEF ConnInv, InCall
    <3>2. ASSUME NEW u \in Threads, pc'[u] # "idle", call'[u].conn = i PROVE FALSE
      <4>1. Home[u] # c /\ pc[u] # "idle" /\ call[u].conn = i
        BY <2>1, <3>2
      <4> QED
        BY <2>3, <4>1 DEF ConnInv, InCall
    <3> QED
      BY <3>1, <3>2 DEF Used, HasPeer, InCall
  <2> QED
    BY <2>1, <2>2, <2>3 DEF Locked
<1>4. ASSUME NEW t \in Threads, Call(t)
      PROVE  Used(i) /\ (Locked(i) => Locked(i)')
  <2>1. /\ pc[t] = "idle" /\ call'[t].conn = conn[Home[t]] /\ conn' = conn /\ Home[t] \in Clients
        /\ \A u \in Threads \ {t} : pc'[u] = pc[u] /\ call'[u] = call[u]
    <3>1. PICK op \in Operations :
            call' = [call EXCEPT ![t] = [conn |-> conn[Home[t]], n |-> 0, ep |-> op.ep,
                        key |-> op.key, value |-> op.value, large |-> op.large]]
      BY <1>4 DEF Call
    <3>2. call'[t].conn = conn[Home[t]] /\ \A u \in Threads \ {t} : call'[u] = call[u]
      BY <3>1 DEF TypeOK
    <3> QED
      BY <1>4, <3>2, HomeAssumption DEF Call, TypeOK
  <2> QED
    BY <2>1 DEF Used, HasPeer, InCall, Locked
<1>5. ASSUME NEW t \in Threads, ReceiveReply(t) \/ ReceiveEof(t) \/ Interrupt(t)
      PROVE  Used(i) /\ (Locked(i) => Locked(i)')
  <2>1. /\ call[t].conn # i /\ call' = call /\ conn' = conn
        /\ pc'[t] = "idle"
        /\ \A u \in Threads \ {t} : pc'[u] = pc[u]
    BY <1>5 DEF ReceiveReply, ReceiveEof, Interrupt, Finish, TypeOK
  <2> QED
    BY <2>1 DEF Used, HasPeer, InCall, Locked
<1>6. ASSUME NEW t \in Threads, SendRequest(t)
      PROVE  Used(i) /\ (Locked(i) => Locked(i)')
  <2>1. /\ call[t].conn # i /\ call'[t].conn = call[t].conn /\ conn' = conn
        /\ \A u \in Threads \ {t} : pc'[u] = pc[u] /\ call'[u] = call[u]
    BY <1>6, SendFacts
  <2> QED
    BY <2>1 DEF Used, HasPeer, InCall, Locked
<1>7. CASE (\E j \in Conns : EventLoop(j)) \/ Stop \/ Start \/ UNCHANGED vars
  <2>1. UNCHANGED <<conn, pc, call>>
    BY <1>7 DEF EventLoop, Serve, Accept, HandleQuery, HandleUpdate, RejectRequest, RejectTail, Flush, PeerGone,
       Stop, Start, vars
  <2> QED
    BY <2>1 DEF Used, HasPeer, InCall, Locked
<1> QED
  BY <1>1, <1>2, <1>3, <1>4, <1>5, <1>6, <1>7 DEF Next, Library

\* How far replies lag behind.
LEMMA LagKept ==
    TypeOK /\ ConnInv /\ LockInv /\ OrderInv /\ LagInv /\ [Next]_vars /\ TypeOK' => LagInv'
<1> SUFFICES ASSUME TypeOK, ConnInv, LockInv, OrderInv, LagInv, [Next]_vars, TypeOK',
                    NEW i \in Conns, NEW m \in InFlight(i)', Used(i)',
                    srv'[i] = "closed" => Locked(i)'
             PROVE  sent'[i] - m.n + (IF Locked(i)' THEN 0 ELSE 1) <= interrupts'[i]
  BY DEF LagInv
<1>0. /\ sent[i] \in Nat /\ interrupts[i] \in Nat
      /\ \A o \in InFlight(i) : o.n \in Nat /\ o.n <= sent[i]
  BY NumbersAre DEF OrderInv
<1>1. ASSUME NEW t \in Threads, SendRequest(t), call[t].conn = i
      PROVE  sent'[i] - m.n + (IF Locked(i)' THEN 0 ELSE 1) <= interrupts'[i]
  <2>1. /\ ~Locked(i) /\ sent'[i] = sent[i] + 1 /\ interrupts' = interrupts /\ srv' = srv
        /\ pc[t] = "lock"
    BY <1>1, SendFacts
  <2>2. srv[i] # "closed" /\ Locked(i)'
    BY <1>1, <2>1, LockedAfter
  <2>3. Used(i)
    BY <1>1, <2>1 DEF Used, InCall
  <2>4. CASE m.n = sent[i] + 1
    BY <1>0, <2>1, <2>2, <2>4
  <2>5. ASSUME NEW o \in InFlight(i), o.n = m.n
        PROVE  sent'[i] - m.n + (IF Locked(i)' THEN 0 ELSE 1) <= interrupts'[i]
    <3>1. sent[i] - o.n + 1 <= interrupts[i]
      BY <2>1, <2>2, <2>3 DEF LagInv
    <3> QED
      BY <1>0, <2>1, <2>2, <2>5, <3>1
  <2> QED
    BY <2>4, <2>5, InFlightAfter
<1>2. ASSUME NEW t \in Threads, ReceiveReply(t), call[t].conn = i
      PROVE  sent'[i] - m.n + (IF Locked(i)' THEN 0 ELSE 1) <= interrupts'[i]
  <2>1. /\ pc[t] = "wait" /\ inbox[i] # <<>> /\ inbox'[i] = Tail(inbox[i])
        /\ UNCHANGED <<rep, req, sent, interrupts>>
    BY <1>2 DEF ReceiveReply, Unread, TypeOK
  <2>2. Locked(i) /\ ~Locked(i)' /\ Used(i)
    BY <1>2, <2>1, ZenonT(60) DEF Used, InCall, Locked, ReceiveReply, Finish, TypeOK, LockInv
  <2> DEFINE h == Head(inbox[i])
  <2>3. /\ h \in Elems(inbox[i]) /\ Elems(inbox'[i]) \subseteq Elems(inbox[i])
        /\ \A o \in Elems(inbox'[i]) : h.n < o.n
    <3>1. inbox[i] \in Seq(Replies) /\ Increasing(inbox[i])
      BY NumbersAre DEF OrderInv
    <3> QED
      BY <2>1, <3>1, QueueTail
  <2> HIDE DEF h
  <2>4. h \in InFlight(i) /\ m \in InFlight(i) /\ h.n < m.n
    BY <2>1, <2>3 DEF InFlight, OrderInv
  <2>5. sent[i] - h.n <= interrupts[i]
    <3>1. sent[i] - h.n + 0 <= interrupts[i]
      BY <2>2, <2>4 DEF LagInv
    <3> QED
      BY <1>0, <2>4, <3>1
  <2> QED
    BY <1>0, <2>1, <2>2, <2>4, <2>5
<1>3. ASSUME NEW t \in Threads, Interrupt(t), call[t].conn = i
      PROVE  sent'[i] - m.n + (IF Locked(i)' THEN 0 ELSE 1) <= interrupts'[i]
  <2>1. /\ pc[t] = "wait" /\ interrupts'[i] = interrupts[i] + 1
        /\ UNCHANGED <<inbox, rep, req, sent>>
    BY <1>3 DEF Interrupt, connVars, TypeOK
  <2>2. Locked(i) /\ ~Locked(i)' /\ Used(i)
    BY <1>3, <2>1, LockedAfter DEF Used, InCall
  <2>3. m \in InFlight(i)
    BY <2>1 DEF InFlight
  <2>4. sent[i] - m.n + 0 <= interrupts[i]
    BY <2>2, <2>3 DEF LagInv
  <2> QED
    BY <1>0, <2>1, <2>2, <2>3, <2>4
<1>4. ASSUME NEW t \in Threads, ReceiveEof(t), call[t].conn = i PROVE FALSE
  <2>1. srv'[i] = "closed" /\ ~Locked(i)'
    BY <1>4, LockedAfter DEF ReceiveEof, connVars
  <2> QED
    BY <2>1
<1>5. CASE \A t \in Threads : call[t].conn = i =>
               ~SendRequest(t) /\ ~ReceiveReply(t) /\ ~ReceiveEof(t) /\ ~Interrupt(t)
  <2>1. /\ interrupts'[i] = interrupts[i] /\ sent'[i] = sent[i]
        /\ Locked(i)' <=> Locked(i)
        /\ Used(i) \/ srv[i] = "unused"
    <3>1. interrupts'[i] = interrupts[i]
      BY <1>5, InterruptsSame
    <3>2. sent'[i] = sent[i]
      BY <1>5, SendFacts, WaitersStay
    <3>3. (Locked(i) => Locked(i)') /\ (Used(i) \/ srv[i] = "unused")
      BY <1>5, UsedAfter
    <3>4. Locked(i)' => Locked(i)
      BY <1>5, LockedAfter
    <3> QED
      BY <3>1, <3>2, <3>3, <3>4
  <2>2. PICK o \in InFlight(i) : o.n = m.n
    BY <1>5, InFlightAfter
  <2>3. srv[i] # "unused"
    <3>1. ASSUME srv[i] = "unused" PROVE FALSE
      BY <2>2, <3>1, EmptyQueue DEF ConnInv, InFlight
    <3> QED
      BY <3>1
  <2>4. srv[i] = "closed" => Locked(i)
    BY <2>1, ClosedStays
  <2>5. sent[i] - o.n + (IF Locked(i) THEN 0 ELSE 1) <= interrupts[i]
    BY <2>1, <2>3, <2>4 DEF LagInv
  <2> QED
    BY <2>1, <2>2, <2>5
<1> QED
  BY <1>1, <1>2, <1>3, <1>4, <1>5

\* A thread in a call began it with this step, or is in the same call as before and
\* has seen what it had seen, and the value of its key now if that has changed.
LEMMA CallAfter ==
    ASSUME TypeOK, ConnInv, [Next]_vars, NEW t \in Threads, InCall(t)', ~Call(t)
    PROVE  /\ InCall(t) /\ Operation(t)' = Operation(t) /\ call'[t].conn = call[t].conn
           /\ window[t] \subseteq window'[t]
           /\ store' = store \/ store'[call[t].key] \in window'[t]
<1> USE DEF connVars, threadVars
<1>1. CASE \E c \in Clients : Open(c) \/ Close(c) \/ Exit(c)
  BY <1>1 DEF Open, Close, Exit, InCall, Operation
<1>2. ASSUME NEW u \in Threads, u # t, Call(u)
      PROVE  /\ InCall(t) /\ Operation(t)' = Operation(t) /\ call'[t].conn = call[t].conn
             /\ window'[t] = window[t] /\ store' = store
  <2>1. PICK op \in Operations :
          /\ call' = [call EXCEPT ![u] = [conn |-> conn[Home[u]], n |-> 0, ep |-> op.ep,
                         key |-> op.key, value |-> op.value, large |-> op.large]]
          /\ window' = [window EXCEPT ![u] = IF op.ep = "query" THEN {store[op.key]} ELSE {}]
    BY <1>2 DEF Call
  <2>2. call'[t] = call[t] /\ window'[t] = window[t]
    BY <1>2, <2>1 DEF TypeOK
  <2>3. pc'[t] = pc[t] /\ store' = store
    BY <1>2 DEF Call, TypeOK
  <2> QED
    BY <2>2, <2>3 DEF InCall, Operation
<1>3. CASE \E u \in Threads :
             SendRequest(u) \/ ReceiveReply(u) \/ ReceiveEof(u) \/ Interrupt(u)
  <2>1. SameCalls
    BY <1>3, SameCallsThread
  <2>2. UNCHANGED <<store, window>>
    BY <1>3 DEF SendRequest, ReceiveReply, ReceiveEof, Interrupt, Finish
  <2> QED
    BY <2>1, <2>2 DEF SameCalls
<1>4. ASSUME NEW i \in Conns, HandleUpdate(i)
      PROVE  /\ InCall(t) /\ Operation(t)' = Operation(t) /\ call'[t].conn = call[t].conn
             /\ window[t] \subseteq window'[t]
             /\ store'[call[t].key] \in window'[t]
  BY <1>4 DEF HandleUpdate, Observe, InCall, Operation
<1>5. ASSUME NEW i \in Conns, EventLoop(i), ~HandleUpdate(i)
      PROVE  UNCHANGED <<pc, call, window, store>>
  BY <1>5 DEF EventLoop, Serve, Accept, HandleQuery, RejectRequest, RejectTail, Flush, PeerGone
<1>6. CASE Stop \/ Start \/ UNCHANGED vars
  BY <1>6 DEF Stop, Start, vars, InCall, Operation
<1> QED
  BY <1>1, <1>2, <1>3, <1>4, <1>5, <1>6 DEF Next, Library, InCall, Operation

\* A get under way has seen what its key holds.
LEMMA WindowKept == TypeOK /\ ConnInv /\ WindowInv /\ [Next]_vars => WindowInv'
<1> SUFFICES ASSUME TypeOK, ConnInv, WindowInv, [Next]_vars,
                    NEW t \in Threads, InCall(t)', call'[t].ep = "query"
             PROVE  store'[call'[t].key] \in window'[t]
  BY DEF WindowInv, InCall
<1>1. CASE Call(t)
  <2>1. PICK op \in Operations :
          /\ call' = [call EXCEPT ![t] = [conn |-> conn[Home[t]], n |-> 0, ep |-> op.ep,
                         key |-> op.key, value |-> op.value, large |-> op.large]]
          /\ window' = [window EXCEPT ![t] = IF op.ep = "query" THEN {store[op.key]} ELSE {}]
          /\ store' = store
    BY <1>1 DEF Call
  <2>2. /\ call'[t].ep = op.ep /\ call'[t].key = op.key
        /\ window'[t] = IF op.ep = "query" THEN {store[op.key]} ELSE {}
    BY <2>1 DEF TypeOK
  <2> QED
    BY <2>1, <2>2
<1>2. CASE ~Call(t)
  <2>1. /\ InCall(t) /\ Operation(t)' = Operation(t)
        /\ window[t] \subseteq window'[t]
        /\ store' = store \/ store'[call[t].key] \in window'[t]
    BY <1>2, CallAfter
  <2>2. call'[t].ep = call[t].ep /\ call'[t].key = call[t].key
    BY <2>1 DEF Operation
  <2> QED
    BY <2>1, <2>2 DEF WindowInv
<1> QED
  BY <1>1, <1>2

\* Requests and replies with the number of a waiting call belong to it.
LEMMA MatchKept ==
    /\ TypeOK /\ ConnInv /\ LockInv /\ CountInv /\ OrderInv /\ MatchInv /\ WindowInv
    /\ [Next]_vars /\ TypeOK'
    => MatchInv'
<1> SUFFICES ASSUME TypeOK, ConnInv, LockInv, CountInv, OrderInv, MatchInv, WindowInv,
                    [Next]_vars, TypeOK', NEW t \in Threads, pc'[t] = "wait"
             PROVE  LET i == call'[t].conn IN
                    /\ \A q \in Elems(req'[i]) \ {Junk} : q.n = call'[t].n =>
                          q.op.ep = call'[t].ep /\ q.op.key = call'[t].key
                            /\ q.op.value = call'[t].value
                    /\ \A r \in Elems(inbox'[i]) \cup Elems(rep'[i]) : r.n = call'[t].n =>
                          (IF call'[t].ep = "query" THEN r.value ELSE call'[t].value) \in window'[t]
  BY DEF MatchInv
<1> DEFINE i == call[t].conn
           k == call[t]
<1>1. CASE SendRequest(t)
  <2> DEFINE x == Request(sent[i] + 1, Operation(t))
  <2>1. /\ i \in Conns /\ pc[t] = "lock" /\ sent'[i] = sent[i] + 1
        /\ call'[t].conn = i /\ call'[t].n = sent[i] + 1 /\ Operation(t)' = Operation(t)
        /\ srv[i] # "closed" /\ rep' = rep /\ inbox' = inbox
    BY <1>1, SendFacts
  <2>2. /\ req[i] \in Seq(Requests \cup {Junk}) /\ sent[i] \in Nat
        /\ \A m \in InFlight(i) : m.n \in Nat /\ m.n <= sent[i]
    BY <2>1, NumbersAre DEF OrderInv
  <2>3. req'[i] = Append(req[i], x)
    BY <1>1, <2>1 DEF SendRequest, TypeOK, Operation
  <2>4. x \in Requests
    <3>1. sent[i] + 1 \in 1 .. MaxCalls
      BY <2>1, RoomToSend
    <3>2. Operation(t) \in Operations
      BY <2>1 DEF ConnInv, InCall
    <3> QED
      BY <3>1, <3>2 DEF Request, Requests
  <2>5. x.op = Operation(t)
    BY DEF Request
  <2> HIDE DEF x
  <2>6. Elems(req'[i]) = Elems(req[i]) \cup {x}
    BY <2>2, <2>3, <2>4, QueueAppend
  <2>7. \A m \in InFlight(i) : m.n # sent[i] + 1
    BY <2>2
  <2>8. /\ x.op.ep = call'[t].ep /\ x.op.key = call'[t].key /\ x.op.value = call'[t].value
    BY <2>1, <2>5 DEF Operation
  <2>9. \A q \in Elems(req'[i]) \ {Junk} : q.n = sent[i] + 1 => q = x
    BY <2>6, <2>7 DEF InFlight
  <2>10. \A r \in Elems(inbox'[i]) \cup Elems(rep'[i]) : r.n # sent[i] + 1
    BY <2>1, <2>7 DEF InFlight
  <2> HIDE DEF i
  <2> QED
    BY <2>1, <2>8, <2>9, <2>10
<1>2. CASE ~SendRequest(t)
  <2>1. /\ pc[t] = "wait" /\ call'[t] = k /\ i \in Conns
    <3>1. pc[t] = "wait" /\ call'[t] = k
      <4>1. CASE \E u \in Threads : SendRequest(u)
        BY <1>2, <4>1, SendFacts
      <4>2. CASE \A u \in Threads : ~SendRequest(u)
        BY <4>2, WaitersStay
      <4> QED
        BY <4>1, <4>2
    <3> QED
      BY <3>1 DEF ConnInv, InCall
  <2>2. window[t] \subseteq window'[t]
    BY <2>1, CallAfter DEF InCall, Call
  <2>3. /\ \A q \in Elems(req[i]) \ {Junk} : q.n = k.n =>
              q.op.ep = k.ep /\ q.op.key = k.key /\ q.op.value = k.value
        /\ \A r \in Elems(inbox[i]) \cup Elems(rep[i]) : r.n = k.n =>
              (IF k.ep = "query" THEN r.value ELSE k.value) \in window'[t]
    BY <2>1, <2>2 DEF MatchInv
  <2>4. /\ inbox[i] \in Seq(Replies) /\ rep[i] \in Seq(Replies)
        /\ req[i] \in Seq(Requests \cup {Junk})
    BY <2>1, NumbersAre
  <2>5. SUFFICES /\ \A q \in Elems(req'[i]) \ {Junk} : q.n = k.n =>
                       q.op.ep = k.ep /\ q.op.key = k.key /\ q.op.value = k.value
                 /\ \A r \in Elems(inbox'[i]) \cup Elems(rep'[i]) : r.n = k.n =>
                       (IF k.ep = "query" THEN r.value ELSE k.value) \in window'[t]
    BY <2>1
  <2>6. CASE inbox'[i] = inbox[i] /\ rep'[i] = rep[i] /\ req'[i] = req[i]
    BY <2>3, <2>6
  <2>7. ASSUME NEW u \in Threads, SendRequest(u), call[u].conn = i PROVE FALSE
    BY <2>1, <2>7, SendFacts DEF Locked
  <2>8. CASE inbox[i] # <<>> /\ inbox'[i] = Tail(inbox[i]) /\ rep'[i] = rep[i] /\ req'[i] = req[i]
    <3>1. Elems(inbox'[i]) \subseteq Elems(inbox[i])
      BY <2>4, <2>8, QueueTail
    <3> QED
      BY <2>3, <2>8, <3>1
  <2>9. CASE HandleQuery(i) \/ HandleUpdate(i)
    <3> DEFINE h == Head(req[i])
               v == IF h.op.ep = "query" THEN store[h.op.key] ELSE NoValue
               x == [n |-> h.n, ep |-> h.op.ep, value |-> v]
    <3>1. /\ req[i] # <<>> /\ inbox' = inbox /\ h.op.ep # "junk" /\ Reply(i, h, v)
      BY <2>9 DEF HandleQuery, HandleUpdate, Readable
    <3>2. /\ h \in Requests /\ h \in Elems(req[i]) \ {Junk}
          /\ \A rest \in Remainders(req[i]) : Elems(rest) \ {Junk} \subseteq Elems(req[i]) \ {Junk}
      BY <2>1, <3>1, HeadRequest
    <3>3. v \in Values \cup {NoValue}
      <4>1. h.op.key \in Keys
        BY <3>2, MessageTypes
      <4> QED
        BY <4>1 DEF TypeOK
    <3>4. x \in Replies
      BY <2>1, <3>1, <3>3, HeadRequest
    <3>5. rep'[i] = Append(rep[i], x) /\ req'[i] \in Remainders(req[i])
      BY <2>1, <3>1 DEF Reply, TypeOK
    <3>6. x.n = h.n /\ x.value = v
      OBVIOUS
    <3>7. ASSUME h.n = k.n PROVE (IF k.ep = "query" THEN v ELSE k.value) \in window'[t]
      <4>1. h.op.ep = k.ep /\ h.op.key = k.key /\ h.op.value = k.value
        BY <2>3, <3>2, <3>7
      <4>2. CASE HandleQuery(i)
        <5>1. h.op.ep = "query" /\ v = store[k.key] /\ k.ep = "query"
          BY <4>1, <4>2 DEF HandleQuery
        <5>2. store[k.key] \in window[t]
          BY <2>1, <5>1 DEF WindowInv, InCall
        <5> QED
          BY <2>2, <5>1, <5>2
      <4>3. CASE HandleUpdate(i)
        <5>1. h.op.ep = "update" /\ store' = [store EXCEPT ![h.op.key] = h.op.value] /\ Observe
          BY <4>3 DEF HandleUpdate, Updated
        <5>2. h.op.key \in Keys
          BY <3>2, MessageTypes
        <5>3. store'[k.key] = k.value
          BY <4>1, <5>1, <5>2 DEF TypeOK
        <5>4. store'[k.key] \in window'[t]
          BY <2>1, <5>1, SMTT(60) DEF Observe, InCall
        <5> QED
          BY <4>1, <5>1, <5>3, <5>4
      <4> QED
        BY <2>9, <4>2, <4>3
    <3> HIDE DEF x, v, h
    <3>8. Elems(rep'[i]) = Elems(rep[i]) \cup {x}
      BY <2>4, <3>4, <3>5, QueueAppend
    <3>9. Elems(req'[i]) \ {Junk} \subseteq Elems(req[i]) \ {Junk}
      BY <3>2, <3>5
    <3> QED
      BY <2>3, <3>1, <3>6, <3>7, <3>8, <3>9
  <2>10. CASE inbox'[i] = inbox[i] \o rep[i] /\ rep'[i] = <<>> /\ req'[i] = req[i]
    <3>1. Elems(inbox'[i]) = Elems(inbox[i]) \cup Elems(rep[i])
      BY <2>4, <2>10, QueueConcat
    <3> QED
      BY <2>3, <2>10, <3>1, EmptyQueue
  <2>11. CASE inbox'[i] = inbox[i] /\ rep'[i] = <<>> /\ req'[i] = <<>>
    BY <2>3, <2>11, EmptyQueue
  <2> HIDE DEF i, k
  <2> QED
    BY <2>1, <2>6, <2>7, <2>8, <2>9, <2>10, <2>11, QueueSteps DEF i
<1> QED
  BY <1>1, <1>2

(***************************************************************************)
(* Results.                                                                *)
(***************************************************************************)

\* Tags tell apart numbers that are closer than there are tags.
LEMMA TagsTellApart ==
    ASSUME NEW a \in Nat, NEW b \in Nat, a <= b, b - a < TagMod, Tag(a) = Tag(b)
    PROVE  a = b
<1> DEFINE T == TagMod
           x == a \div T
           y == b \div T
           d == y - x
<1>0. T \in Nat \ {0}
  BY TagAssumption
<1> HIDE DEF T
<1>1. /\ a = T * x + (a % T) /\ b = T * y + (b % T)
      /\ x \in Int /\ y \in Int /\ a % T \in Int /\ b % T \in Int
  BY <1>0
<1>2. a % T = b % T
  BY DEF Tag, T
<1> HIDE DEF x, y
<1>3. b - a = T * y - T * x
  BY <1>0, <1>1, <1>2
<1>4. T * y - T * x = T * d
  BY <1>0, <1>1
<1>5. d \in Int /\ 0 <= T * d /\ T * d < T
  BY <1>0, <1>1, <1>3, <1>4 DEF T
<1> HIDE DEF d
<1>6. ~(d >= 1)
  BY <1>0, <1>5
<1>7. ~(d <= -1)
  BY <1>0, <1>5
<1>8. d = 0
  BY <1>5, <1>6, <1>7
<1>9. T * d = 0
  BY <1>0, <1>8
<1> QED
  BY <1>1, <1>3, <1>4, <1>9

\* A call that has succeeded did so with this step, or is as it was.
LEMMA ResultAfter ==
    ASSUME TypeOK, ConnInv, ResultInv, [Next]_vars, NEW t \in Threads, ret'[t].status = "ok"
    PROVE  \/ LET r == Head(inbox[call[t].conn]) IN
              /\ ReceiveReply(t) /\ Matches(r, t) /\ ~InCall(t)'
              /\ ret'[t].n = r.n /\ ret'[t].value = r.value
              /\ call' = call /\ window' = window /\ interrupts' = interrupts
           \/ /\ ret'[t] = ret[t] /\ call'[t] = call[t] /\ window'[t] = window[t] /\ ~InCall(t)'
              /\ call[t].conn \in Conns
<1> USE DEF connVars, threadVars
<1>1. CASE \E c \in Clients : Open(c) \/ Close(c)
  BY <1>1 DEF Open, Close, ResultInv, InCall
<1>2. ASSUME NEW c \in Clients, Exit(c)
      PROVE  /\ ret'[t] = ret[t] /\ call'[t] = call[t] /\ window'[t] = window[t] /\ ~InCall(t)'
             /\ call[t].conn \in Conns
  <2>1. NoRet.status # "ok"
    BY DEF NoRet
  <2>2. Home[t] # c
    BY <1>2, <2>1 DEF Exit
  <2> QED
    BY <1>2, <2>2 DEF Exit, ResultInv, InCall
<1>3. ASSUME NEW u \in Threads, Call(u)
      PROVE  /\ ret'[t] = ret[t] /\ call'[t] = call[t] /\ window'[t] = window[t] /\ ~InCall(t)'
             /\ call[t].conn \in Conns
  <2>1. t # u
    BY <1>3 DEF Call, NoRet, TypeOK
  <2>2. PICK op \in Operations :
          /\ call' = [call EXCEPT ![u] = [conn |-> conn[Home[u]], n |-> 0, ep |-> op.ep,
                         key |-> op.key, value |-> op.value, large |-> op.large]]
          /\ window' = [window EXCEPT ![u] = IF op.ep = "query" THEN {store[op.key]} ELSE {}]
    BY <1>3 DEF Call
  <2>3. call'[t] = call[t] /\ window'[t] = window[t]
    BY <2>1, <2>2 DEF TypeOK
  <2>4. ret'[t] = ret[t] /\ pc'[t] = pc[t]
    BY <1>3, <2>1 DEF Call, TypeOK
  <2> QED
    BY <2>3, <2>4 DEF ResultInv, InCall
<1>4. ASSUME NEW u \in Threads, SendRequest(u)
      PROVE  /\ ret'[t] = ret[t] /\ call'[t] = call[t] /\ window'[t] = window[t] /\ ~InCall(t)'
             /\ call[t].conn \in Conns
  <2>1. u # t
    <3>1. Failed("lost").status # "ok" /\ ret[u].status = "none"
      BY <1>4, SendFacts DEF Failed, ConnInv, InCall
    <3>2. ret'[u] = ret[u] \/ ret'[u] = Failed("lost")
      BY <1>4 DEF SendRequest, Finish, TypeOK
    <3> QED
      BY <3>1, <3>2
  <2> QED
    BY <1>4, <2>1, SendFacts DEF ResultInv, InCall
<1>5. ASSUME NEW u \in Threads, u # t, ReceiveReply(u) \/ ReceiveEof(u) \/ Interrupt(u)
      PROVE  /\ ret'[t] = ret[t] /\ call'[t] = call[t] /\ window'[t] = window[t] /\ ~InCall(t)'
             /\ call[t].conn \in Conns
  <2>1. ret'[t] = ret[t] /\ pc'[t] = pc[t] /\ UNCHANGED <<call, window>>
    BY <1>5 DEF ReceiveReply, ReceiveEof, Interrupt, Finish, TypeOK
  <2> QED
    BY <2>1 DEF ResultInv, InCall
<1>6. ASSUME ReceiveEof(t) \/ Interrupt(t) PROVE FALSE
  <2>1. Failed("lost").status # "ok" /\ Failed("interrupted").status # "ok"
    BY DEF Failed
  <2> QED
    BY <1>6, <2>1 DEF ReceiveEof, Interrupt, Finish, TypeOK
<1>7. ASSUME ReceiveReply(t)
      PROVE  LET r == Head(inbox[call[t].conn]) IN
             /\ Matches(r, t) /\ ~InCall(t)'
             /\ ret'[t].n = r.n /\ ret'[t].value = r.value
             /\ call' = call /\ window' = window /\ interrupts' = interrupts
  <2> DEFINE r == Head(inbox[call[t].conn])
  <2>1. Failed("mismatch").status # "ok"
    BY DEF Failed
  <2>2. Matches(r, t) /\ ret'[t] = [status |-> "ok", n |-> r.n, value |-> r.value]
    BY <1>7, <2>1 DEF ReceiveReply, Finish, TypeOK
  <2> QED
    BY <1>7, <2>2 DEF ReceiveReply, Finish, TypeOK, InCall
<1>8. ASSUME NEW i \in Conns, EventLoop(i)
      PROVE  /\ ret'[t] = ret[t] /\ call'[t] = call[t] /\ window'[t] = window[t] /\ ~InCall(t)'
             /\ call[t].conn \in Conns
  <2>1. UNCHANGED <<pc, call, ret>>
    BY <1>8 DEF EventLoop, Serve, Accept, HandleQuery, HandleUpdate, RejectRequest, RejectTail, Flush, PeerGone
  <2>2. ~InCall(t) /\ call[t].conn \in Conns
    BY <2>1 DEF ResultInv
  <2>3. window'[t] = window[t]
    BY <1>8, <2>2 DEF EventLoop, Serve, Accept, HandleQuery, HandleUpdate, RejectRequest, RejectTail, Flush, PeerGone,
       Observe
  <2> QED
    BY <2>1, <2>2, <2>3 DEF InCall
<1>9. CASE Stop \/ Start \/ UNCHANGED vars
  BY <1>9 DEF Stop, Start, vars, ResultInv, InCall
<1> QED
  BY <1>1, <1>2, <1>3, <1>4, <1>5, <1>6, <1>7, <1>8, <1>9 DEF Next, Library

\* Results stay those of calls that are over.
LEMMA ResultKept == TypeOK /\ ConnInv /\ ResultInv /\ [Next]_vars => ResultInv'
<1> SUFFICES ASSUME TypeOK, ConnInv, ResultInv, [Next]_vars,
                    NEW t \in Threads, ret'[t].status = "ok"
             PROVE  ~InCall(t)' /\ call'[t].conn \in Conns
  BY DEF ResultInv, InCall
<1>1. ASSUME ReceiveReply(t) PROVE call[t].conn \in Conns
  BY <1>1 DEF ReceiveReply, ConnInv, InCall
<1> QED
  BY <1>1, ResultAfter

\* A reply whose tag matches answers the call it is taken for.
LEMMA TagsMatch ==
    ASSUME TypeOK, ConnInv, LockInv, OrderInv, LagInv, NEW t \in Threads, ReceiveReply(t),
           Matches(Head(inbox[call[t].conn]), t), interrupts[call[t].conn] < TagMod
    PROVE  /\ Head(inbox[call[t].conn]).n = call[t].n
           /\ Head(inbox[call[t].conn]) \in Elems(inbox[call[t].conn])
<1> DEFINE i == call[t].conn
           r == Head(inbox[i])
<1>1. pc[t] = "wait" /\ inbox[i] # <<>> /\ i \in Conns
  BY DEF ReceiveReply, ConnInv, InCall
<1>2. Locked(i) /\ Used(i) /\ call[t].n = sent[i]
  BY <1>1 DEF Locked, Used, InCall, LockInv
<1>3. r \in Elems(inbox[i])
  BY <1>1, NumbersAre, QueueTail
<1>4. r \in InFlight(i)
  BY <1>3 DEF InFlight
<1>5. r.n \in Nat /\ sent[i] \in Nat /\ r.n <= sent[i] /\ interrupts[i] \in Nat
  BY <1>1, <1>4, NumbersAre DEF OrderInv
<1>6. sent[i] - r.n + 0 <= interrupts[i]
  BY <1>1, <1>2, <1>4 DEF LagInv
<1>7. Tag(r.n) = Tag(sent[i])
  BY <1>2 DEF Matches
<1> HIDE DEF i, r
<1>8. r.n = sent[i]
  <2>1. sent[i] - r.n < TagMod
    BY <1>5, <1>6, TagAssumption DEF i
  <2> QED
    BY <1>5, <1>7, <2>1, TagsTellApart
<1> QED
  BY <1>2, <1>3, <1>8 DEF i, r

\* Interrupts are counted, never forgotten.
LEMMA InterruptsGrow ==
    ASSUME TypeOK, [Next]_vars, NEW i \in Conns
    PROVE  interrupts[i] <= interrupts'[i]
<1>0. interrupts[i] \in Nat
  BY NumbersAre
<1>1. CASE \E t \in Threads : Interrupt(t) /\ call[t].conn = i
  BY <1>0, <1>1 DEF Interrupt, TypeOK
<1>2. CASE \A t \in Threads : Interrupt(t) => call[t].conn # i
  BY <1>0, <1>2, InterruptsSame
<1> QED
  BY <1>1, <1>2

\* Calls that succeed have their own reply, and a current answer.
LEMMA AnswersKept ==
    /\ TypeOK /\ ConnInv /\ LockInv /\ OrderInv /\ LagInv /\ MatchInv /\ ResultInv
    /\ OwnReply /\ AnswersAreCurrent /\ [Next]_vars /\ TypeOK'
    => OwnReply' /\ AnswersAreCurrent'
<1> SUFFICES ASSUME TypeOK, ConnInv, LockInv, OrderInv, LagInv, MatchInv, ResultInv,
                    OwnReply, AnswersAreCurrent, [Next]_vars, TypeOK',
                    NEW t \in Threads, ret'[t].status = "ok",
                    interrupts'[call'[t].conn] < TagMod
             PROVE  /\ ret'[t].n = call'[t].n
                    /\ (IF call'[t].ep = "query" THEN ret'[t].value ELSE call'[t].value)
                          \in window'[t]
  BY DEF OwnReply, AnswersAreCurrent
<1>1. CASE LET r == Head(inbox[call[t].conn]) IN
           /\ ReceiveReply(t) /\ Matches(r, t)
           /\ ret'[t].n = r.n /\ ret'[t].value = r.value
           /\ call' = call /\ window' = window /\ interrupts' = interrupts
  <2> DEFINE r == Head(inbox[call[t].conn])
  <2>1. r.n = call[t].n /\ r \in Elems(inbox[call[t].conn])
    BY <1>1, TagsMatch
  <2>2. pc[t] = "wait"
    BY <1>1 DEF ReceiveReply
  <2>3. (IF call[t].ep = "query" THEN r.value ELSE call[t].value) \in window[t]
    BY <2>1, <2>2 DEF MatchInv
  <2> QED
    BY <1>1, <2>1, <2>3
<1>2. CASE /\ ret'[t] = ret[t] /\ call'[t] = call[t] /\ window'[t] = window[t]
           /\ call[t].conn \in Conns
  <2> DEFINE i == call[t].conn
  <2>1. interrupts[i] \in Nat /\ interrupts'[i] \in 0 .. MaxCalls /\ interrupts[i] <= interrupts'[i]
    BY <1>2, NumbersAre, InterruptsGrow DEF TypeOK
  <2>2. interrupts[i] < TagMod
    BY <1>2, <2>1, TagAssumption, BoundAssumption
  <2> QED
    BY <1>2, <2>2 DEF OwnReply, AnswersAreCurrent
<1> QED
  BY <1>1, <1>2, ResultAfter

(***************************************************************************)
(* The results.                                                            *)
(***************************************************************************)

\* The initial states: no connection, no call.
LEMMA InitInductive == Init => Inductive
<1> SUFFICES ASSUME Init PROVE Inductive
  OBVIOUS
<1>0. /\ 0 \in 0 .. MaxConns /\ 0 \in 0 .. MaxCalls /\ 0 \in Nat
      /\ \A S : <<>> \in Seq(S)
  BY BoundAssumption
<1>1. TypeOK
  BY <1>0, MessageTypes DEF Init, TypeOK
<1>2. ConnInv
  BY DEF Init, ConnInv, InCall
<1>3. LockInv /\ MatchInv /\ WindowInv
  BY DEF Init, LockInv, MatchInv, WindowInv, InCall
<1>4. CountInv
  <2> SUFFICES ASSUME NEW i \in Conns
               PROVE  /\ sent[i] + Cardinality(Queued(i)) <= MaxCalls
                      /\ interrupts[i] + (IF Locked(i) THEN 1 ELSE 0) <= sent[i]
    BY DEF CountInv
  <2>1. Queued(i) = {} /\ ~Locked(i) /\ sent[i] = 0 /\ interrupts[i] = 0
    BY DEF Init, Queued, Locked
  <2>2. Cardinality(Queued(i)) = 0
    BY <2>1, FS_EmptySet
  <2> QED
    BY <2>1, <2>2, BoundAssumption
<1>5. OrderInv /\ LagInv
  <2>1. \A i \in Conns : inbox[i] = <<>> /\ rep[i] = <<>> /\ req[i] = <<>> /\ InFlight(i) = {}
    BY EmptyQueue DEF Init, InFlight
  <2> QED
    BY <2>1, EmptyQueue DEF OrderInv, LagInv
<1>6. ResultInv /\ OwnReply /\ AnswersAreCurrent
  <2>1. \A t \in Threads : ret[t].status = "none"
    BY DEF Init, NoRet
  <2> QED
    BY <2>1 DEF ResultInv, OwnReply, AnswersAreCurrent
<1> QED
  BY <1>1, <1>2, <1>3, <1>4, <1>5, <1>6 DEF Inductive

\* Every step keeps the invariant.
LEMMA NextInductive == Inductive /\ [Next]_vars => Inductive'
<1> SUFFICES ASSUME Inductive, [Next]_vars PROVE Inductive'
  OBVIOUS
<1>0. /\ TypeOK /\ ConnInv /\ LockInv /\ CountInv /\ OrderInv /\ LagInv /\ MatchInv /\ WindowInv
      /\ ResultInv /\ OwnReply /\ AnswersAreCurrent
  BY DEF Inductive
<1>1. TypeOK'
  BY <1>0, TypeKept
<1>2. ConnInv' /\ LockInv' /\ CountInv'
  BY <1>0, ConnKept, LockKept, CountKept
<1>3. OrderInv' /\ LagInv'
  BY <1>0, <1>1, OrderKept, LagKept
<1>4. MatchInv' /\ WindowInv'
  BY <1>0, <1>1, MatchKept, WindowKept
<1>5. ResultInv' /\ OwnReply' /\ AnswersAreCurrent'
  BY <1>0, <1>1, ResultKept, AnswersKept
<1> QED
  BY <1>1, <1>2, <1>3, <1>4, <1>5 DEF Inductive

\* The invariant holds in every state the clients and the daemon can reach together.
THEOREM InductiveInvariant == Spec => []Inductive
BY InitInductive, NextInductive, PTL DEF Spec

\* Every variable keeps its type; in particular no connection sees more interrupts
\* than requests, nor more requests than calls were admitted.
THEOREM TypeCorrect == Spec => []TypeOK
<1>1. Inductive => TypeOK
  BY DEF Inductive
<1> QED
  BY <1>1, InductiveInvariant, PTL

\* A call that succeeds has the reply to its own request, as long as fewer calls
\* than there are tags were interrupted on its connection (sendPacketWithReply).
THEOREM AlwaysOwnReply == Spec => []OwnReply
<1>1. Inductive => OwnReply
  BY DEF Inductive
<1> QED
  BY <1>1, InductiveInvariant, PTL

\* Under the same condition a get returns a value its key had during the call, and
\* a set was committed during the call (handleClientRead, setKey, replyTo).
THEOREM AnswersAlwaysCurrent == Spec => []AnswersAreCurrent
<1>1. Inductive => AnswersAreCurrent
  BY DEF Inductive
<1> QED
  BY <1>1, InductiveInvariant, PTL

\* The numbers of a sequence of messages, one by one.
LEMMA NumbersOf ==
    ASSUME NEW S, NEW s \in Seq(S), \A m \in Elems(s) : m.n \in Nat
    PROVE  /\ Numbers(s) \in Seq(Nat) /\ Len(Numbers(s)) = Len(s)
           /\ \A j \in 1 .. Len(s) : Numbers(s)[j] = s[j].n /\ s[j] \in Elems(s)
<1>1. Len(s) \in Nat /\ \A j \in 1 .. Len(s) : s[j] \in Elems(s) /\ s[j].n \in Nat
  BY LenProperties DEF Elems
<1>2. Numbers(s) \in [1 .. Len(s) -> Nat]
  BY <1>1 DEF Numbers
<1>3. Numbers(s) \in Seq(Nat) /\ Len(Numbers(s)) = Len(s)
  BY <1>1, <1>2, IsASeq, LenProperties
<1> QED
  BY <1>1, <1>3 DEF Numbers

\* The requests that will be answered have no rest of a request among them.
LEMMA UnansweredOf ==
    ASSUME NEW s \in Seq(Requests \cup {Junk}), Increasing(s)
    PROVE  /\ Unanswered(s) \in Seq(Requests \cup {Junk})
           /\ Increasing(Unanswered(s))
           /\ Elems(Unanswered(s)) \subseteq Elems(s) \ {Junk}
<1>0. \A m \in Elems(s) : m.n \in Nat
  <2>1. \A m \in Requests \cup {Junk} : m.n \in Nat
    BY MessageTypes, BoundAssumption
  <2> QED
    BY <2>1, ElemsAre
<1>1. CASE s = <<>>
  <2>1. Unanswered(s) = <<>>
    BY <1>1 DEF Unanswered
  <2> QED
    BY <1>1, <2>1, EmptyQueue
<1>2. CASE s # <<>> /\ Head(s) = Junk
  <2>1. Unanswered(s) = Tail(s)
    BY <1>2 DEF Unanswered
  <2>2. /\ Tail(s) \in Seq(Requests \cup {Junk}) /\ Increasing(Tail(s))
        /\ Elems(Tail(s)) \subseteq Elems(s) /\ \A m \in Elems(Tail(s)) : Junk.n < m.n
    BY <1>2, QueueTail
  <2>3. Junk \notin Elems(Tail(s))
    BY <2>2, MessageTypes
  <2> QED
    BY <2>1, <2>2, <2>3
<1>3. CASE s # <<>> /\ Head(s) # Junk
  <2>1. Unanswered(s) = s
    BY <1>3 DEF Unanswered
  <2>2. Len(s) \in Nat /\ Len(s) # 0 /\ Head(s) = s[1]
    BY <1>3, LenProperties, EmptySeq, HeadTailProperties
  <2>3. ASSUME NEW j \in 1 .. Len(s) PROVE s[j] # Junk
    <3>1. CASE j = 1
      BY <1>3, <2>2, <3>1
    <3>2. CASE j # 1
      <4>1. 1 \in 1 .. Len(s) /\ 1 < j
        BY <2>2, <2>3, <3>2
      <4>2. s[1].n < s[j].n
        BY <4>1 DEF Increasing
      <4>3. s[1].n \in Nat /\ s[j].n \in Nat
        BY <1>0, <4>1 DEF Elems
      <4>4. s[j].n # 0
        BY <4>2, <4>3
      <4> QED
        BY <4>4, MessageTypes
    <3> QED
      BY <3>1, <3>2
  <2>4. Junk \notin Elems(s)
    BY <2>3 DEF Elems
  <2> QED
    BY <2>1, <2>4
<1> QED
  BY <1>1, <1>2, <1>3

\* One rising sequence of numbers after another.
LEMMA RisingConcat ==
    ASSUME NEW s \in Seq(Nat), NEW t \in Seq(Nat),
           \A j, k \in 1 .. Len(s) : j < k => s[j] < s[k],
           \A j, k \in 1 .. Len(t) : j < k => t[j] < t[k],
           \A j \in 1 .. Len(s), k \in 1 .. Len(t) : s[j] < t[k]
    PROVE  /\ s \o t \in Seq(Nat)
           /\ \A j, k \in 1 .. Len(s \o t) : j < k => (s \o t)[j] < (s \o t)[k]
           /\ \A j \in 1 .. Len(s \o t) :
                 \/ \E k \in 1 .. Len(s) : (s \o t)[j] = s[k]
                 \/ \E k \in 1 .. Len(t) : (s \o t)[j] = t[k]
<1> DEFINE K == Len(s)
           L == Len(t)
           e == s \o t
<1>1. /\ K \in Nat /\ L \in Nat /\ e \in Seq(Nat) /\ Len(e) = K + L
      /\ \A j \in 1 .. K + L : e[j] = IF j <= K THEN s[j] ELSE t[j - K]
  BY ConcatProperties, LenProperties
<1>2. /\ \A j, k \in 1 .. K : j < k => s[j] < s[k]
      /\ \A j, k \in 1 .. L : j < k => t[j] < t[k]
      /\ \A j \in 1 .. K, k \in 1 .. L : s[j] < t[k]
  OBVIOUS
<1> HIDE DEF K, L, e
<1>3. ASSUME NEW j \in 1 .. K + L, NEW k \in 1 .. K + L, j < k PROVE e[j] < e[k]
  <2>1. CASE k <= K
    <3>1. j \in 1 .. K /\ k \in 1 .. K /\ j <= K
      BY <1>1, <1>3, <2>1
    <3> QED
      BY <1>1, <1>2, <1>3, <2>1, <3>1
  <2>2. CASE ~(k <= K) /\ j <= K
    <3>1. j \in 1 .. K /\ k - K \in 1 .. L
      BY <1>1, <1>3, <2>2
    <3> QED
      BY <1>1, <1>2, <2>2, <3>1
  <2>3. CASE ~(j <= K)
    <3>1. j - K \in 1 .. L /\ k - K \in 1 .. L /\ j - K < k - K /\ ~(k <= K)
      BY <1>1, <1>3, <2>3
    <3> QED
      BY <1>1, <1>2, <2>3, <3>1
  <2> QED
    BY <2>1, <2>2, <2>3
<1>4. ASSUME NEW j \in 1 .. K + L
      PROVE  (\E k \in 1 .. K : e[j] = s[k]) \/ (\E k \in 1 .. L : e[j] = t[k])
  <2>1. CASE j <= K
    BY <1>1, <2>1
  <2>2. CASE ~(j <= K)
    <3>1. j - K \in 1 .. L
      BY <1>1, <2>2
    <3> QED
      BY <1>1, <2>2, <3>1
  <2> QED
    BY <2>1, <2>2
<1> QED
  BY <1>1, <1>3, <1>4 DEF K, L, e

\* The pipeline of a connection rises, and holds numbers of messages on their way.
LEMMA PipelineRises ==
    ASSUME TypeOK, OrderInv, NEW i \in Conns
    PROVE  /\ \A j, k \in 1 .. Len(Pipeline(i)) : j < k => Pipeline(i)[j] < Pipeline(i)[k]
           /\ \A j \in 1 .. Len(Pipeline(i)) : \E m \in InFlight(i) : Pipeline(i)[j] = m.n
<1> DEFINE u == Unanswered(req[i])
           a == Numbers(inbox[i])
           b == Numbers(rep[i])
           c == Numbers(u)
<1>1. /\ inbox[i] \in Seq(Replies) /\ rep[i] \in Seq(Replies)
      /\ req[i] \in Seq(Requests \cup {Junk})
      /\ \A m \in Elems(inbox[i]) \cup Elems(rep[i]) \cup Elems(req[i]) : m.n \in Nat
  BY NumbersAre
<1>2. /\ Increasing(inbox[i]) /\ Increasing(rep[i]) /\ Increasing(req[i])
      /\ \A m \in Elems(inbox[i]), r \in Elems(rep[i]) : m.n < r.n
      /\ \A m \in Elems(inbox[i]) \cup Elems(rep[i]), q \in Elems(req[i]) \ {Junk} : m.n < q.n
  BY DEF OrderInv
<1>3. /\ u \in Seq(Requests \cup {Junk}) /\ Increasing(u)
      /\ Elems(u) \subseteq Elems(req[i]) \ {Junk}
  BY <1>1, <1>2, UnansweredOf
<1> HIDE DEF u
<1>4. /\ a \in Seq(Nat) /\ Len(a) = Len(inbox[i])
      /\ \A j \in 1 .. Len(a) : a[j] = inbox[i][j].n /\ inbox[i][j] \in Elems(inbox[i])
  BY <1>1, NumbersOf
<1>5. /\ b \in Seq(Nat) /\ Len(b) = Len(rep[i])
      /\ \A j \in 1 .. Len(b) : b[j] = rep[i][j].n /\ rep[i][j] \in Elems(rep[i])
  BY <1>1, NumbersOf
<1>6. /\ c \in Seq(Nat) /\ Len(c) = Len(u)
      /\ \A j \in 1 .. Len(c) : c[j] = u[j].n /\ u[j] \in Elems(u)
  BY <1>1, <1>3, NumbersOf
<1> HIDE DEF a, b, c
<1>7. /\ \A j, k \in 1 .. Len(a) : j < k => a[j] < a[k]
      /\ \A j, k \in 1 .. Len(b) : j < k => b[j] < b[k]
      /\ \A j, k \in 1 .. Len(c) : j < k => c[j] < c[k]
      /\ \A j \in 1 .. Len(a), k \in 1 .. Len(b) : a[j] < b[k]
  <2>1. \A j, k \in 1 .. Len(a) : j < k => a[j] < a[k]
    BY <1>2, <1>4 DEF Increasing
  <2>2. \A j, k \in 1 .. Len(b) : j < k => b[j] < b[k]
    BY <1>2, <1>5 DEF Increasing
  <2>3. \A j, k \in 1 .. Len(c) : j < k => c[j] < c[k]
    BY <1>3, <1>6 DEF Increasing
  <2>4. \A j \in 1 .. Len(a), k \in 1 .. Len(b) : a[j] < b[k]
    BY <1>2, <1>4, <1>5
  <2> QED
    BY <2>1, <2>2, <2>3, <2>4
<1> DEFINE d == a \o b
<1>8. /\ d \in Seq(Nat)
      /\ \A j, k \in 1 .. Len(d) : j < k => d[j] < d[k]
      /\ \A j \in 1 .. Len(d) : \/ \E k \in 1 .. Len(a) : d[j] = a[k]
                                \/ \E k \in 1 .. Len(b) : d[j] = b[k]
  BY <1>4, <1>5, <1>7, RisingConcat
<1> HIDE DEF d
<1>9. \A j \in 1 .. Len(d) : \E m \in Elems(inbox[i]) \cup Elems(rep[i]) : d[j] = m.n
  <2> SUFFICES ASSUME NEW j \in 1 .. Len(d)
               PROVE  \E m \in Elems(inbox[i]) \cup Elems(rep[i]) : d[j] = m.n
    OBVIOUS
  <2>1. ASSUME NEW k \in 1 .. Len(a), d[j] = a[k]
        PROVE  \E m \in Elems(inbox[i]) \cup Elems(rep[i]) : d[j] = m.n
    BY <1>4, <2>1
  <2>2. ASSUME NEW k \in 1 .. Len(b), d[j] = b[k]
        PROVE  \E m \in Elems(inbox[i]) \cup Elems(rep[i]) : d[j] = m.n
    BY <1>5, <2>2
  <2> QED
    BY <1>8, <2>1, <2>2
<1>10. \A j \in 1 .. Len(d), k \in 1 .. Len(c) : d[j] < c[k]
  BY <1>2, <1>3, <1>6, <1>9
<1> DEFINE e == d \o c
<1>11. /\ \A j, k \in 1 .. Len(e) : j < k => e[j] < e[k]
       /\ \A j \in 1 .. Len(e) : \/ \E k \in 1 .. Len(d) : e[j] = d[k]
                                 \/ \E k \in 1 .. Len(c) : e[j] = c[k]
  BY <1>6, <1>7, <1>8, <1>10, RisingConcat
<1>12. e = Pipeline(i)
  BY DEF Pipeline, e, d, c, b, a, u
<1> HIDE DEF e
<1>13. ASSUME NEW j \in 1 .. Len(e) PROVE \E m \in InFlight(i) : e[j] = m.n
  <2>1. ASSUME NEW k \in 1 .. Len(d), e[j] = d[k] PROVE \E m \in InFlight(i) : e[j] = m.n
    BY <1>9, <2>1 DEF InFlight
  <2>2. ASSUME NEW k \in 1 .. Len(c), e[j] = c[k] PROVE \E m \in InFlight(i) : e[j] = m.n
    BY <1>3, <1>6, <2>2 DEF InFlight
  <2> QED
    BY <1>11, <2>1, <2>2
<1> QED
  BY <1>11, <1>12, <1>13

\* No request is ever answered twice or out of order, whatever is interrupted,
\* discarded or dropped (handleClientRead, replyTo).
THEOREM AlwaysOrdered == Spec => []PipelineOrdered
<1>1. Inductive => PipelineOrdered
  BY PipelineRises DEF Inductive, PipelineOrdered
<1> QED
  BY <1>1, InductiveInvariant, PTL

\* A reply on its way never lags behind the latest request by more than the calls
\* that gave up waiting, which is what 8 bit tags rely on (sendPacketWithReply).
THEOREM LagAlwaysBounded == Spec => []LagBounded
<1>1. Inductive => LagBounded
  <2> SUFFICES ASSUME Inductive, NEW i \in Conns, NEW j \in 1 .. Len(Pipeline(i)),
                      HasPeer(i), srv[i] = "closed" => Locked(i)
               PROVE  sent[i] - Pipeline(i)[j] + (IF Locked(i) THEN 0 ELSE 1) <= interrupts[i]
    BY DEF LagBounded
  <2>1. PICK m \in InFlight(i) : Pipeline(i)[j] = m.n
    BY PipelineRises DEF Inductive
  <2>2. Used(i)
    BY DEF Used
  <2>3. sent[i] - m.n + (IF Locked(i) THEN 0 ELSE 1) <= interrupts[i]
    BY <2>2 DEF Inductive, LagInv
  <2> QED
    BY <2>1, <2>3
<1> QED
  BY <1>1, InductiveInvariant, PTL

(***************************************************************************)
(* No thread waits for nothing.                                            *)
(***************************************************************************)

\* Something is still to happen on connection i that lets its caller return.
Pending(i) ==
    \/ inbox[i] # <<>>
    \/ srv[i] = "closed"
    \/ up /\ srv[i] \in {"backlog", "open"} /\ (req[i] \notin {<<>>, <<Junk>>} \/ rep[i] # <<>>)

\* A daemon that is down has no connection, and a thread waits only where there is a
\* reply to read, a connection that was closed, or a daemon with work to do.
NeverStuck ==
    /\ ~up => \A i \in Conns : srv[i] \in {"unused", "closed"}
    /\ \A t \in Threads : pc[t] = "wait" => Pending(call[t].conn)

\* A queue to which a message is added is not empty.
LEMMA AppendNotEmpty == ASSUME NEW S, NEW s \in Seq(S), NEW x PROVE Append(s, x) # <<>>
<1>1. s \in Seq(S \cup {x})
  BY SeqMonotonic
<1>2. Len(Append(s, x)) = Len(s) + 1 /\ Len(s) \in Nat
  BY <1>1, AppendProperties, LenProperties
<1>3. Len(Append(s, x)) # 0
  BY <1>2
<1> QED
  BY <1>3, EmptySeq

\* A queue to which a request is added is one that the daemon reads.
LEMMA AppendIsReadable ==
    ASSUME NEW s \in Seq(Requests \cup {Junk}), NEW x, x # Junk
    PROVE  Append(s, x) \notin {<<>>, <<Junk>>}
<1>1. Append(s, x) # <<>>
  BY AppendNotEmpty
<1>2. ASSUME Append(s, x) = <<Junk>> PROVE FALSE
  <2>1. s \in Seq(Requests \cup {Junk, x})
    BY SeqMonotonic
  <2>2. /\ Len(s) \in Nat /\ Len(Append(s, x)) = Len(s) + 1
        /\ Append(s, x)[Len(s) + 1] = x
    BY <2>1, AppendProperties, LenProperties
  <2>3. Len(Append(s, x)) = 1 /\ Append(s, x)[1] = Junk
    BY <1>2
  <2>4. Len(s) + 1 = 1
    BY <2>2, <2>3
  <2> QED
    BY <2>2, <2>3, <2>4
<1> QED
  BY <1>1, <1>2

\* What the daemon does on a connection leaves something pending there.
LEMMA DaemonKeepsPending ==
    ASSUME TypeOK, NEW j \in Conns, EventLoop(j), NEW i \in Conns, Pending(i)
    PROVE  Pending(i)'
<1>1. /\ inbox \in [Conns -> Seq(Replies)] /\ rep \in [Conns -> Seq(Replies)]
      /\ srv \in [Conns -> {"unused", "backlog", "open", "closed"}]
      /\ DOMAIN req = Conns
  BY DEF TypeOK
<1>2. CASE Accept(j)
  BY <1>1, <1>2 DEF Accept, Pending
<1>3. ASSUME NEW m, NEW v, up' = up, inbox' = inbox, Reply(j, m, v), srv[j] = "open", up
      PROVE  Pending(i)'
  <2>1. srv' = srv /\ \A k \in Conns \ {j} : req'[k] = req[k] /\ rep'[k] = rep[k]
    BY <1>1, <1>3 DEF Reply
  <2>2. \A r : Append(rep[j], r) # <<>>
    <3>1. rep[j] \in Seq(Replies)
      BY <1>1
    <3> QED
      BY <3>1, AppendNotEmpty
  <2>3. rep'[j] # <<>>
    BY <1>1, <1>3, <2>2 DEF Reply
  <2> QED
    BY <1>3, <2>1, <2>3 DEF Pending
<1>4. CASE HandleQuery(j)
  BY <1>3, <1>4 DEF HandleQuery, Readable
<1>5. CASE HandleUpdate(j)
  BY <1>3, <1>5 DEF HandleUpdate, Readable
<1>6. CASE RejectRequest(j) \/ RejectTail(j) \/ PeerGone(j)
  BY <1>1, <1>6 DEF RejectRequest, RejectTail, PeerGone, Drop, Pending
<1>7. CASE Flush(j)
  <2>1. /\ \A k \in Conns \ {j} : inbox'[k] = inbox[k] /\ rep'[k] = rep[k]
        /\ inbox'[j] = inbox[j] \o rep[j] /\ rep[j] # <<>>
        /\ UNCHANGED <<up, srv, req>>
    BY <1>1, <1>7 DEF Flush
  <2>2. inbox'[j] # <<>>
    <3>1. inbox[j] \in Seq(Replies) /\ rep[j] \in Seq(Replies)
      BY <1>1
    <3>2. Len(inbox[j] \o rep[j]) = Len(inbox[j]) + Len(rep[j]) /\ Len(rep[j]) # 0
      BY <2>1, <3>1, ConcatProperties, EmptySeq
    <3>3. Len(inbox[j]) \in Nat /\ Len(rep[j]) \in Nat
      BY <3>1, LenProperties
    <3>4. Len(inbox[j] \o rep[j]) # 0
      <4> DEFINE m == Len(inbox[j])
                 n == Len(rep[j])
      <4>1. m \in Nat /\ n \in Nat /\ n # 0 /\ Len(inbox[j] \o rep[j]) = m + n
        BY <3>2, <3>3
      <4> HIDE DEF m, n
      <4>2. m + n # 0
        BY <4>1
      <4> QED
        BY <4>1, <4>2
    <3> QED
      BY <2>1, <3>4, EmptySeq
  <2> QED
    BY <2>1, <2>2 DEF Pending
<1> QED
  BY <1>2, <1>4, <1>5, <1>6, <1>7 DEF EventLoop, Serve

\* What other processes and threads do leaves something pending for a thread that
\* waits: none of them reads its replies, as they would need its lock.
LEMMA ClientsKeepPending ==
    ASSUME TypeOK, LockInv, NEW t \in Threads, pc[t] = "wait", pc'[t] = "wait",
           NEW i \in Conns, call[t].conn = i, srv[i] # "unused", Pending(i),
           \/ \E c \in Clients : Open(c) \/ Close(c) \/ Exit(c)
           \/ \E u \in Threads : Library(u)
    PROVE  Pending(i)'
<1>2. /\ inbox \in [Conns -> Seq(Replies)] /\ DOMAIN srv = Conns
      /\ req \in [Conns -> Seq(Requests \cup {Junk})] /\ pc \in [Threads -> {"idle", "lock", "wait"}]
  BY DEF TypeOK
<1>3. ASSUME NEW c \in Clients, Open(c) PROVE Pending(i)'
  <2>1. srv'[i] = srv[i] /\ UNCHANGED <<up, req, rep, inbox>>
    BY <1>2, <1>3 DEF Open
  <2> QED
    BY <2>1 DEF Pending
<1>4. ASSUME NEW c \in Clients, Close(c) \/ Exit(c) PROVE Pending(i)'
  BY <1>4 DEF Close, Exit, connVars, Pending
<1>5. ASSUME NEW u \in Threads, Call(u) \/ Interrupt(u) \/ ReceiveEof(u) PROVE Pending(i)'
  BY <1>5 DEF Call, Interrupt, ReceiveEof, connVars, Pending
<1>6. ASSUME NEW u \in Threads, SendRequest(u) PROVE Pending(i)'
  <2>1. UNCHANGED <<up, srv, rep, inbox>>
    BY <1>6 DEF SendRequest
  <2>2. req'[i] \notin {<<>>, <<Junk>>} \/ req'[i] = req[i]
    <3>1. \A n, op : op.ep # "junk" => Append(req[i], Request(n, op)) \notin {<<>>, <<Junk>>}
      <4>1. req[i] \in Seq(Requests \cup {Junk})
        BY <1>2
      <4>2. \A n, op : Request(n, op).op = op
        BY DEF Request
      <4> QED
        BY <4>1, <4>2, AppendIsReadable, MessageTypes
    <3>2. call[u].ep # "junk"
      BY DEF TypeOK, Calls
    <3>3. \/ req'[i] = req[i]
          \/ \E n, op : op.ep = call[u].ep /\ req'[i] = Append(req[i], Request(n, op))
      <4> DEFINE o == Operation(u)
      <4>1. o.ep = call[u].ep
        BY DEF Operation
      <4>2. \/ req'[i] = req[i]
            \/ req'[i] = Append(req[i], Request(sent[i] + 1, o))
        BY <1>2, <1>6 DEF SendRequest, Operation
      <4> HIDE DEF o
      <4> QED
        BY <4>1, <4>2
    <3> QED
      BY <3>1, <3>2, <3>3
  <2> QED
    BY <2>1, <2>2 DEF Pending
<1>7. ASSUME NEW u \in Threads, ReceiveReply(u) PROVE Pending(i)'
  <2>1. pc[u] = "wait" /\ pc'[u] = "idle"
    BY <1>2, <1>7 DEF ReceiveReply, Finish
  <2>2. call[u].conn # i
    BY <2>1 DEF LockInv
  <2>3. inbox'[i] = inbox[i] /\ UNCHANGED <<up, srv, req, rep>>
    BY <1>2, <1>7, <2>2 DEF ReceiveReply
  <2> QED
    BY <2>3 DEF Pending
<1> QED
  BY <1>3, <1>4, <1>5, <1>6, <1>7 DEF Library

\* A thread that starts to wait has sent its request to a daemon that is up.
LEMMA SentIsPending ==
    ASSUME TypeOK, NeverStuck, NEW t \in Threads, SendRequest(t), pc'[t] = "wait",
           NEW i \in Conns, call[t].conn = i, srv[i] # "unused"
    PROVE  call'[t].conn = i /\ Pending(i)'
<1>2. /\ srv \in [Conns -> {"unused", "backlog", "open", "closed"}]
      /\ req \in [Conns -> Seq(Requests \cup {Junk})]
      /\ pc \in [Threads -> {"idle", "lock", "wait"}] /\ call \in [Threads -> Calls]
  BY DEF TypeOK
<1>3. call'[t].conn = i /\ UNCHANGED <<up, srv>>
  BY <1>2 DEF SendRequest, Calls
<1>4. srv[i] # "closed"
  BY <1>2 DEF SendRequest, Finish
<1>5. up /\ srv[i] \in {"backlog", "open"}
  BY <1>2, <1>4 DEF NeverStuck
<1>6. req'[i] \notin {<<>>, <<Junk>>}
  <2>1. \A n, op : op.ep # "junk" => Append(req[i], Request(n, op)) \notin {<<>>, <<Junk>>}
    <3>1. req[i] \in Seq(Requests \cup {Junk})
      BY <1>2
    <3>2. \A n, op : Request(n, op).op = op
      BY DEF Request
    <3> QED
      BY <3>1, <3>2, AppendIsReadable, MessageTypes
  <2>2. call[t].ep # "junk"
    BY <1>2 DEF Calls
  <2>3. \E n, op : op.ep = call[t].ep /\ req'[i] = Append(req[i], Request(n, op))
    <3> DEFINE o == Operation(t)
    <3>1. o.ep = call[t].ep
      BY DEF Operation
    <3>2. req'[i] = Append(req[i], Request(sent[i] + 1, o))
      BY <1>2, <1>4 DEF SendRequest, Operation
    <3> HIDE DEF o
    <3> QED
      BY <3>1, <3>2
  <2> QED
    BY <2>1, <2>2, <2>3
<1> QED
  BY <1>3, <1>5, <1>6 DEF Pending

\* Who waits after a step waited before it, on the same connection, or has sent.
LEMMA WaitersAfter ==
    ASSUME TypeOK, [Next]_vars, NEW t \in Threads, pc'[t] = "wait"
    PROVE  \/ SendRequest(t)
           \/ pc[t] = "wait" /\ call'[t].conn = call[t].conn
<1> USE DEF TypeOK
<1>1. CASE \E c \in Clients : Open(c) \/ Close(c) \/ Exit(c)
  BY <1>1, ZenonT(60) DEF Open, Close, Exit, threadVars
<1>2. ASSUME NEW u \in Threads, Library(u), u # t
      PROVE  pc[t] = "wait" /\ call'[t].conn = call[t].conn
  BY <1>2 DEF Library, Call, SendRequest, ReceiveReply, ReceiveEof, Interrupt, Finish
<1>3. CASE Library(t)
  BY <1>3 DEF Library, Call, ReceiveReply, ReceiveEof, Interrupt, Finish
<1>4. CASE \E i \in Conns : EventLoop(i)
  BY <1>4 DEF EventLoop, Serve, Accept, HandleQuery, HandleUpdate, RejectRequest, RejectTail, Flush, PeerGone, threadVars
<1>5. CASE Stop \/ Start \/ UNCHANGED vars
  BY <1>5 DEF Stop, Start, vars, threadVars
<1> QED
  BY <1>1, <1>2, <1>3, <1>4, <1>5 DEF Next

\* Connections are made to a daemon that is up, and end with it.
LEMMA DownIsClosed ==
    ASSUME TypeOK, NeverStuck, [Next]_vars, ~up', NEW i \in Conns
    PROVE  srv'[i] \in {"unused", "closed"}
<1>1. CASE Stop
  BY <1>1 DEF Stop
<1>2. CASE ~up /\ srv' = srv
  BY <1>2 DEF NeverStuck
<1>3. CASE \E c \in Clients : Open(c) \/ Close(c) \/ Exit(c)
  BY <1>2, <1>3 DEF Open, Close, Exit, connVars
<1>4. CASE \E t \in Threads : Library(t)
  BY <1>2, <1>4 DEF Library, Call, SendRequest, ReceiveReply, ReceiveEof, Interrupt, connVars
<1>5. CASE \E j \in Conns : EventLoop(j)
  <2>1. PICK j \in Conns : EventLoop(j)
    BY <1>5
  <2>2. up /\ up' = up
    <3>1. CASE HandleQuery(j) \/ HandleUpdate(j) \/ RejectRequest(j)
      BY <3>1 DEF HandleQuery, HandleUpdate, RejectRequest, Readable
    <3>2. CASE Accept(j) \/ RejectTail(j) \/ Flush(j) \/ PeerGone(j)
      BY <3>2 DEF Accept, RejectTail, Flush, PeerGone
    <3> QED
      BY <2>1, <3>1, <3>2 DEF EventLoop, Serve
  <2> QED
    BY <2>2
<1>6. CASE Start \/ UNCHANGED vars
  BY <1>2, <1>6 DEF Start, vars
<1> QED
  BY <1>1, <1>3, <1>4, <1>5, <1>6 DEF Next

\* No call waits for an answer that cannot come any more, whatever was interrupted,
\* drained unread, refused or lost with the daemon (receivePacket, handleClientRead,
\* abortClient): a reply is there or on its way, or the end of file is.
THEOREM CallsNeverStuck == Spec => []NeverStuck
<1>1. Init => NeverStuck
  BY DEF Init, NeverStuck
<1>2. Inductive /\ NeverStuck /\ [Next]_vars => NeverStuck'
  <2> SUFFICES ASSUME Inductive, NeverStuck, [Next]_vars PROVE NeverStuck'
    OBVIOUS
  <2>0. TypeOK /\ ConnInv /\ LockInv
    BY DEF Inductive
  <2>1. ~up' => \A i \in Conns : srv'[i] \in {"unused", "closed"}
    BY <2>0, DownIsClosed
  <2>2. ASSUME NEW t \in Threads, pc'[t] = "wait"
        PROVE  \E i \in Conns : call'[t].conn = i /\ Pending(i)'
    <3>1. SendRequest(t) \/ (pc[t] = "wait" /\ call'[t].conn = call[t].conn)
      BY <2>0, <2>2, WaitersAfter
    <3>2. PICK i \in Conns : call[t].conn = i /\ srv[i] # "unused"
      BY <2>0, <3>1 DEF ConnInv, InCall, SendRequest
    <3>3. CASE SendRequest(t)
      BY <2>0, <2>2, <3>2, <3>3, SentIsPending
    <3>4. CASE pc[t] = "wait" /\ call'[t].conn = call[t].conn
      <4>1. Pending(i)
        BY <3>2, <3>4 DEF NeverStuck
      <4>2. CASE (\E c \in Clients : Open(c) \/ Close(c) \/ Exit(c)) \/ \E u \in Threads : Library(u)
        BY <2>0, <2>2, <3>2, <3>4, <4>1, <4>2, ClientsKeepPending
      <4>3. CASE \E j \in Conns : EventLoop(j)
        BY <2>0, <3>2, <3>4, <4>1, <4>3, DaemonKeepsPending
      <4>4. CASE Stop
        BY <3>2, <3>4, <4>4 DEF Stop, Pending
      <4>5. CASE Start \/ UNCHANGED vars
        BY <3>2, <3>4, <4>1, <4>5 DEF Start, vars, connVars, Pending
      <4> QED
        BY <4>2, <4>3, <4>4, <4>5 DEF Next
    <3> QED
      BY <3>1, <3>3, <3>4
  <2>3. \A t \in Threads : pc'[t] = "wait" => Pending(call[t].conn)'
    BY <2>2 DEF Pending
  <2> QED
    BY <2>1, <2>3 DEF NeverStuck
<1> QED
  BY <1>1, <1>2, InductiveInvariant, PTL DEF Spec
================================================================================
