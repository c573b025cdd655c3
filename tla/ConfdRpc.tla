------------------------------- MODULE ConfdRpc --------------------------------
(***************************************************************************)
(* Calls on the configuration daemon: threads of client processes that     *)
(* share one libconfd connection per process (src/lib/RpcConnection.cpp,   *)
(* src/lib/wrapper), and the daemon's event loop that serves those         *)
(* connections (src/daemon/RpcServer.cpp).  The store behind the event     *)
(* loop is the atomic map of module KVStore, reduced to one value per key. *)
(*                                                                         *)
(* A connection is a UNIX stream socket: req holds what the client wrote   *)
(* and the daemon has not read, rep what the daemon has queued and libevent*)
(* has not written, inbox what is written and the client has not read.     *)
(* Messages carry the number of the request they belong to; on the wire    *)
(* that number is the tag, modulo TagMod.                                  *)
(***************************************************************************)
EXTENDS Integers, Sequences, FiniteSets

CONSTANTS
    Clients,        \* processes that link libconfd
    Threads,        \* their threads
    Home,           \* Home[t]: the process of thread t
    Keys, Values,   \* property keys; typed values
    TypeOf,         \* TypeOf[v]: the value type v is filed under
    NoValue,        \* what a get of a key that does not exist finds
    TagMod,         \* 256: tags are a uint8_t
    CloseAnytime,   \* may confd_close run while another thread is in a call?
    MaxConns,       \* bound on connections opened in a run
    MaxCalls        \* bound on requests sent on a connection

ASSUME HomeAssumption == Home \in [Threads -> Clients]
ASSUME ThreadsAssumption == IsFiniteSet(Threads)
ASSUME TagAssumption == TagMod \in Nat \ {0}
ASSUME BoundAssumption == MaxConns \in Nat /\ MaxCalls \in Nat
ASSUME CloseAssumption == CloseAnytime \in BOOLEAN
ASSUME ValueAssumption == NoValue \notin Values

VARIABLES
    up,             \* is the daemon running?
    store,          \* [Keys -> Values \cup {NoValue}], committed
    srv,            \* the daemon's end of each connection
    req, rep, inbox,\* what is on its way on each connection
    conn,           \* RpcConnection::gShared of each process, 0 when null
    sent,           \* nextTag of each connection, before it is wrapped
    interrupts,     \* history: calls interrupted on each connection
    pc, call, ret,  \* each thread: where it is, its call, the call's outcome
    window          \* history: the values its key has had since the call began

connVars == <<srv, req, rep, inbox>>
threadVars == <<pc, call, ret, window>>
vars == <<up, store, srv, req, rep, inbox, conn, sent, interrupts, pc, call, ret, window>>

--------------------------------------------------------------------------------
Conns == 1 .. MaxConns

\* kConfigQuery and kConfigUpdate; a set carries its value, and a large one
\* exceeds the 4096 bytes libevent reads at a time by more than a header, so that
\* it is refused (requests in between are in TypedCalls).
Operations ==
    [ep : {"query"}, key : Keys, value : {NoValue}, large : {FALSE}]
        \cup [ep : {"update"}, key : Keys, value : Values, large : BOOLEAN]

\* A request on the wire, the rest of one that was read in part, and a reply.
TagBeforeIncrement(n, op) == [n |-> n - 1, op |-> op]
Request(n, op) == [n |-> n, op |-> op]
Junk == [n |-> 0, op |-> [ep |-> "junk", key |-> NoValue, value |-> NoValue, large |-> FALSE]]
Requests == [n : 1 .. MaxCalls, op : Operations]
Replies == [n : 1 .. MaxCalls, ep : {"query", "update"}, value : Values \cup {NoValue}]

Tag(n) == n % TagMod

\* Outcomes of a call.  "lost", "interrupted" and "mismatch" are the errors
\* thrown for an end of file or EPIPE, for EINTR, and for a reply whose
\* endpoint or tag is not that of the request.
NoCall == [conn |-> 0, n |-> 0, ep |-> "query", key |-> NoValue, value |-> NoValue,
           large |-> FALSE]
NoRet == [status |-> "none", n |-> 0, value |-> NoValue]
Failed(why) == [status |-> why, n |-> 0, value |-> NoValue]

Init ==
    /\ up = TRUE
    /\ store = [k \in Keys |-> NoValue]
    /\ srv = [i \in Conns |-> "unused"]
    /\ req = [i \in Conns |-> <<>>]
    /\ rep = [i \in Conns |-> <<>>]
    /\ inbox = [i \in Conns |-> <<>>]
    /\ conn = [c \in Clients |-> 0]
    /\ sent = [i \in Conns |-> 0]
    /\ interrupts = [i \in Conns |-> 0]
    /\ pc = [t \in Threads |-> "idle"]
    /\ call = [t \in Threads |-> NoCall]
    /\ ret = [t \in Threads |-> NoRet]
    /\ window = [t \in Threads |-> {}]

--------------------------------------------------------------------------------
(* libconfd.                                                               *)

\* confd_open: connect() succeeds once the daemon listens; accept comes later.
\* With a connection already there it fails and changes nothing.
Open(c) ==
    /\ conn[c] = 0 /\ up
    /\ \E i \in Conns :
          /\ srv[i] = "unused"
          /\ \A j \in Conns : j < i => srv[j] # "unused"
          /\ conn' = [conn EXCEPT ![c] = i]
          /\ srv' = [srv EXCEPT ![i] = "backlog"]
    /\ UNCHANGED <<up, store, req, rep, inbox, sent, interrupts>>
    /\ UNCHANGED threadVars

InCall(t) == pc[t] # "idle"
HasPeer(i) == \E c \in Clients : conn[c] = i

\* confd_close deletes the connection without taking its lock.
Close(c) ==
    /\ conn[c] # 0
    /\ CloseAnytime \/ \A t \in Threads : Home[t] = c => ~InCall(t)
    /\ conn' = [conn EXCEPT ![c] = 0]
    /\ UNCHANGED <<up, store, sent, interrupts>>
    /\ UNCHANGED connVars /\ UNCHANGED threadVars

\* The process ends, by itself or by the SIGPIPE that writing to a connection
\* the daemon has closed raises.
Exit(c) ==
    /\ conn[c] # 0
    /\ conn' = [conn EXCEPT ![c] = 0]
    /\ pc' = [t \in Threads |-> IF Home[t] = c THEN "idle" ELSE pc[t]]
    /\ call' = [t \in Threads |-> IF Home[t] = c THEN NoCall ELSE call[t]]
    /\ ret' = [t \in Threads |-> IF Home[t] = c THEN NoRet ELSE ret[t]]
    /\ window' = [t \in Threads |-> IF Home[t] = c THEN {} ELSE window[t]]
    /\ UNCHANGED <<up, store, sent, interrupts>>
    /\ UNCHANGED connVars

\* The threads that wait for the lock of connection i.
Queued(i) == {t \in Threads : pc[t] = "lock" /\ call[t].conn = i}

\* A wrapper (confd_get_*, confd_set_*) serializes its request and asks for the
\* connection's lock.
Call(t) ==
    /\ pc[t] = "idle"
    /\ conn[Home[t]] # 0
    /\ sent[conn[Home[t]]] + Cardinality(Queued(conn[Home[t]])) < MaxCalls
    /\ \E op \in Operations :
          /\ call' = [call EXCEPT ![t] = [conn |-> conn[Home[t]], n |-> 0, ep |-> op.ep,
                         key |-> op.key, value |-> op.value, large |-> op.large]]
          /\ window' = [window EXCEPT ![t] = IF op.ep = "query" THEN {store[op.key]} ELSE {}]
    /\ pc' = [pc EXCEPT ![t] = "lock"]
    /\ ret' = [ret EXCEPT ![t] = NoRet]
    /\ UNCHANGED <<up, store, conn, sent, interrupts>>
    /\ UNCHANGED connVars

Locked(i) == \E t \in Threads : pc[t] = "wait" /\ call[t].conn = i

Finish(t, r) ==
    /\ pc' = [pc EXCEPT ![t] = "idle"]
    /\ ret' = [ret EXCEPT ![t] = r]
    /\ UNCHANGED window

\* sendPacket, under the lock: the next tag, and one write.  On a connection the
\* daemon has closed the write fails and the lock is released.
SendRequest(t) ==
    LET i == call[t].conn
        n == sent[i] + 1
        op == [ep |-> call[t].ep, key |-> call[t].key, value |-> call[t].value,
               large |-> call[t].large]
    IN  /\ pc[t] = "lock"
        /\ ~Locked(i)
        /\ sent' = [sent EXCEPT ![i] = n]
        /\ call' = [call EXCEPT ![t].n = n]
        /\ \/ /\ srv[i] # "closed"
              /\ req' = [req EXCEPT ![i] = Append(req[i], Request(n, op))]
              /\ pc' = [pc EXCEPT ![t] = "wait"]
              /\ UNCHANGED <<ret, window>>
           \/ /\ srv[i] = "closed"
              /\ Finish(t, Failed("lost"))
              /\ UNCHANGED req
        /\ UNCHANGED <<up, store, srv, rep, inbox, conn, interrupts>>

\* receivePacket takes the first packet off the stream.
PeekedOnly(i) == inbox[i]
Unread(i) == Tail(inbox[i])

\* The checks of sendPacketWithReply.
EndpointMatches(r, t) == r.ep = call[t].ep
Matches(r, t) == r.ep = call[t].ep /\ Tag(r.n) = Tag(call[t].n)

\* The first packet is consumed whether or not it answers this call.
ReceiveReply(t) ==
    LET i == call[t].conn
        r == Head(inbox[i])
    IN  /\ pc[t] = "wait"
        /\ inbox[i] # <<>>
        /\ inbox' = [inbox EXCEPT ![i] = Unread(i)]
        /\ IF Matches(r, t)
             THEN Finish(t, [status |-> "ok", n |-> r.n, value |-> r.value])
             ELSE Finish(t, Failed("mismatch"))
        /\ UNCHANGED <<up, store, srv, req, rep, conn, sent, interrupts, call>>

\* End of file, or a reset, after everything the daemon wrote.
ReceiveEof(t) ==
    /\ pc[t] = "wait"
    /\ inbox[call[t].conn] = <<>>
    /\ srv[call[t].conn] = "closed"
    /\ Finish(t, Failed("lost"))
    /\ UNCHANGED <<up, store, conn, sent, interrupts, call>>
    /\ UNCHANGED connVars

\* A signal handler of the process interrupts the blocking read.  The call
\* returns -EINTR; its request, or the reply to it, stays on its way.
Interrupt(t) ==
    /\ pc[t] = "wait"
    /\ inbox[call[t].conn] = <<>>
    /\ srv[call[t].conn] # "closed"
    /\ interrupts' = [interrupts EXCEPT ![call[t].conn] = @ + 1]
    /\ Finish(t, Failed("interrupted"))
    /\ UNCHANGED <<up, store, conn, sent, call>>
    /\ UNCHANGED connVars

--------------------------------------------------------------------------------
(* The daemon.                                                             *)

Accept(i) ==
    /\ up /\ srv[i] = "backlog"
    /\ srv' = [srv EXCEPT ![i] = "open"]
    /\ UNCHANGED <<up, store, req, rep, inbox, conn, sent, interrupts>>
    /\ UNCHANGED threadVars

\* abortClient, handleClientEvent: the Client is erased and its socket closed;
\* what it had queued is not written any more, what it had not read is lost.
LeftOpen(i) ==
    /\ req' = [req EXCEPT ![i] = <<>>]
    /\ rep' = [rep EXCEPT ![i] = <<>>]
    /\ UNCHANGED srv
Drop(i) ==
    /\ srv' = [srv EXCEPT ![i] = "closed"]
    /\ req' = [req EXCEPT ![i] = <<>>]
    /\ rep' = [rep EXCEPT ![i] = <<>>]

\* Does DataStore::setKey let v replace old?
Permitted(old, v) == old # NoValue => TypeOf[old] = TypeOf[v]

\* handleClientRead drains the socket and handles the first request in what it
\* got; others that arrived with it are discarded.  What exceeds 4096 bytes stays
\* in the socket: the messages from one of them on, of which that one may have
\* been read in part, and no large one is read whole.
NotDrained(msgs) == {msgs}
Remainders(msgs) ==
    LET ends == {j \in 2 .. Len(msgs) + 1 : \A k \in 2 .. j - 1 : ~msgs[k].op.large}
    IN  {SubSeq(msgs, j, Len(msgs)) : j \in ends}
            \cup {<<Junk>> \o SubSeq(msgs, j + 1, Len(msgs)) : j \in ends \ {Len(msgs) + 1}}

Reply(i, m, v) ==
    /\ rep' = [rep EXCEPT ![i] = Append(rep[i], [n |-> m.n, ep |-> m.op.ep, value |-> v])]
    /\ \E rest \in Remainders(req[i]) : req' = [req EXCEPT ![i] = rest]
    /\ UNCHANGED srv

\* What setKey leaves in the store.
NotCommitted(k, v) == store
InsertedOnly(k, v) == IF store[k] = NoValue THEN [store EXCEPT ![k] = v] ELSE store
Updated(k, v) == [store EXCEPT ![k] = v]

\* Calls under way may see, or have set, what their key holds now.
Observe ==
    window' = [t \in Threads |->
                  IF InCall(t) THEN window[t] \cup {store'[call[t].key]} ELSE window[t]]

\* The read callback runs once a header's worth of bytes is there, which a whole
\* request always is, and the rest of one may be.
Readable(i) == up /\ srv[i] = "open" /\ req[i] \notin {<<>>, <<Junk>>}

HandleQuery(i) ==
    LET m == Head(req[i])
    IN  /\ Readable(i)
        /\ m.op.ep = "query"
        /\ Reply(i, m, store[m.op.key])
        /\ UNCHANGED <<up, store, inbox, conn, sent, interrupts>>
        /\ UNCHANGED threadVars

HandleUpdate(i) ==
    LET m == Head(req[i])
    IN  /\ Readable(i)
        /\ m.op.ep = "update" /\ ~m.op.large
        /\ Permitted(store[m.op.key], m.op.value)
        /\ store' = Updated(m.op.key, m.op.value)
        /\ Observe
        /\ Reply(i, m, NoValue)
        /\ UNCHANGED <<up, inbox, conn, sent, interrupts, pc, call, ret>>

\* The read callback throws: an incomplete or unintelligible request, a set
\* the store refuses, or an error of the store.  The client is aborted.
RejectRequest(i) ==
    /\ Readable(i)
    /\ Drop(i)
    /\ UNCHANGED <<up, store, inbox, conn, sent, interrupts>>
    /\ UNCHANGED threadVars

\* The rest of a request is long enough to be taken for one, and refused.
RejectTail(i) ==
    /\ up /\ srv[i] = "open" /\ req[i] = <<Junk>>
    /\ Drop(i)
    /\ UNCHANGED <<up, store, inbox, conn, sent, interrupts>>
    /\ UNCHANGED threadVars

\* libevent writes out what the bufferevent has queued.
Flush(i) ==
    /\ up /\ srv[i] = "open" /\ rep[i] # <<>>
    /\ inbox' = [inbox EXCEPT ![i] = inbox[i] \o rep[i]]
    /\ rep' = [rep EXCEPT ![i] = <<>>]
    /\ UNCHANGED <<up, store, srv, req, conn, sent, interrupts>>
    /\ UNCHANGED threadVars

\* End of file on the daemon's side, after what the client had written.
PeerGone(i) ==
    /\ up /\ srv[i] = "open" /\ req[i] \in {<<>>, <<Junk>>} /\ ~HasPeer(i)
    /\ Drop(i)
    /\ UNCHANGED <<up, store, inbox, conn, sent, interrupts>>
    /\ UNCHANGED threadVars

\* A crash, a kill or SIGTERM (handleTermination); committed values survive.
Stop ==
    /\ up
    /\ up' = FALSE
    /\ srv' = [i \in Conns |-> IF srv[i] = "unused" THEN "unused" ELSE "closed"]
    /\ req' = [i \in Conns |-> <<>>]
    /\ rep' = [i \in Conns |-> <<>>]
    /\ UNCHANGED <<store, inbox, conn, sent, interrupts>>
    /\ UNCHANGED threadVars

Start ==
    /\ ~up
    /\ up' = TRUE
    /\ UNCHANGED <<store, conn, sent, interrupts>>
    /\ UNCHANGED connVars /\ UNCHANGED threadVars

--------------------------------------------------------------------------------
Library(t) ==
    \/ Call(t) \/ SendRequest(t) \/ ReceiveReply(t) \/ ReceiveEof(t) \/ Interrupt(t)
Serve(i) ==
    \/ Accept(i) \/ HandleQuery(i) \/ HandleUpdate(i) \/ RejectRequest(i)
    \/ Flush(i) \/ PeerGone(i)
EventLoop(i) == Serve(i) \/ RejectTail(i)

Next ==
    \/ \E c \in Clients : Open(c) \/ Close(c) \/ Exit(c)
    \/ \E t \in Threads : Library(t)
    \/ \E i \in Conns : EventLoop(i)
    \/ Stop \/ Start

\* The event loop serves what is ready and a blocked thread runs when it can;
\* nothing says that clients call, that the daemon stops or comes back, or how
\* long the rest of a request is.
Fairness ==
    /\ \A i \in Conns : WF_vars(Serve(i))
    /\ \A t \in Threads : WF_vars(SendRequest(t) \/ ReceiveReply(t) \/ ReceiveEof(t))

Spec == Init /\ [][Next]_vars
FairSpec == Spec /\ Fairness

--------------------------------------------------------------------------------
(* Correctness.                                                            *)

Statuses == {"none", "ok", "lost", "interrupted", "mismatch"}
Calls == [conn : 0 .. MaxConns, n : 0 .. MaxCalls, ep : {"query", "update"},
          key : Keys \cup {NoValue}, value : Values \cup {NoValue}, large : BOOLEAN]
Results == [status : Statuses, n : 0 .. MaxCalls, value : Values \cup {NoValue}]

\* Every variable holds a value of its type.
TypeOK ==
    /\ up \in BOOLEAN
    /\ store \in [Keys -> Values \cup {NoValue}]
    /\ srv \in [Conns -> {"unused", "backlog", "open", "closed"}]
    /\ req \in [Conns -> Seq(Requests \cup {Junk})]
    /\ rep \in [Conns -> Seq(Replies)]
    /\ inbox \in [Conns -> Seq(Replies)]
    /\ conn \in [Clients -> 0 .. MaxConns]
    /\ sent \in [Conns -> 0 .. MaxCalls]
    /\ interrupts \in [Conns -> 0 .. MaxCalls]
    /\ pc \in [Threads -> {"idle", "lock", "wait"}]
    /\ call \in [Threads -> Calls]
    /\ ret \in [Threads -> Results]
    /\ window \in [Threads -> SUBSET (Values \cup {NoValue})]

\* The messages of a connection, in the order the client will meet them: replies,
\* and the requests after the rest of one that was read in part, if there is one.
Numbers(ms) == [j \in 1 .. Len(ms) |-> ms[j].n]
Unanswered(ms) == IF ms # <<>> /\ Head(ms) = Junk THEN Tail(ms) ELSE ms
Pipeline(i) == Numbers(inbox[i]) \o Numbers(rep[i]) \o Numbers(Unanswered(req[i]))

\* No request is answered twice or out of order, whatever is interrupted,
\* discarded or dropped on the way (handleClientRead, replyTo).
PipelineOrdered ==
    \A i \in Conns : \A j, k \in 1 .. Len(Pipeline(i)) :
        j < k => Pipeline(i)[j] < Pipeline(i)[k]

\* A reply on its way lags behind the latest request by at most the number of
\* calls that gave up waiting; this is what keeps 8 bit tags apart.  (On a closed
\* connection only a call that was waiting still reads.)
LagBounded ==
    \A i \in Conns : \A j \in 1 .. Len(Pipeline(i)) :
        HasPeer(i) /\ (srv[i] = "closed" => Locked(i)) =>
            sent[i] - Pipeline(i)[j] + (IF Locked(i) THEN 0 ELSE 1) <= interrupts[i]

\* A call that succeeds has the reply to its own request, as long as fewer
\* calls than there are tags were interrupted on the connection
\* (sendPacketWithReply's check of endpoint and tag).
OwnReply ==
    \A t \in Threads :
        ret[t].status = "ok" /\ interrupts[call[t].conn] < TagMod => ret[t].n = call[t].n

\* The comment of sendPacketWithReply, without that condition: the reply to
\* "whatever request we just sent, based on the combination of ep+tag".
TagsIdentifyRequests ==
    \A t \in Threads : ret[t].status = "ok" => ret[t].n = call[t].n

\* A get that succeeds returns a value the key had during the call; a set that
\* succeeds was committed during the call (the reply follows setKey, and no
\* later reply is taken for it).
AnswersAreCurrent ==
    \A t \in Threads :
        ret[t].status = "ok" /\ interrupts[call[t].conn] < TagMod =>
            (IF call[t].ep = "query" THEN ret[t].value ELSE call[t].value) \in window[t]

\* The note of RpcConnection.h on its lock, "all API wrapper functions should
\* take and hold this lock": no connection is freed under a thread in a call.
NoUseAfterClose ==
    \A t \in Threads : InCall(t) => conn[Home[t]] = call[t].conn

\* The note of confd_open in confd.h: "the connection will remain valid until
\* it is explicitly closed with confd_close", here while the daemon runs.
ConnectionStaysValid ==
    [][\A c \in Clients :
          conn[c] # 0 /\ conn'[c] = conn[c] /\ srv[conn[c]] # "closed" /\ up'
              => srv'[conn[c]] # "closed"]_vars

\* sendPacketWithReply "waits for the response to whatever request we just
\* sent": only the interrupted call itself fails, not the calls after it.
CallsAwaitTheirReply ==
    \A t \in Threads : ret[t].status # "mismatch"

\* Every call returns: the daemon answers or closes the connection, a dead
\* daemon's connections are closed, and the lock is passed on.
CallsReturn == \A t \in Threads : InCall(t) ~> ~InCall(t)
================================================================================
