------------------------------- MODULE ClientBase ------------------------------
(***************************************************************************)
(* The RPC client of the pl-common library (ClientBase.cpp) on its libevent*)
(* loop (EventLoop.cpp), in a process of an application: clients that are  *)
(* constructed, send packets, are called back for packets, the end of the  *)
(* connection and errors, and are destroyed.                               *)
(*                                                                         *)
(* The descriptor table is that of the process, since the library works on *)
(* descriptor numbers.  The remote end, the application and libevent are   *)
(* external: a bufferevent receives one packet at a time, at most one read *)
(* of it, and calls back once the buffer holds a header's worth.           *)
(***************************************************************************)
EXTENDS Integers, FiniteSetsExt, SequencesExt

CONSTANTS
    Clients,        \* objects of (subclasses of) ClientBase
    MaxFd,          \* the highest descriptor
    TagMod,         \* 2^8: nextTag is a uint8_t
    MaxSends,       \* bound on the packets a client sends
    MaxPackets,     \* bound on the packets a remote sends
    Nil

ASSUME BoundsAssumption ==
    /\ MaxFd \in Nat /\ MaxSends \in Nat /\ MaxPackets \in Nat
    /\ TagMod \in Nat \ {0, 1}

Fds == 0 .. MaxFd

\* What a remote's packet is to bevRead: well formed, larger than one read, of
\* another version, with a length below the header's, with a payload that is no
\* CBOR, or half as long as a header.
PacketKinds == {"good", "large", "newer", "tiny", "undecodable", "short"}

VARIABLES
    table,      \* [Fds -> what is open there]: a client's socket, "stdin", "app", Nil
    client,     \* per client: its members, and where it is in its life
    posted,     \* per client: what its remote has sent, numbered from 1
    received,   \* how many of them the bufferevent has received
    input,      \* the bufferevent's input buffer, as numbers of packets
    handled,    \* history: what handleIncomingMessage was called with
    sent,       \* history: tag and receiver of each packet that was sent
    remoteOpen, \* whether the remote end is open
    loop,       \* the thread's event loop
    dead        \* the process has been killed

vars == <<table, client, posted, received, input, handled, sent, remoteOpen, loop, dead>>
connVars == <<posted, received, input, handled, remoteOpen>>

\* A client that does not exist yet.  fd is the member; listening is whether the
\* bufferevent still reads.
NoClient == [state |-> "none", fd |-> -1, listening |-> FALSE, eof |-> FALSE, nextTag |-> 0]

Init ==
    /\ table = [f \in Fds |-> IF f = 0 THEN "stdin" ELSE Nil]
    /\ client = [c \in Clients |-> NoClient]
    /\ posted = [c \in Clients |-> <<>>]
    /\ received = [c \in Clients |-> 0]
    /\ input = [c \in Clients |-> <<>>]
    /\ handled = [c \in Clients |-> <<>>]
    /\ sent = [c \in Clients |-> <<>>]
    /\ remoteOpen = [c \in Clients |-> FALSE]
    /\ loop = [state |-> "none", main |-> FALSE]
    /\ dead = FALSE

Live(c) == client[c].state = "live"
Free == {f \in Fds : table[f] = Nil}

--------------------------------------------------------------------------------
(* The event loop.                                                         *)

\* The constructor, then arm() or run(): the loop is the thread's current one.
Activate ==
    /\ ~dead /\ loop.state = "none"
    /\ \E main \in BOOLEAN : loop' = [state |-> "running", main |-> main]
    /\ UNCHANGED <<table, client, connVars, sent, dead>>

\* A signal breaks the main loop.
handleTermination ==
    /\ ~dead /\ loop.state = "running" /\ loop.main
    /\ loop' = [loop EXCEPT !.state = "stopped"]
    /\ UNCHANGED <<table, client, connVars, sent, dead>>

\* ~EventLoop, when no client is left.  signalEvents holds what initSignalEvents
\* has put there; in a loop that is not the main one, nothing has, and what is
\* not null by chance is freed.
DestroyLoop ==
    /\ ~dead /\ loop.state # "none"
    /\ \A c \in Clients : ~Live(c)
    /\ loop' = [state |-> "none", main |-> FALSE]
    /\ dead' \in IF loop.main THEN {FALSE} ELSE BOOLEAN
    /\ UNCHANGED <<table, client, connVars, sent>>

--------------------------------------------------------------------------------
(* Life of a client.                                                       *)

\* The constructor.  Without a current loop it follows the null pointer before
\* the test for it.  It throws for an empty path or when it cannot connect, with
\* the socket closed, and when the bufferevent cannot be made, with the socket
\* left open, as the destructor does not run.
Construct(c) ==
    /\ ~dead /\ client[c].state = "none"
    /\ \/ /\ loop.state = "none"
          /\ dead' = TRUE
          /\ UNCHANGED <<table, client, remoteOpen>>
       \/ /\ loop.state # "none"
          /\ client' = [client EXCEPT ![c].state = "failed"]
          /\ UNCHANGED <<table, remoteOpen, dead>>
       \/ /\ loop.state # "none" /\ Free # {}
          /\ table' = [table EXCEPT ![Min(Free)] = c]
          /\ remoteOpen' = [remoteOpen EXCEPT ![c] = TRUE]
          /\ \/ client' = [client EXCEPT ![c].state = "live", ![c].fd = Min(Free),
                                         ![c].listening = TRUE]
             \/ client' = [client EXCEPT ![c].state = "failed"]
          /\ UNCHANGED dead
    /\ UNCHANGED <<posted, received, input, handled, sent, loop>>

\* ~ClientBase: the bufferevent does not own the socket, fd is closed.
Destroy(c) ==
    /\ ~dead /\ Live(c)
    /\ client' = [client EXCEPT ![c].state = "gone", ![c].listening = FALSE]
    /\ table' = IF client[c].fd # -1 THEN [table EXCEPT ![client[c].fd] = Nil] ELSE table
    /\ UNCHANGED <<connVars, sent, loop, dead>>

\* The application opens something of its own.
AppOpen ==
    /\ ~dead /\ Free # {} /\ "app" \notin Range(table)
    /\ table' = [table EXCEPT ![Min(Free)] = "app"]
    /\ UNCHANGED <<client, connVars, sent, loop, dead>>

--------------------------------------------------------------------------------
(* Sending.                                                                *)

NextTag(t) == IF (t + 1) % TagMod = 0 THEN 1 ELSE (t + 1) % TagMod

\* sendRaw: write() to whatever is open at fd.  It fails with EBADF, EAGAIN or, on
\* an own socket without remote, EPIPE; where the process does not ignore SIGPIPE,
\* that one ends it.
sendRaw(c, tag) ==
    LET to == table[client[c].fd]
        toRemote == to = c /\ remoteOpen[c]
        Goes(receiver) == /\ sent' = [sent EXCEPT ![c] = Append(@, [tag |-> tag, to |-> receiver])]
                          /\ UNCHANGED dead
    IN  \/ to # Nil /\ (to = c => toRemote) /\ Goes(to)
        \/ to \in {Nil, c} /\ Goes(Nil)
        \/ to = c /\ ~toRemote /\ dead' = TRUE /\ UNCHANGED sent

\* sendPacket: the tag is used up even when sendRaw throws.
sendPacket(c) ==
    /\ ~dead /\ Live(c) /\ Len(sent[c]) < MaxSends
    /\ client' = [client EXCEPT ![c].nextTag = NextTag(@)]
    /\ sendRaw(c, NextTag(client[c].nextTag))
    /\ UNCHANGED <<table, connVars, loop>>

--------------------------------------------------------------------------------
(* The remote.                                                             *)

Post(c) ==
    /\ remoteOpen[c] /\ Len(posted[c]) < MaxPackets
    /\ \E kind \in PacketKinds : posted' = [posted EXCEPT ![c] = Append(@, kind)]
    /\ UNCHANGED <<table, client, received, input, handled, remoteOpen, sent, loop, dead>>

Hangup(c) ==
    /\ remoteOpen[c]
    /\ remoteOpen' = [remoteOpen EXCEPT ![c] = FALSE]
    /\ UNCHANGED <<table, client, posted, received, input, handled, sent, loop, dead>>

--------------------------------------------------------------------------------
(* Callbacks.                                                              *)

\* The socket is watched under the number it had; its events are gone with the
\* last descriptor for it.
Watched(c) == ~dead /\ loop.state = "running" /\ client[c].listening /\ c \in Range(table)

HeaderIn(c, buffer) ==
    Len(buffer) > 1 \/ (Len(buffer) = 1 /\ posted[c][buffer[1]] # "short")

\* What bevRead and handleIncomingMessageRaw may pass on of a buffer that begins
\* with packet i: the packet, nothing, or bytes that no one has sent, from beyond
\* the buffer or from packets run together.
Garbage == 0
Outcomes(c, i) ==
    CASE posted[c][i] = "good" -> {<<i>>}
      [] posted[c][i] \in {"newer", "tiny", "undecodable"} -> {<<>>}
      [] posted[c][i] \in {"large", "short"} -> {<<>>, <<Garbage>>}

\* bevRead: drain the buffer, look at its first packet.
Peeks(c, buffer) ==
    /\ input' = [input EXCEPT ![c] = buffer]
    /\ \E o \in Outcomes(c, buffer[1]) : handled' = [handled EXCEPT ![c] = @ \o o]
bevRead(c, buffer) ==
    /\ input' = [input EXCEPT ![c] = <<>>]
    /\ \E o \in Outcomes(c, buffer[1]) : handled' = [handled EXCEPT ![c] = @ \o o]

\* The bufferevent receives a packet, and calls bevRead above its low watermark.
Receive(c) ==
    /\ Watched(c) /\ received[c] < Len(posted[c])
    /\ received' = [received EXCEPT ![c] = @ + 1]
    /\ LET buffer == Append(input[c], received'[c])
       IN  IF HeaderIn(c, buffer) THEN bevRead(c, buffer)
           ELSE input' = [input EXCEPT ![c] = buffer] /\ UNCHANGED handled
    /\ UNCHANGED <<table, client, posted, remoteOpen, sent, loop, dead>>

\* bevEvent: the end of the connection, when there is nothing to receive any more,
\* or an error, which is reported before the packets that still wait.  Either way
\* the bufferevent stops reading.
EndsAtOnce(c) ==
    /\ Watched(c) /\ ~remoteOpen[c]
    /\ client' = [client EXCEPT ![c].listening = FALSE, ![c].fd = 0, ![c].eof = TRUE]
    /\ UNCHANGED <<table, connVars, sent, loop, dead>>
bevEvent(c) ==
    /\ Watched(c) /\ ~remoteOpen[c]
    /\ \/ /\ received[c] = Len(posted[c])
          /\ client' = [client EXCEPT ![c].listening = FALSE, ![c].fd = 0, ![c].eof = TRUE]
       \/ client' = [client EXCEPT ![c].listening = FALSE]
    /\ UNCHANGED <<table, connVars, sent, loop, dead>>

Next ==
    \/ Activate \/ handleTermination \/ DestroyLoop \/ AppOpen
    \/ \E c \in Clients :
          \/ Construct(c) \/ Destroy(c) \/ sendPacket(c)
          \/ Post(c) \/ Hangup(c)
          \/ Receive(c) \/ bevEvent(c)

\* The loop dispatches what is ready.
Fairness == \A c \in Clients : WF_vars(Receive(c)) /\ WF_vars(bevEvent(c))
Spec == Init /\ [][Next]_vars /\ Fairness

--------------------------------------------------------------------------------
(* Correctness.                                                            *)

Receivers == Clients \cup {"stdin", "app", Nil}
Members ==
    [state : {"none", "live", "failed", "gone"}, fd : Fds \cup {-1}, listening : BOOLEAN,
     eof : BOOLEAN, nextTag : 0 .. TagMod - 1]

\* Every variable holds a value of its type; a live client has a descriptor, and
\* no packet has the tag zero.
TypeOK ==
    /\ table \in [Fds -> Receivers]
    /\ client \in [Clients -> Members]
    /\ \A c \in Clients : Live(c) => client[c].fd \in Fds
    /\ posted \in [Clients -> Seq(PacketKinds)] /\ remoteOpen \in [Clients -> BOOLEAN]
    /\ received \in [Clients -> Nat] /\ \A c \in Clients : received[c] <= Len(posted[c])
    /\ input \in [Clients -> Seq(Nat)] /\ handled \in [Clients -> Seq(Nat)]
    /\ sent \in [Clients -> Seq([tag : 1 .. TagMod - 1, to : Receivers])]
    /\ loop \in [state : {"none", "running", "stopped"}, main : BOOLEAN]
    /\ dead \in BOOLEAN

\* What was handled, but for garbage, has the numbers of packets in their order.
InOrder(h) ==
    \A i, j \in 1 .. Len(h) : i < j /\ h[i] # Garbage /\ h[j] # Garbage => h[i] < h[j]

\* A packet that is well formed, and not run together with a short one before it.
IsWhole(c, i) == posted[c][i] = "good" /\ (i > 1 => posted[c][i - 1] # "short")

\* Packets are handled in the order in which the remote sent them, none twice,
\* and none that is whole is passed over, once it has been received: whatever
\* bevRead runs together or drops, it drains the buffer each time.
HandledInOrder ==
    \A c \in Clients :
        /\ InOrder(handled[c])
        /\ \A i \in 1 .. received[c] : IsWhole(c, i) => i \in Range(handled[c])

\* The client can be called back, or has been told the end of the connection.
Attends(c) ==
    /\ Live(c) /\ loop.state = "running" /\ ~dead
    /\ client[c].listening \/ client[c].eof

\* A packet that is whole is handled, even if the remote hangs up after it: as
\* long as the client lives, its loop runs, and no error has been reported before.
\* That the connection has ended is reported after its packets (bevEvent).
GoodAreHandled ==
    \A c \in Clients : \A i \in 1 .. MaxPackets :
        (Attends(c) /\ i \in 1 .. Len(posted[c]) /\ IsWhole(c, i))
            ~> (i \in Range(handled[c]) \/ ~Attends(c))

--------------------------------------------------------------------------------
\* "Send a raw packet to the remote": what is sent reaches the remote or nobody.
SendsGoToRemote == \A c \in Clients : \A i \in 1 .. Len(sent[c]) : sent[c][i].to \in {c, Nil}

\* "Clean up client resources": a client that is destroyed leaves no descriptor.
CleansUp == \A c \in Clients : client[c].state = "gone" => c \notin Range(table)

\* "invalid event loop": a client made without a loop is refused by an exception.
NoLoopIsRefused ==
    [][\A c \in Clients : Construct(c) => ~dead']_vars

\* "Release event loop resources": any loop can be destroyed.
LoopIsReleased == [][DestroyLoop => ~dead']_vars
================================================================================
