# Verification of meta-sativa-base

TLA+ specifications of the programs in this layer, TLC configurations that check
them on small instances, and TLAPS proofs. The layer builds a Linux image; most
of its files are recipes and hardware descriptions, and the programs it carries
of its own are the configuration daemon **confd** with its client library
**libconfd** (`recipes-custom/sativa-confd`), the kernel driver of the remote
processor's **system resource manager** (`recipes-kernel`), the boot script
**init-overlays** (`recipes-core`) and the client library **pl-common**
(`recipes-pl`). Below, `C` is `src/recipes-custom/sativa-confd/files`.

## 1. The system

| Component | State it keeps | Operations | Interacts with |
|---|---|---|---|
| Data store (`C/src/daemon/DataStore.*`) | one SQLite database: `MetaInfo`, `PropertyKeys`, four value tables | constructor and `initSchema`, `getKey`, `setKey` (`insertKey`, `updateKey`), `deleteKey`, `deleteSubkeys` | called by the RPC server; SQLite, the file system and power below it |
| RPC server (`C/src/daemon/RpcServer.*`) | listen socket, map of clients with their bufferevents | accept, read and dispatch, query, update, reply, abort, disconnect, termination, watchdog timer | one libevent loop; stream sockets to clients; calls the data store |
| libconfd (`C/src/lib`) | one shared connection per process, its buffers, tag counter and lock | `confd_open`, `confd_close`, getters, setters | threads of the application; socket to the daemon |
| confd life cycle (`C/src/daemon/main.cpp`, `watchdog.cpp`, `confd.service`) | `gRun`, watchdog interval | start, run loop, signals, kicks | systemd restarts it and kills it when it misses a kick |
| Configuration reader (`C/src/daemon/Config.*`) | settings, the set of files opened so far | read, include | start-up only |
| confd-util (`C/src/util`) | none | command line get and set | libconfd |
| Resource manager core (`.../remoteproc/rproc_srm_core.c`) | bind status, `prepared` count, rpmsg driver, notifier chain | probe, remove, prepare, unprepare, bind, unbind, rpmsg callback | remoteproc core, component framework, devices |
| Resource manager devices (`rproc_srm_dev.c`) | clocks, regulators and interrupts of one node | bind, unbind, get and set of clock and regulator settings | the core's notifier chain; the remote side's messages |
| init-overlays (`recipes-core/sativa-root-overlays`) | partition table, the file system on it, mounts | create, format, initialise, mount | power loss and reboot between steps; confd's initialisation hook |
| pl-common (`recipes-pl/pl-common`) | connection, tag counter, event loop | connect, send, receive, close | libevent; the `loadd` daemon |

What is hard in it, and what makes each component correct:

* **Data store.** A set is up to four SQL statements over two tables, and an
  I/O error or a power loss can fall between any two. Correct means: every key
  has exactly the value row of its type; the schema is there in full or not at
  all; the whole is an atomic, durable map.
* **RPC server and libconfd.** Threads share a connection; a signal can
  interrupt the read of a reply, which then arrives in a later call; requests
  that arrive together are drained in one read and all but the first are
  discarded; any error aborts the client; the daemon can die between commit and
  reply; tags have 8 bits. Correct means: a call that succeeds got the answer to
  its own request, the answer is current, and every call returns.
* **Values.** A value is converted five times between a setter and a getter:
  CBOR item, variant, SQL column, CBOR item, C value. Lengths have 16 bits, one
  read 4096 bytes, a string may or may not end in a NUL. Correct means: what a
  getter returns is what a setter of its kind was given, or the call fails.
* **Life cycle.** Signals against the run loop, the watchdog against slow
  handlers, failing starts, a socket left behind by a killed daemon. Correct
  means: the daemon ends when told to, stays up otherwise, and is killed only
  when it hangs.
* **Configuration reader.** Files that include each other, and names that do not
  resolve. Correct means: reading ends, what is accepted was read whole, and no
  entry grants more than it says.
* **Resource manager.** Binding with a timeout, partial failure of set-up and of
  requests, devices that are probed late or removed while the remote processor
  asks for their resources. Correct means: use counts are balanced, what was
  switched on is switched off again, and no freed memory is used.
* **init-overlays.** Power loss between the steps of the first boot, commands
  whose failure goes unnoticed. Correct means: the partition's name tells whether
  it is complete, user data is never formatted, and the system comes up.
* **pl-common.** Callbacks against sends and destruction, packets that are run
  together, descriptor numbers that are reused. Correct means: what is well
  formed is handled once and in order, and only the own socket is touched.

`PROJECT.json` lists these as hazards, each at its line, with the properties
that cover it, or a note on why none does.

## 2. Modules

| Module | What it is |
|---|---|
| `PropertyTypes` | keys, property values, the value types they are filed under, requests and outcomes of the store (`Types.h`, `DataStore.h`) |
| `KVStore` | abstract specification: a map in which each write is one atomic durable step |
| `DataStore` | the data store, one action per SQL statement |
| `DataStoreProofs` | theorems about `DataStore`, and that it implements `KVStore` |
| `ConfdRpc` | libconfd's threads and connections together with the daemon's event loop |
| `TypedCalls` | one value on its way through setter, daemon, store and getter, with the sizes of messages |
| `ConfdUtil` | the command line tool on top of `TypedCalls` |
| `ConfdDaemon` | the life of the daemon's process, its event loop, watchdog and service manager |
| `ConfigReader` | configuration files, includes and the allow list |
| `SrmDevices` | the resource manager's devices: use counts, binding, requests |
| `SrmCore` | the resource manager's core together with its devices |
| `InitOverlays` | the first process of the system, with power loss |
| `ClientBase` | pl-common's client and event loop in an application's process |
| `ConfdRpcProofs`, `ConfdUtilProofs`, `ConfdDaemonProofs`, `ConfigReaderProofs`, `SrmProofs`, `InitOverlaysProofs`, `ClientBaseProofs` | theorems about the module of that name, `ConfdUtilProofs` also about `TypedCalls`, `SrmProofs` about `SrmCore` and `SrmDevices` |
| `MC...` | values of the constants for TLC |

`DataStore` extends `PropertyTypes`, as does `KVStore`; `DataStore` instantiates
`KVStore` with a refinement mapping. `ConfdRpc` composes clients, sockets and
daemon; the store behind its event loop is the map that `KVStore` describes,
with a set as one step, which the refinement justifies: the event loop is the
only caller of the store and runs one handler at a time. `ConfdUtil` extends
`TypedCalls`, uses its actions for the calls it makes, and lets an application
make others in between; `SrmCore` extends
`SrmDevices` and composes devices, component framework and remoteproc. What
confd's handlers do is in `ConfdRpc` and `TypedCalls`; in `ConfdDaemon` they only
take time.

### DataStore

`disk` is the committed database and `work` the connection's view of it; they
differ only inside a transaction. A database has the rows of `PropertyKeys`
(`keys`, by id), of the four value tables (`vals[type][id]`), the AUTOINCREMENT
sequence (`seq`), the number of schema statements in effect (`made`) and the
`schema.version` row (`version`). `pc` is the next statement; `req`, `cur` and
`resp` are the call's arguments, its locals (`keyId`, `oldValueType`) and its
outcome. The actions:

| Action | Code (`DataStore.cpp`) |
|---|---|
| `Start`, `OpenDatabase`, `InitSchema`, `CheckVersion` | constructor 22-49, `initSchema` 56-165 |
| `Invoke` | a call by the event loop |
| `GetInfo`, `GetValue` | `getKey` 179-237 |
| `SetInfo` | lookup and dispatch of `setKey` 253-296, validation and BEGIN of `insertKey`, `updateKey` |
| `InsertKey`, `InsertValue` | `insertKey` 388-417 |
| `UpdateType`, `DeleteOld`, `Upsert`, `UpdateKeyTimestamp` | `updateKey` 440-473, `updateKeyTimestamp` 485-494 |
| `CommitSet` | the commits, 420 and 475 |
| `DeleteKey`, `DeleteSubkeys` | 307-347, 327-333 |
| `Fault`, `Crash`, `Tick` | an SQLite error at any statement; power loss, kill or crash anywhere; the clock |

The two commits of sets are one action and a transaction's destructor is
`Rollback`, taken whenever an exception unwinds. A statement outside a
transaction (`deleteSubkeys`) commits by itself. SQLite is external: that a
transaction is atomic and durable, and that a journal left by a dead process is
rolled back, is assumed, not shown. Contents of values are abstract; what
matters to the store is the alternative of the variant and the type it is filed
under. Two programs with one database, and a file damaged by other means, are
not considered.

### ConfdRpc

A thread is `idle`, waits for the connection's lock (`lock`), or holds it and
waits in `read` (`wait`). `conn[c]` is the process's `RpcConnection::gShared`.
Connections are numbered and not reused: `srv[i]` is the daemon's end (unused,
in the backlog, open, closed). A message in flight is in `req[i]` (written by
the client, not yet read), `rep[i]` (queued in the daemon's bufferevent) or
`inbox[i]` (written by the daemon, not yet read). Messages carry the request's
unbounded number `n`; only `Tag(n)`, the number modulo `TagMod`, is compared by
the code. `interrupts` and `window` are history variables.

| Action | Code |
|---|---|
| `Open`, `Close`, `Exit` | `confd_open`, `confd_close` (`connection.cpp` 13-29); end of the process |
| `Call`, `SendRequest` | `DoQuery`, `DoUpdate` up to the lock; `RpcConnection::sendPacket` 61-87 |
| `ReceiveReply`, `ReceiveEof`, `Interrupt` | `sendPacketWithReply` 101-130, `receivePacket` 147-195 |
| `Accept`, `HandleQuery`, `HandleUpdate`, `RejectRequest`, `RejectTail`, `PeerGone` | `acceptClient`, `handleClientRead` with `doCfgQuery` or `doCfgUpdate` and `replyTo`, `abortClient` from the read callback, `handleClientEvent` |
| `Flush` | libevent writes what is queued (external) |
| `Stop`, `Start` | death or termination of the daemon, its return |

A read handler takes everything that has arrived and handles the first request
only; the rest is discarded. libevent reads 4096 bytes at a time, so that of
several requests, or of a large one, the end stays behind: whole requests, perhaps
after the tail of one that was read in part (`Remainders`). The tail is met as
`Junk` and refused (`RejectTail`), unless it is shorter than a header: then the read
callback's low watermark makes it wait for what comes next. A refused request closes the connection and what was queued on it is
not written. A message is read or written whole: a signal between the header and
the payload of one reply is not modelled. The call's lock is held from
`SendRequest` to its end.

### TypedCalls and ConfdUtil

One client and one key. `row` is the key's row (its type and its column),
`request` and `reply` the message on its way with its size in bytes, `call` and
`result` the call and its outcome, `given` the argument the row was set to. The
conversions are operators, in the order in which a value meets them: `ToItem`
(`confd_set_*`), `ValuesOf` (`doCfgUpdate`; a set where what is read lies beyond a
buffer), `Row` (`TypeForValue`, `BindValue`), `ItemOf` (`getKey`, `sendKeyValue`),
`Converted` (`confd_get_*`). `Accepted` is the test of a message's length, `Loaded`
what `cbor_load` may find where that test lets too much through. What then stays
behind (`Rest`) is refused when it is as long as a header, and otherwise run together
with the next request (`After`).

| Action | Code |
|---|---|
| `Set`, `Get`, `Delete`, `Reopen` (also within `Application`) | the wrappers up to their call, `confd_open`, `confd_close` |
| `ReceiveReply`, `ReceiveEof` | `receivePacket`, `ExtractValue` and the getter's conversion |
| `HandleQuery`, `HandleUpdate`, `RejectUpdate`, `RejectRest` | `handleClientRead` with `doCfgQuery` or `doCfgUpdate`, and `abortClient` |
| `Invoke`, `Connect`, `ReadKey`, `WriteKey`, `Throw`, `Finish` (`ConfdUtil`) | `main` of confd-util from its options to its exit status |

Sizes are scaled: a word has two bits, a header two bytes, one read five. A text
on the tool's command line is a record of what each parser makes of it; signed and
unsigned numbers have parsers, and thus fields, of their own.

### ConfdDaemon

`stage` is the place in `main` and `MainLoop`; `pending` holds the signals that
libevent has caught, `batch` and `timer` what is left of the current pass of the
loop, `due` the time until the watchdog's timer, `age` the time since the last
sign of life, `sock` whether the socket's file exists. `Proceed` and `Throw` are
the steps of the start and their exceptions, `TestRun` the test of `gRun`,
`Collect`, `Serve`, `Wait`, `handleTermination` and `Kick` the loop and its callbacks, `Stop`, `CloseServer`
and `Return` the way out. `StartService`, `StopService`, `Restart` and
`WatchdogKill` are systemd's, as `confd.service` configures it; `Hang` is a handler
that never returns. Time passes only in handlers and in `Wait`.

### ConfigReader

`stack` replaces the recursion of `Read` by what is left to include at each level,
`opened` is `gOpenedFiles`, `socket` and `storage` the file that has set them. A file
is a record of what the readers make of its tables. Paths are compared as they
are spelled, as the code does.

### SrmDevices and SrmCore

`hw` holds, per clock parent and regulator, its use count, the driver's `enabled`
flags (`on`), the devices probed in early boot (`early`), what has leaked, and the
kinds of fault that have happened. `left` are the regulators the boot loader left
on, `chain` the notifier chain, `handler` the request in hand, `dev` each child's
state, `stage` the place in prepare or unprepare.

| Action | Code |
|---|---|
| `Populate`, `NoChild`, `MasterAdd`, `Timeout`, `Woken`, `MasterDel`, `Depopulate` | `rproc_srm_core_prepare` and its error path |
| `UnregisterRpmsg`, then `MasterDel`, `Depopulate` | `rproc_srm_core_unprepare` |
| `ProbeFails`, `Register`, `ComponentAdd` | `rproc_srm_dev_probe` |
| `RemoveBegin`, `RemoveEnd`, `RemoveCore` | `rproc_srm_dev_remove`, `rproc_srm_core_remove` |
| `Request` | `rpmsg_srm_cb` with `rproc_srm_dev_notify_cb`; the test and the switching of a regulator are two steps |
| `Start`, `Stop`, `StartGone`, `WalkFreed` | remoteproc and the notifier chain (external) |

Binding (`Bound`, `BindFailures`, `Unbound`) is an effect on `hw` that `MasterAdd`
and `ComponentAdd` apply to all devices in the order of the device tree. When one
overtakes a request in hand, which has read already what it will act upon, the
fault `overlap` is recorded. A clock's parent is asked for again when it is switched
off; it is taken to be the one that was switched on. `oops`
says that memory was used after it was freed; nothing is claimed after it.

### InitOverlays

`pc` is the script's next command, `label` the partition's name in the table, `fs`
and `media` what is on the medium, `cache` what the mounted file system holds.
One action per command; `Fails` is `set -e`, and the pipes and `find -exec` that
hide a status have their own alternatives. `Restart` keeps any part of what was
not written out.

### ClientBase

`table` is the process's descriptor table, since the library stores descriptor
numbers; `client[c]` the members of the object; `posted`, `received` and `input` the
packets sent by the remote, taken by the bufferevent, and buffered. `Construct`,
`Destroy`, `sendPacket`, `Receive` (with `bevRead`), `bevEvent`, `Activate`,
`handleTermination` and `DestroyLoop` are the library's; `AppOpen`, `Post` and `Hangup`
the application's and the remote's. The end of a connection is reported after all
that was sent before it; an error may be reported before what waits is read. A
packet that can no longer be sent fails with an error, or ends the process by
SIGPIPE where that is not ignored.

## 3. Runs

| Run | Instance | Checks |
|---|---|---|
| `data_store` | two keys, one below the other, five inputs of three value types, three row ids, two instants | all of section 4's store properties |
| `rpc_threads` | two threads, one process, one connection, three requests, tags modulo 2, three values of two types, weak fairness | `TypeOK`, `PipelineOrdered`, `LagBounded`, `OwnReply`, `AnswersAreCurrent`, `CallsReturn` |
| `rpc_processes` | two processes of one thread, two connections of two requests each | `AnswersAreCurrent` across connections, closing and reopening |
| `typed_calls` | an application and the tool in turn; integers of two bits, two bytes, every length from 0 to 8 around one read of 5 and a length field modulo 9 | `NumbersRoundTrip`, `GettersMatchSetters`, `BlobsKeepTheirBytes`, `StringsKeepTheirText`, `RepliesFit`, `ReadsShowConfirmedWrites`, `UtilEnds` |
| `srm` | two devices, one clock, two regulators, one removal by hand, one start after a leak | `ReleasedWhenOff`, `FlagsMatchUse`, `RunsWithResources`, `EarlyBootSyncs`, `FreedIsUnused` |
| `confd_daemon` | two clients, an interval of ten, handlers of at most one, two faults | `OnlyHungKilled`, `SignalsEnd`, `StaysUp` |
| `config_reader` | a root, two files, a directory, a missing name: all their inclusions, and all contents | `AcceptedIsWhole`, `LoopsAreRejected`, `ReadEnds` |
| `init_overlays` | three directories, two hooks, five faults | `NamedIsComplete`, `UserDataIsKept`, `ComesUp` |
| `client_base` | one client, two descriptors, tags modulo 3, two packets out and three in | `HandledInOrder`, `GoodAreHandled` |
| `null_key`, `close_race`, `client_sends` | small instances of the same modules | one disagreement each, section 5 |

Why the bounds are enough. *Store*: an operation concerns one key or the keys
below it, so two keys show interference; three ids let a deleted key be made
again under a new id and the sequence run out; a string, a bool and the two
empty kinds give two value tables, two kinds without one, and two values of one
type; two instants tell a fresh stamp from an old one; `IdMod` is above `MaxId`
as 2^32 is above any id in use. *RPC*: with tags modulo 2, three requests wrap
the tag, and two threads are enough for one to inherit the other's reply;
the property's bound on interrupted calls is stated against `TagMod`, so that it
has the same form for 256. *Values*: what matters of a size is where it stands to
one read, to one read and a header, and to the length field; lengths up to 8
pass the first two, and `LimitAssumption` states that the third is beyond what is
accepted, as 2^16 is beyond 4096. *Resource manager*: one device before and one
after a failing one, a regulator for each, a clock for one; one removal meets
every step of everything else. *Life cycle*: two clients make a pass in which the
timer waits for one and not for the other; `TimesAssumption` says that all clients
can be served twice in half the watchdog's interval. *Boot*: five faults let
power losses follow a misread table, a failed command and a failed hook. *Configuration*: three files
make loops of one, two and three, and a diamond. *pl-common*: two descriptors are
the one the process had and the one the client gets; three packets let a short
one be run together with the next and a third follow.

Deadlock is checked in the runs of `DataStore`, `ConfdRpc`, `ConfdUtil` and
`ConfdDaemon`, where the daemon, the tool or the service manager can always go on. It is not
checked where the system may stop: a kernel after use of freed memory or without
anybody to start the remote processor, a machine on which init runs, a
configuration that has been read, a process that was killed or whose bounds are
used up.

Fairness. *`rpc_threads`.* Weak fairness of the event loop per connection (`Serve`):
`event_base_dispatch` serves every ready descriptor. `RejectTail` is not part of it, as
nothing says that a tail is long enough to be looked at. Weak fairness of a thread
that can send or receive: the scheduler runs a runnable thread, and calls on a
connection are finite in number here, so that the lock comes free for good. (With an
unbounded stream of calls, `std::mutex` promises no order, and weak fairness
would not be enough.) Nothing is assumed of clients calling, of interrupts, of
a daemon being stopped or restarted. *`typed_calls`*: the tool runs, and the daemon
serves the request; nobody has to invoke the tool. *`srm`* claims no liveness. *`confd_daemon`*: the
process runs, systemd restarts a failed service and kills one that missed its
interval; failing starts and hangs are bounded by `MaxFaults`. *`init_overlays`*: the
script runs, a machine that has stopped is switched off and on; faults are
bounded. *`config_reader`*: reading goes on. *`client_base`*: the loop dispatches what is
ready; clients, remotes and signals are free.

Outside the models, and assumed: SQLite's transactions; that a partition table is
written whole; that a mounted file system loses at most what was not written out;
libevent's order of a pass (connections, then the timer); systemd's reading of
`confd.service`; the component framework's binding in device tree order; that clocks keep
their parents while they are bound; that a notifier chain lets requests and
registration exclude each other.

## 4. Properties

*Store* (`DataStore`). `RowsConsistent`: one value row per key, in its type's
table, and no orphans, in the committed database at all times.
`SchemaAtomic`: no partial schema survives. `NewerSchemaUntouched`: a database
of a later release is refused before it is written. `ReadsFailOnlyOnFault`: the
consistency errors of `getKey` are unreachable. `SetsFailOnlyWhenRefused`: a set
fails for a documented reason, for an SQLite error, or for the null key of
section 5. `TypesChangeThroughNull` and `ChangesAreStamped` hold of every
committed step. `ImplementsKVStore`: the refinement. `Inductive` is the
invariant the proofs use, checked here too.

*Calls* (`ConfdRpc`). `PipelineOrdered`: what is on its way on a connection is
in the order of the requests, whatever was discarded. `LagBounded`: no reply on
its way is older than the number of interrupted calls. Hence `OwnReply`: with fewer than
`TagMod` interrupted calls on a connection, a successful call got its own reply. `AnswersAreCurrent`: a get
returns a value its key had during the call, a set that succeeds was committed
during the call. `CallsReturn`: every call ends.

*Values* (`TypedCalls`). `NumbersRoundTrip`: signed integers survive unsigned items
and signed columns, doubles too but for NaN, which reads as 0.
`GettersMatchSetters`: no getter succeeds on a value of another kind, but that bools
and nulls are integers. `BlobsKeepTheirBytes`: a blob that was accepted, of one read or
more, comes back at its full length or cut to the buffer, and only its last
bytes, a header's worth at most, may be others than were sent.
`StringsKeepTheirText`: a string of one read comes back as the whole C string that
starts at its first byte, up to its first NUL or with what a missing NUL may add, or
as much of it as the buffer has room for; its full length is reported. `RepliesFit`: no stored value makes a reply longer
than the length field can say.

*Tool* (`ConfdUtil`). `ReadsShowConfirmedWrites`: what a write reported is what a read
prints. `UtilEnds`: every invocation ends.

*Life cycle* (`ConfdDaemon`). `OnlyHungKilled`: the watchdog never kills a daemon that
does not hang, however clients and timer fall. `SignalsEnd`: a termination
signal at any moment ends the process. `StaysUp`: a wanted daemon is up again
after every failure.

*Configuration* (`ConfigReader`). `AcceptedIsWhole`: every file the root leads to was
read, once, the allow list is complete, and the settings the daemon needs were
made. `LoopsAreRejected`: no loop is accepted. `ReadEnds`: reading ends.

*Resource manager* (`SrmCore`). `ReleasedWhenOff`: after unprepare, or after prepare
has failed at any step, nothing is registered, bound, counted or on, but for two
named faults. `FlagsMatchUse`: flags and use counts agree and none is disabled too
often, through removals and later probes, unless a bind or unbind overtakes a request
in hand. `RunsWithResources`: a running processor has its resources.
`EarlyBootSyncs`: attaching to running firmware switches nothing on.
`FreedIsUnused`: memory is used after it was freed in two named cases only.

*Boot* (`InitOverlays`). `NamedIsComplete`: a partition named `userdata` is complete on
the medium. `UserDataIsKept`: none that init has run on is formatted, unless the
table could not be listed. `ComesUp`: when faults stop, the system comes up.

*pl-common* (`ClientBase`). `HandledInOrder`: well-formed packets are handled once, in
order, and none that has been received is passed over, but for one run together with a
short packet before it. `GoodAreHandled`: they are received and handled eventually,
also when the remote hangs up after them, unless an error is reported first.

The model of each component also states a type invariant, and all of these are
proved; those of `DataStore` and `ConfdRpc` are among the properties of their runs.

## 5. Disagreements found

Three runs show the code doing something other than what the repository says:

1. `null_key` (`NullKeysTakeAnyValue`): a key that is null can never be given a
   typed value: `updateKey` deletes from the value table of type null, which does
   not exist, and SQLite rejects the statement. The comments of `setKey` promise it.
2. `close_race` (`NoUseAfterClose`): `confd_close` frees the connection without
   taking its lock, under a thread that is in a call.
3. `client_sends` (`SendsGoToRemote`): at the end of a connection pl-common sets its
   descriptor to 0; later packets go to whatever the process has there.

Further promises are stated beside the properties of their module; each fails,
and TLC prints the behaviour when it is added to the module's configuration. The
properties of section 4 name the same cases as their exceptions.

| Promise | What the code does | Configuration |
|---|---|---|
| `DeletesFailOnlyForChildren` | `deleteKey` fails for every name: `hasChildren` binds a parameter its statement does not have | `MCDataStore.cfg` |
| `ConnectionStaysValid` | a request that is refused costs the client its connection, which `confd.h` says stays valid | `RpcThreads.cfg` |
| `CallsAwaitTheirReply` | after one interrupted call every later call reads its predecessor's reply and fails | `RpcThreads.cfg` |
| `TagsIdentifyRequests` | after as many interrupted calls as there are tags (256) a call takes the reply to another request | `RpcThreads.cfg` |
| `BoolsRoundTrip` | `confd_get_bool` cannot read what `confd_set_bool` has set | `ConfdUtil.cfg` |
| `NullIsStored` | `confd_set_null` stores the integer 0 | `ConfdUtil.cfg` |
| `StringsRoundTrip` | the daemon reads a string up to a NUL that nothing puts there | `ConfdUtil.cfg` |
| `BlobsRoundTrip` | a request up to a header longer than one read is accepted, its last bytes come from beyond the buffer | `ConfdUtil.cfg` |
| `HangupRestarts` | SIGHUP, said to restart the daemon, ends it for good | `ConfdDaemon.cfg` |
| `OnlyLoopsAreRejected` | two files that include a third are refused as a recursion | `ConfigReader.cfg` |
| `BothMustMatch` | an entry for a group and an unknown user is kept for the group alone | `ConfigReader.cfg` |
| `AllGood` | a format hook that fails is never run again | `InitOverlays.cfg` |
| `CleansUp` | after the end of a connection the destructor closes descriptor 0 and leaks the socket | `ClientBase.cfg` |
| `NoLoopIsRefused` | the constructor uses a null event loop before it tests it | `ClientBase.cfg` |
| `LoopIsReleased` | a loop that is not the main one frees pointers it never set | `ClientBase.cfg` |

Where no line of the repository says otherwise there is no run of its own, and the
exception is a named conjunct of a property: a bind whose regulators fail leaves
its clock parents on (`rproc_srm_dev.c` 636); a probe that fails because the bind
did leaves its notifier on the chain (693); a device that is removed is unbound
before its notifier is gone (712); a core that is removed stays known to
remoteproc (`rproc_srm_core.c` 280). The models further show that a send between a
hang-up and its event ends the process by SIGPIPE, or throws where that signal is
ignored (`sendRaw`), and that a packet of
pl-common above 4096 bytes is read beyond its buffer (`Outcomes`).

## 6. Proofs

Every safety property that a passing run checks is also proved by TLAPS, for every
value of the constants that meets the assumptions.
`PROJECT.json` lists the theorems. Almost none of the properties is inductive as it
stands; each module therefore first proves `InductiveInvariant`, that a stronger
formula always holds, with one lemma per action, and the properties follow from
that formula. The assumptions are those the modules state about their constants,
which TLC evaluates in the runs; there are no others.

### DataStoreProofs

`InductiveInvariant`, and from it `RowsAlwaysConsistent`, `SchemaAlwaysAtomic`,
`NewerSchemaNeverTouched`, `ReadsAlwaysConsistent` and `TypeCorrect`. Assumptions:
`NamesAssumption`, `DataAssumption`, `InputsAssumption`, `BelowAssumption`,
`MaxIdAssumption`, `IdModAssumption`, `MaxTimeAssumption`.

`RowsConsistent` is not inductive: in the middle of a transaction the
connection's view is inconsistent on purpose. `Inductive` adds `TxnInv` (when a
transaction is open, and that view and disk agree otherwise), `SchemaInv` (where
the schema stands), `CallInv` (which operation runs) and `StepInv`: before each
statement, all rows but the one being moved are consistent, and that one is at
the point of its move that `pc` says. So what COMMIT makes durable is consistent,
and what ROLLBACK restores was. The file goes from the effect of single
statements on a database (`KeyInsertedDb` and so on), over their effect on
consistency (`InsertedRows`, `RetypedRows`, ...), to one lemma per action.

The second half of the module proves `Implementation`: every behaviour of `DataStore`
is one of `KVStore`, where the map of a state is what the committed rows stand for.
The SQL statements of a set map to stuttering steps and its COMMIT to the map's atomic write. This needs more than
consistent rows: `Refining` adds to `Inductive` that the open transaction has
changed no row but that of the request's name, and that before COMMIT this row
holds the request's value and a fresh stamp (`SetInv`); that a get reads the row
that its first statement found (`ReadInv`); and what a request is (`RequestInv`). `SetsAlwaysFailOnlyWhenRefused`,
`TypesAlwaysChangeThroughNull` and `ChangesAlwaysStamped` come from the same
invariant; the last two are properties of steps.

### ConfdRpcProofs

`TypeCorrect`, `AlwaysOrdered`, `LagAlwaysBounded`, `AlwaysOwnReply`,
`AnswersAlwaysCurrent` and `CallsNeverStuck`, for any number of processes, threads,
calls, connections and tags. Assumptions: `HomeAssumption`,
`ThreadsAssumption` (finitely many threads), `TagAssumption`, `BoundAssumption`,
`CloseAssumption`, `ValueAssumption`.

That a call gets its own reply when fewer than `TagMod` calls were interrupted
rests on a count: the messages of a connection are, from the client's request
back to the client's inbox, in the order of their numbers (`OrderInv`), and each
interrupted call lets the replies fall behind by one at most (`LagInv`, `CountInv`).
A reply whose tag matches is thus the right one or a whole turn of the tags
behind, and for the latter there were not interruptions enough. That the answer
is current follows from where its value was taken: a message with the number of
a waiting call is its request or a reply made while that call was open
(`MatchInv`, `WindowInv`). `ConnInv` and `LockInv` say whose a connection is and that one
thread at a time waits on it.

`CallsNeverStuck` is what liveness needs of the states: a thread that waits has a
reply to read, a connection that was closed under it, or a running daemon with
its request or reply at hand (`NeverStuck`); the tail of an older request alone would
not do, since the daemon may wait for more of it. It holds because the daemon discards
what it drains only behind a request that it answers, and closes the connection
whenever it does not answer.

### ConfdUtilProofs

`NumbersAlwaysRoundTrip`, `GettersAlwaysMatch`, `BlobsAlwaysRoundTrip`,
`StringsAlwaysKeepText`, `RepliesAlwaysFit`, `WritesAlwaysShown`,
`CallsAlwaysAnswered` and `TypeCorrect`, for every value,
word width, message size and buffer. The runs have words of two bits and reads
of five bytes; the proofs cover the code's 64 bits and 4096 bytes. Assumptions:
`BytesAssumption`, `WordAssumption` (a word holds a bool), `RealsAssumption`, `SizeAssumption`,
`SmallAssumption` (a message without content fits one read), `LimitAssumption` (what
is accepted is below the length field's range), `InputsAssumption`,
`TextsAssumption`, `InvocationsAssumption`, `BufferAssumption`.

`CallsInv` says that the row is what became of the latest argument that got
through (`StoreInv`), that the call is a possible one (`CallInv`), that a message on
its way is the one this call makes or the one this row gives (`MessageInv`), and
that a result is that of the call on the row (`ResultInv`, `OpenInv`). `UtilInv` adds
where `main` of confd-util is. The lemmas before it are about the conversions: the
two's complement of a word, texts up to their NUL, lengths modulo the field.
`AnswerInv` adds that a pending call has a message under way or a closed
connection; with it every variable has its type.

### ConfdDaemonProofs

`AlwaysOnlyHungKilled`, for any finite number of clients (`ClientsAssumption`) and
any times that meet `TimesAssumption`. The timer is never further ahead than half the
interval after the last sign of life (`Ahead`), and it is late by at most two
passes of the loop: the one that was collected before it fell due, and the one
that serves it last (`InTime`, with `FirstPass` and `SecondPass` for the part of a pass
that is over). With `TimesAssumption`, the sum is below the interval.

`SignalsAlwaysKept`: as long as the process lives, a signal that was sent is caught
in libevent or has cleared `gRun`, wherever it fell; none is lost between the test
of `gRun` and the loop. `DownOnlyWhenTold`: a daemon that is wanted and down is due for
a restart, or SIGHUP has ended it (the disagreement `HangupRestarts`). Both come from
`Told`, which says what a pending signal and a cleared `gRun` stand for; with `Fields`
and `Limits`, the bounds of the clocks, they also give `TypeCorrect`.

### ConfigReaderProofs

`AcceptedIsAlwaysWhole` and `LoopsAreAlwaysRejected`, for any names, directories and
contents of files, and loops of any length. Assumptions: `NamesAssumption`,
`TreesAssumption`. The files the root leads to are the least set that is closed
under inclusion, rather than the ends of paths, so that no argument goes by
induction over a path. While reading goes on, what an opened file includes was
opened or waits on the stack (`FoundInv`), so that an empty stack leaves a closed set.
A file that is opened while it still waits on the stack dooms the run; as long as
there is none, files include only what was opened after them (`OrderInv`),
which leaves no room for a loop. Each entry is in the allow list as often as in the
files opened so far (`ListInv`), and the settings come from files that were opened
(`SettingsInv`). `AlwaysGoesOn` says that reading stops only when it is done or has
failed, and `TypeCorrect` gives the types.

### SrmProofs

`AlwaysReleasedWhenOff`, `FlagsAlwaysMatchUse`, `AlwaysRunsWithResources`,
`EarlyBootAlwaysSyncs`, `FreedIsAlwaysUnused` and `TypesAlwaysHold`, for any devices,
clocks, regulators, requests and number of removals. Assumptions:
`ListsAssumption`, `RequestsAssumption`, `ConfigAssumption`, `MatchAssumption`.

The place in prepare or unprepare determines which devices are there and
whether the master is bound (`StageInv`, `BoundInv`), also for a request that is half
done when a device goes (`HandlerInv`: what it has read still holds, unless a bind or
unbind has overtaken it, for which a device must have been removed). A device without its resources has none
of them on (`ZeroInv`), flags agree with counts (`FlagsInv`), a count above zero
without a bound master has a named fault as its reason (`LeakInv`), and what
binding switched on is on until the remote asks otherwise (`OnInv`). Binding and
unbinding walk over all devices; their lemmas say of the whole walk which
resources it may touch, that it keeps flags and counts together, and what it
may leave behind.

### InitOverlaysProofs and ClientBaseProofs

`NamedAlwaysComplete` and `UserDataAlwaysKept`, for any directories, hooks and number
of faults (`DirsAssumption`, `FaultsAssumption`): each command of the format finds
what the ones before it were for, in the cache before `umount` and on the medium
after it (`FormatInv`); a complete partition stays so while it is mounted
(`MountInv`); init runs on another one only after the table was misread (`UseInv`).
`AlwaysRefusedOnlyMisread`: no power loss leaves a disk on which a command of a later
boot must fail; without a fault of its own a boot ends only after the table was
misread (`TableInv` for the creation of the partition). `TypeCorrect` is part of the
invariant.

`AlwaysHandledInOrder` and `TypeCorrect`, for any clients, packets and number of
descriptors (`BoundsAssumption`): the input buffer holds at most one short packet,
later than all that were handled, and what else was received and is whole has
been handled (`InputInv`). That a client's descriptor is one of the table's needs the
least free descriptor to exist (`MinOfFds`), for tables of any size.

### Only model-checked

Liveness under fairness is out of the prover's reach: `CallsReturn`, `UtilEnds`,
`SignalsEnd`, `StaysUp`, `ReadEnds`, `ComesUp` and `GoodAreHandled` stay with TLC. What
they rest on is proved where it is a property of states: `CallsNeverStuck`,
`CallsAlwaysAnswered`, `SignalsAlwaysKept`, `DownOnlyWhenTold`, `AlwaysGoesOn`,
`AlwaysRefusedOnlyMisread`, and the second half of `HandledInOrder`. The runs that expect a violation have nothing to prove.

## 7. Plan

All components with behaviour of their own are modelled, and their safety
properties are proved. What could follow: the access list, once the server
consults it; a signal between the header and the payload of one reply
(`receivePacket`); a refinement from `ConfdRpc` to `KVStore` proper, where the
present one is by the store's single caller.

## 8. Not modelled

Recipes, machine and distribution configuration, device trees, flash tables and
third-party packages have no behaviour of their own. Logging changes no state.
The access list is parsed (`ConfigReader`) and never consulted by the server, so
that there is no enforcement to model. Left out of modelled components: the
fields by which a message names a key, and query flags that libconfd never sets;
the options of confd's command line; the mode of its socket; the layout of what
confd-util prints; voltages and clock rates, whose setting succeeds or fails;
the watchdog and signal events of pl-common's event loop, which repeat those of
confd (`ConfdDaemon`).

## 9. Running

    tlc -workers 2 -config MCDataStore.cfg MCDataStore
    tlc -workers 2 -config RpcThreads.cfg MCConfdRpc
    tlc -workers 2 -config ConfdUtil.cfg MCConfdUtil
    tlc -workers 2 -config SrmCore.cfg MCSrmCore
    tlc -workers 2 -config ClientBase.cfg ClientBase
    tlapm DataStoreProofs.tla
    tlapm ConfdRpcProofs.tla
    tlapm ConfdUtilProofs.tla
    tlapm ConfdDaemonProofs.tla
    tlapm ConfigReaderProofs.tla
    tlapm SrmProofs.tla
    tlapm InitOverlaysProofs.tla
    tlapm ClientBaseProofs.tla

`PROJECT.json` names each run's module and configuration, the source lines of
every definition, and for each checked property a mutation of the code that
breaks it.
