------------------------------ MODULE ConfdDaemon ------------------------------
(***************************************************************************)
(* The life of the confd process: main() with its ways to fail, the event  *)
(* loop with its termination signals and watchdog timer, the shutdown, and *)
(* the service manager that starts, supervises and restarts it             *)
(* (main.cpp, watchdog.cpp, RpcServer's events, confd.service).            *)
(*                                                                         *)
(* libevent and systemd are external.  A pass of the event loop collects   *)
(* the connections that are ready, in any number, then the timer if it is  *)
(* due, and runs them all before it looks at the clock again.  What the    *)
(* handlers do is in ConfdRpc; here they take time.                        *)
(***************************************************************************)
EXTENDS Integers, FiniteSets

CONSTANTS
    Clients,    \* connections
    Half,       \* half of the watchdog interval, the period of the timer
    MaxBlock,   \* the longest that a handler takes, unless it hangs
    MaxFaults   \* bound on failing starts and hanging handlers

Interval == 2 * Half

ASSUME ClientsAssumption == IsFiniteSet(Clients) /\ "signal" \notin Clients

\* WatchdogSec leaves time for two passes in which every client is served.
ASSUME TimesAssumption ==
    /\ Half \in Nat /\ MaxBlock \in Nat /\ MaxFaults \in Nat
    /\ 2 * Cardinality(Clients) * MaxBlock < Half

VARIABLES
    stage,      \* where main() is; "exited" when there is no process
    gRun,
    pending,    \* the signals that libevent has caught
    batch,      \* what is left of the current pass: connections, "signal"
    timer,      \* and the watchdog's timer
    due,        \* the time until the timer is due; it may be late
    hung,       \* does the current handler hang?
    sock,       \* does the socket's file exist?
    store,      \* is the data store open?
    ready,      \* READY=1 was sent, and STOPPING=1 was not
    age,        \* the time since the last sign of life
    code,       \* how the latest process ended
    wanted,     \* does the administrator want the service to run?
    hup,        \* history: SIGHUP was sent to the process
    killed,     \* history: the watchdog killed a process that did not hang
    faults

procVars == <<stage, gRun, pending, batch, timer, due, hung, sock, store>>
vars == <<procVars, ready, age, code, wanted, hup, killed, faults>>

Init ==
    /\ stage = "exited"
    /\ gRun = TRUE
    /\ pending = {}
    /\ batch = {}
    /\ timer = FALSE
    /\ due = Half
    /\ hung = FALSE
    /\ sock = FALSE
    /\ store = FALSE
    /\ ready = FALSE
    /\ age = 0
    /\ code = "clean"
    /\ wanted = FALSE
    /\ hup = FALSE
    /\ killed = FALSE
    /\ faults = 0

Faulted == faults < MaxFaults /\ faults' = faults + 1

\* The process is gone; the kernel closes what it had open.
Ends(how) ==
    /\ stage' = "exited"
    /\ code' = how
    /\ ready' = FALSE
    /\ store' = FALSE
    /\ pending' = {}
    /\ batch' = {}
    /\ timer' = FALSE
    /\ hung' = FALSE

--------------------------------------------------------------------------------
(* The service manager.                                                    *)

\* A new process; the static gRun is set.
Exec ==
    /\ stage = "exited"
    /\ stage' = "init"
    /\ gRun' = TRUE
    /\ hup' = FALSE
    /\ UNCHANGED <<pending, batch, timer, due, hung, sock, store, ready, age, code, killed, faults>>

StartService == (~wanted \/ code \in {"clean", "signalled"}) /\ wanted' = TRUE /\ Exec

\* Restart=on-failure: not after exit status 0, nor death by SIGTERM, SIGINT or
\* SIGHUP.
Restart == wanted /\ code \in {"failure", "aborted"} /\ UNCHANGED wanted /\ Exec

\* The watchdog sends SIGABRT.
WatchdogKill ==
    /\ ready /\ age >= Interval
    /\ Ends("aborted")
    /\ killed' = (killed \/ ~hung)
    /\ UNCHANGED <<gRun, due, sock, age, wanted, hup, faults>>

Handled == {"serve", "test", "loop"}

\* A signal: libevent catches it while its events exist, else the process dies.
Send(signal) ==
    /\ stage # "exited"
    /\ hup' = (hup \/ signal = "HUP")
    /\ IF stage \in Handled
       THEN /\ pending' = pending \cup {signal}
            /\ UNCHANGED <<stage, batch, timer, hung, store, ready, code>>
       ELSE Ends("signalled")
    /\ UNCHANGED <<gRun, due, sock, age, killed, faults>>

StopService == wanted /\ wanted' = FALSE /\ Send("TERM")
Hangup == Send("HUP") /\ UNCHANGED wanted

--------------------------------------------------------------------------------
(* main().                                                                 *)

\* Watchdog::Init, Config::Read, the DataStore, the RpcServer: each may throw.
\* A constructor that throws leaves the socket's file, which the next unlinks.
Steps == [init |-> "config", config |-> "store", store |-> "server", server |-> "serve"]
NeedsNoSocket ==
    /\ stage \in DOMAIN Steps
    /\ stage = "server" => ~sock
    /\ stage' = Steps[stage]
    /\ store' = (store \/ stage = "store")
    /\ sock' = (sock \/ stage = "server")
    /\ due' = Half
    /\ UNCHANGED <<gRun, pending, batch, timer, hung, ready, age, code, wanted, hup, killed, faults>>
Proceed ==
    /\ stage \in DOMAIN Steps
    /\ stage' = Steps[stage]
    /\ store' = (store \/ stage = "store")
    /\ sock' = (sock \/ stage = "server")
    /\ due' = Half
    /\ UNCHANGED <<gRun, pending, batch, timer, hung, ready, age, code, wanted, hup, killed, faults>>
Throw ==
    /\ stage \in DOMAIN Steps
    /\ Faulted
    /\ Ends(IF stage = "init" THEN "aborted" ELSE "failure")
    /\ sock' \in {sock, sock \/ stage = "server"}
    /\ UNCHANGED <<gRun, due, age, wanted, hup, killed>>

\* Watchdog::Start
Start ==
    /\ stage = "serve"
    /\ stage' = "test"
    /\ ready' = TRUE
    /\ age' = 0
    /\ UNCHANGED <<gRun, pending, batch, timer, due, hung, sock, store, code, wanted, hup, killed, faults>>

\* while(gRun) server.run()
TestRun ==
    /\ stage = "test"
    /\ stage' = IF gRun THEN "loop" ELSE "stop"
    /\ UNCHANGED <<gRun, pending, batch, timer, due, hung, sock, store, ready, age, code, wanted, hup, killed, faults>>

\* Watchdog::Stop, then the destructor.  Signals are not caught any more.
Stop ==
    /\ stage = "stop"
    /\ stage' = "close"
    /\ ready' = FALSE
    /\ pending' = {}
    /\ UNCHANGED <<gRun, batch, timer, due, hung, sock, store, age, code, wanted, hup, killed, faults>>
CloseServer ==
    /\ stage = "close"
    /\ stage' = "closed"
    /\ sock' = FALSE
    /\ UNCHANGED <<gRun, pending, batch, timer, due, hung, store, ready, age, code, wanted, hup, killed, faults>>

\* store.reset(), return 0
Return ==
    /\ stage = "closed"
    /\ Ends("clean")
    /\ UNCHANGED <<gRun, due, sock, age, wanted, hup, killed, faults>>

--------------------------------------------------------------------------------
(* The event loop.                                                         *)

InLoop == stage = "loop" /\ ~hung
Rest == UNCHANGED <<gRun, pending, sock, store, ready, code, wanted, hup, killed>>
Passes(n) == age' = age + n /\ due' = due - n

\* Collect what is ready.
Collect ==
    /\ InLoop /\ batch = {} /\ ~timer
    /\ \E C \in SUBSET Clients :
          /\ batch' = C \cup {"signal" : s \in pending}
          /\ timer' = (due <= 0)
          /\ batch' # {} \/ timer'
    /\ Rest /\ UNCHANGED <<stage, due, hung, age, faults>>

\* Nothing is ready: wait.
Wait ==
    /\ InLoop /\ batch = {} /\ ~timer /\ pending = {} /\ due > 0
    /\ Passes(1)
    /\ Rest /\ UNCHANGED <<stage, batch, timer, hung, faults>>

\* A connection's handler, which may hang.
Serve(c) ==
    /\ InLoop /\ c \in batch \ {"signal"} /\ age < Interval
    /\ \/ /\ \E n \in 0 .. MaxBlock : Passes(n)
          /\ batch' = batch \ {c}
          /\ UNCHANGED <<hung, faults>>
       \/ hung' = TRUE /\ Faulted /\ UNCHANGED <<batch, age, due>>
    /\ Rest /\ UNCHANGED <<stage, timer>>
Hang ==
    /\ stage = "loop" /\ hung /\ age < Interval
    /\ Passes(1)
    /\ Rest /\ UNCHANGED <<stage, batch, timer, hung, faults>>

\* handleTermination: the rest of the pass is dropped.
ClearsFlagOnly ==
    /\ InLoop /\ "signal" \in batch
    /\ gRun' = FALSE
    /\ pending' = {}
    /\ batch' = batch \ {"signal"}
    /\ UNCHANGED <<stage, timer, due, hung, sock, store, ready, age, code, wanted, hup, killed, faults>>
handleTermination ==
    /\ InLoop /\ "signal" \in batch
    /\ gRun' = FALSE
    /\ pending' = {}
    /\ batch' = {} /\ timer' = FALSE
    /\ stage' = "test"
    /\ UNCHANGED <<due, hung, sock, store, ready, age, code, wanted, hup, killed, faults>>

\* Watchdog::Kick from the persistent timer, which is set anew from the time it
\* was due.
TimerPeriod == Half
TimesButDoesNotKick ==
    /\ InLoop /\ batch = {} /\ timer
    /\ timer' = FALSE
    /\ due' = IF due + TimerPeriod >= 0 THEN due + TimerPeriod ELSE TimerPeriod
    /\ Rest /\ UNCHANGED <<stage, batch, hung, age, faults>>
Kick ==
    /\ InLoop /\ batch = {} /\ timer
    /\ timer' = FALSE
    /\ age' = 0
    /\ due' = IF due + TimerPeriod >= 0 THEN due + TimerPeriod ELSE TimerPeriod
    /\ Rest /\ UNCHANGED <<stage, batch, hung, faults>>

--------------------------------------------------------------------------------
Process ==
    \/ Proceed \/ Throw \/ Start \/ TestRun \/ Stop \/ CloseServer \/ Return
    \/ Collect \/ Wait \/ (\E c \in Clients : Serve(c)) \/ Hang \/ handleTermination \/ Kick

Next == Process \/ StartService \/ Restart \/ WatchdogKill \/ StopService \/ Hangup

\* The process runs, libevent looks at its signal pipe in every pass, and the
\* service manager keeps its deadlines.
Spec == Init /\ [][Next]_vars /\ WF_vars(Process) /\ WF_vars(Restart) /\ WF_vars(WatchdogKill)

--------------------------------------------------------------------------------
(* Correctness.                                                            *)

\* Every variable holds a value of its type.
TypeOK ==
    /\ stage \in {"exited", "init", "config", "store", "server", "serve", "test", "loop", "stop",
                  "close", "closed"}
    /\ pending \subseteq {"TERM", "HUP"}
    /\ batch \subseteq Clients \cup {"signal"}
    /\ due \in -Interval - MaxBlock .. Half
    /\ age \in 0 .. Interval + MaxBlock
    /\ code \in {"clean", "failure", "aborted", "signalled"}
    /\ {gRun, timer, hung, sock, store, ready, wanted, hup, killed} \subseteq BOOLEAN
    /\ faults \in 0 .. MaxFaults

\* The watchdog kills only a process whose handler hangs: with a timer of half
\* the interval, all clients may be served in each of two passes before it is
\* looked at (initWatchdogEvent).
OnlyHungKilled == ~killed

\* A termination signal that arrives at any time, between the test of gRun and
\* the event loop too, ends the process (handleTermination, MainLoop).
SignalsEnd == \A s \in {"TERM", "HUP"} : s \in pending ~> stage = "exited"

\* A service that is wanted is up again and again, as long as it is not told to
\* end: whatever start fails and whichever handler hangs.
StaysUp == wanted /\ code \in {"failure", "aborted"} /\ stage = "exited" ~>
              stage = "loop" \/ ~wanted \/ hup

--------------------------------------------------------------------------------
\* initSignalEvents: "signals that indicate we should restart".
HangupRestarts == "HUP" \in pending /\ wanted ~> stage = "init" \/ ~wanted
================================================================================
