--------------------------- MODULE ConfdDaemonProofs ---------------------------
(***************************************************************************)
(* Proofs about ConfdDaemon: the watchdog spares a daemon that works, for  *)
(* any number of clients and any times that meet TimesAssumption, whatever *)
(* signals arrive and whatever starts fail.                                *)
(***************************************************************************)
EXTENDS ConfdDaemon, TLAPS, FiniteSetTheorems

\* The connections the current pass still has to serve, and what is left of the
\* time of a pass when those in B are still to be served.
ToServe == batch \ {"signal"}
Pass == Cardinality(Clients) * MaxBlock
Spent(B) == Pass - Cardinality(B) * MaxBlock

Stages == {"exited", "init", "config", "store", "server", "serve", "test", "loop", "stop", "close",
           "closed"}

\* The timer is never set further ahead than half an interval after the last sign
\* of life, and is late by at most the pass that did not look at it and the one in
\* which it is due.
Clocks == age \in Nat /\ due \in Int
Ahead == age + due <= Half
InTime == due + 2 * Pass >= 0
FirstPass == due + Spent(batch \ {"signal"}) >= 0
SecondPass == due + Pass + Spent(batch \ {"signal"}) >= 0
Due == due <= 0

Inductive ==
    /\ stage \in Stages
    /\ gRun \in BOOLEAN /\ timer \in BOOLEAN /\ hung \in BOOLEAN /\ ready \in BOOLEAN
    /\ ToServe \subseteq Clients
    /\ Clocks
    /\ ready => stage \in {"test", "loop", "stop"}
    /\ stage # "loop" => batch = {} /\ ~timer /\ ~hung
    /\ stage = "serve" \/ (stage = "test" /\ gRun) => due = Half
    /\ ready => Ahead
    /\ ready /\ ~hung => InTime
    /\ stage = "loop" /\ ~hung /\ ~timer => FirstPass
    /\ stage = "loop" /\ ~hung /\ timer => SecondPass /\ Due
    /\ ~killed

\* Times are numbers, and no pass takes longer than the clients allow.
LEMMA Times ==
    /\ Half \in Nat /\ MaxBlock \in Nat /\ Pass \in Nat /\ Interval = Half + Half
    /\ 2 * Pass < Half
    /\ \A B : B \subseteq Clients =>
          /\ IsFiniteSet(B) /\ Cardinality(B) \in Nat
          /\ Cardinality(B) * MaxBlock \in Nat /\ Cardinality(B) * MaxBlock <= Pass
<1>1. Half \in Nat /\ MaxBlock \in Nat /\ 2 * Cardinality(Clients) * MaxBlock < Half
  BY TimesAssumption
<1>2. Cardinality(Clients) \in Nat
  BY ClientsAssumption, FS_CardinalityType
<1>3. \A m, n \in Nat : m * n \in Nat
  OBVIOUS
<1>4. Pass \in Nat
  BY <1>1, <1>2, <1>3 DEF Pass
<1>5. \A m, n \in Nat : 2 * m * n = 2 * (m * n)
  OBVIOUS
<1>6. 2 * Pass < Half
  BY <1>1, <1>2, <1>5 DEF Pass
<1>7. ASSUME NEW B, B \subseteq Clients
      PROVE  /\ IsFiniteSet(B) /\ Cardinality(B) \in Nat
             /\ Cardinality(B) * MaxBlock \in Nat /\ Cardinality(B) * MaxBlock <= Pass
  <2>1. IsFiniteSet(B) /\ Cardinality(B) \in Nat /\ Cardinality(B) <= Cardinality(Clients)
    BY <1>7, ClientsAssumption, FS_Subset, FS_CardinalityType
  <2>2. \A m, n, p \in Nat : m <= n => m * p <= n * p
    OBVIOUS
  <2> QED
    BY <1>1, <1>2, <1>3, <2>1, <2>2 DEF Pass
<1>8. Interval = Half + Half
  BY <1>1 DEF Interval
<1> QED
  BY <1>1, <1>4, <1>6, <1>7, <1>8

\* The times that do not depend on the pass under way.
LEMMA FixedTimes ==
    /\ Half \in Nat /\ MaxBlock \in Nat /\ Pass \in Nat /\ Interval = Half + Half
    /\ 2 * Pass < Half
BY Times

\* What a pass has taken at most.
LEMMA SpentBounds ==
    /\ Spent({}) = Pass
    /\ \A B : B \subseteq Clients => Spent(B) \in Nat /\ Spent(B) <= Pass
    /\ \A B : \A c \in B : B \subseteq Clients => Spent(B \ {c}) = Spent(B) + MaxBlock
<1>1. Cardinality({}) = 0 /\ 0 * MaxBlock = 0 /\ Pass \in Nat /\ MaxBlock \in Nat
  BY FS_EmptySet, FixedTimes
<1>2. Spent({}) = Pass
  BY <1>1 DEF Spent
<1>3. ASSUME NEW B, B \subseteq Clients PROVE Spent(B) \in Nat /\ Spent(B) <= Pass
  <2> DEFINE x == Cardinality(B) * MaxBlock
  <2>1. x \in Nat /\ x <= Pass /\ Spent(B) = Pass - x
    BY <1>3, Times DEF Spent
  <2> HIDE DEF x
  <2> QED
    BY <1>1, <2>1
<1>4. ASSUME NEW B, NEW c \in B, B \subseteq Clients PROVE Spent(B \ {c}) = Spent(B) + MaxBlock
  <2>1. IsFiniteSet(B) /\ Cardinality(B) \in Nat
    BY <1>4, Times
  <2>2. Cardinality(B \ {c}) = Cardinality(B) - 1
    BY <2>1, FS_RemoveElement
  <2>3. (Cardinality(B) - 1) * MaxBlock = Cardinality(B) * MaxBlock - MaxBlock
        /\ Cardinality(B) * MaxBlock \in Int
    BY <1>1, <2>1
  <2> QED
    BY <1>1, <2>2, <2>3 DEF Spent
<1> QED
  BY <1>2, <1>3, <1>4

\* What the clocks say follows from the clocks and the pass alone.
LEMMA SameTimes ==
    ASSUME UNCHANGED <<age, due>>
    PROVE  /\ Clocks' <=> Clocks
           /\ Ahead' <=> Ahead
           /\ InTime' <=> InTime
           /\ batch' = batch => (FirstPass' <=> FirstPass) /\ (SecondPass' <=> SecondPass)
           /\ Due' <=> Due
BY DEF Clocks, Ahead, InTime, FirstPass, SecondPass, Due, Pass, Spent

\* Starts, ends and signals: there is no pass under way, or it stays as it is.
LEMMA OutsideLoop ==
    ASSUME Inductive,
           \/ StartService \/ Restart \/ Proceed \/ Throw \/ Start \/ TestRun \/ Stop
           \/ CloseServer \/ Return \/ StopService \/ Hangup \/ UNCHANGED vars
    PROVE  Inductive'
<1> USE DEF procVars
<1>1. CASE UNCHANGED <<stage, batch, gRun, timer, due, hung, ready, age, killed>>
  <2>1. ToServe' = ToServe
    BY <1>1 DEF ToServe
  <2> QED
    BY <1>1, <2>1, SameTimes DEF Inductive
<1>2. CASE \E how : Ends(how) /\ UNCHANGED <<gRun, due, age, killed>>
  <2>1. /\ stage' = "exited" /\ ~ready' /\ batch' = {} /\ timer' = FALSE /\ hung' = FALSE
        /\ UNCHANGED <<gRun, due, age, killed>>
    BY <1>2 DEF Ends
  <2>2. ToServe' = {} /\ stage' \in Stages /\ ready' \in BOOLEAN
    BY <1>2, <2>1 DEF ToServe, Stages, Ends
  <2> QED
    BY <2>1, <2>2, SameTimes DEF Inductive
<1>3. CASE UNCHANGED <<batch, timer, due, hung, ready, age, killed>>
           /\ \/ stage = "exited" /\ stage' = "init" /\ gRun' = TRUE
              \/ stage = "close" /\ stage' = "closed" /\ gRun' = gRun
              \/ stage = "test" /\ ~gRun /\ stage' = "stop" /\ gRun' = gRun
  <2>1. ToServe' = ToServe
    BY <1>3 DEF ToServe
  <2> QED
    BY <1>3, <2>1, SameTimes DEF Inductive, Stages
<1>4. CASE Proceed
  <2>1. stage' \in {"config", "store", "server", "serve"} /\ stage \in {"init", "config", "store", "server"}
    BY <1>4 DEF Proceed, Steps
  <2>2. ToServe' = {} /\ batch' = {} /\ ~timer' /\ ~hung' /\ ~ready'
    BY <1>4, <2>1 DEF Inductive, Proceed, ToServe
  <2>3. due' = Half /\ Clocks'
    BY <1>4, Times DEF Inductive, Proceed, Clocks
  <2> QED
    BY <1>4, <2>1, <2>2, <2>3 DEF Inductive, Proceed, Stages
<1>5. CASE Start
  <2>1. ToServe' = {} /\ batch' = {} /\ ~timer' /\ ~hung' /\ due = Half
    BY <1>5 DEF Inductive, Start, ToServe
  <2>2. due' = Half /\ Clocks' /\ Ahead' /\ InTime'
    <3>1. due' = Half /\ age' = 0
      BY <1>5, <2>1 DEF Start
    <3> QED
      BY <3>1, Times DEF Clocks, Ahead, InTime, Pass
  <2> QED
    BY <1>5, <2>1, <2>2 DEF Inductive, Start, Stages
<1>6. CASE TestRun /\ gRun
  <2>1. /\ batch = {} /\ ~timer /\ ~hung /\ due = Half
        /\ stage' = "loop" /\ UNCHANGED <<gRun, batch, timer, due, hung, ready, age, killed>>
    BY <1>6 DEF Inductive, TestRun
  <2>2. ToServe' = {}
    BY <2>1 DEF ToServe
  <2>3. FirstPass'
    <3>1. Spent({}) = Pass /\ Pass \in Nat
      BY SpentBounds, FixedTimes
    <3>2. batch' \ {"signal"} = {} /\ due' = Half
      BY <2>1
    <3> QED
      BY <3>1, <3>2, FixedTimes DEF FirstPass
  <2> QED
    BY <2>1, <2>2, <2>3, SameTimes DEF Inductive, Stages
<1>7. CASE Stop
  <2>1. ToServe' = ToServe
    BY <1>7 DEF ToServe, Stop
  <2> QED
    BY <1>7, <2>1, SameTimes DEF Inductive, Stop, Stages
<1>8. CASE StartService \/ Restart \/ CloseServer \/ (TestRun /\ ~gRun)
  BY <1>3, <1>8 DEF StartService, Restart, Exec, CloseServer, TestRun
<1>9. CASE Throw \/ Return
  BY <1>2, <1>9 DEF Throw, Return
<1>10. CASE StopService \/ Hangup
  BY <1>1, <1>2, <1>10 DEF StopService, Hangup, Send
<1> QED
  BY <1>1, <1>4, <1>5, <1>6, <1>7, <1>8, <1>9, <1>10 DEF vars

\* A pass is served, or the timer is waited for, and the timer is late by one pass
\* more only if it was not due when the pass was collected.
LEMMA InsideLoop ==
    ASSUME Inductive, Collect \/ Wait \/ (\E c \in Clients : Serve(c)) \/ Hang \/ Kick
    PROVE  Inductive'
<1>0. /\ stage = "loop" /\ UNCHANGED <<stage, gRun, ready, killed>>
      /\ ToServe \subseteq Clients /\ ToServe' \subseteq Clients
      /\ timer' \in BOOLEAN /\ hung' \in BOOLEAN
  <2>1. stage = "loop" /\ UNCHANGED <<stage, gRun, ready, killed>>
    BY DEF Collect, Wait, Serve, Hang, Kick, InLoop, Rest
  <2>2. ToServe \subseteq Clients /\ ToServe' \subseteq Clients
    BY DEF Inductive, Collect, Wait, Serve, Hang, Kick, ToServe
  <2>3. timer' \in BOOLEAN /\ hung' \in BOOLEAN
    <3>1. timer \in BOOLEAN /\ hung \in BOOLEAN
      BY DEF Inductive
    <3>2. CASE Collect
      <4>1. timer' \in BOOLEAN
        BY <3>2 DEF Collect
      <4> QED
        BY <3>1, <3>2, <4>1 DEF Collect
    <3>3. CASE Wait \/ (\E c \in Clients : Serve(c)) \/ Hang \/ Kick
      <4>1. (timer' = timer \/ timer' = FALSE) /\ (hung' = hung \/ hung' = TRUE)
        BY <3>3 DEF Wait, Serve, Hang, Kick
      <4> QED
        BY <3>1, <4>1
    <3> QED
      BY <3>2, <3>3
  <2> QED
    BY <2>1, <2>2, <2>3
<1> DEFINE p == Spent(batch \ {"signal"})
           q == Spent(batch' \ {"signal"})
<1>1. /\ p \in Nat /\ p <= Pass /\ q \in Nat /\ q <= Pass
      /\ (batch = {} => p = Pass) /\ (batch' = {} => q = Pass)
  <2>1. batch \ {"signal"} \subseteq Clients /\ batch' \ {"signal"} \subseteq Clients
    BY <1>0 DEF ToServe
  <2>2. {} \ {"signal"} = {}
    OBVIOUS
  <2> QED
    BY <2>1, <2>2, SpentBounds
<1>11. /\ FirstPass <=> due + p >= 0
       /\ FirstPass' <=> due' + q >= 0
       /\ SecondPass <=> due + Pass + p >= 0
       /\ SecondPass' <=> due' + Pass + q >= 0
       /\ InTime' <=> due' + 2 * Pass >= 0
  BY DEF FirstPass, SecondPass, InTime, Pass, Spent
<1> HIDE DEF p, q
<1>12. Clocks' => (FirstPass' => InTime') /\ (SecondPass' => InTime')
  <2>1. \A x \in Int : /\ x + q >= 0 => x + 2 * Pass >= 0
                       /\ x + Pass + q >= 0 => x + 2 * Pass >= 0
    BY <1>1, FixedTimes
  <2>2. Clocks' => due' \in Int
    BY DEF Clocks
  <2> QED
    BY <1>11, <2>1, <2>2, Zenon
<1>2. SUFFICES /\ Clocks'
               /\ ready => Ahead'
               /\ ~hung' /\ ~timer' => FirstPass'
               /\ ~hung' /\ timer' => SecondPass' /\ Due'
  BY <1>0, <1>2, <1>12 DEF Inductive
<1>3. CASE Collect
  <2>1. /\ batch = {} /\ ~timer /\ ~hung /\ UNCHANGED <<due, hung, age>>
        /\ timer' <=> Due
    BY <1>3 DEF Collect, InLoop, Due
  <2>2. Clocks /\ FirstPass /\ (ready => Ahead)
    BY <1>0, <2>1 DEF Inductive
  <2>21. p = Pass /\ due' = due
    BY <1>1, <2>1
  <2>3. SecondPass'
    BY <1>1, <1>11, <2>21, <2>2, FixedTimes DEF Clocks
  <2>4. ~Due => FirstPass'
    BY <1>1, <1>11, <2>21, <2>2, FixedTimes DEF Due, Clocks
  <2> QED
    BY <2>1, <2>2, <2>3, <2>4, SameTimes
<1>4. CASE Wait
  <2>1. /\ batch' = {} /\ ~timer /\ ~hung /\ due > 0 /\ age' = age + 1 /\ due' = due - 1
        /\ UNCHANGED <<timer, hung>>
    BY <1>4 DEF Wait, Passes, InLoop
  <2>2. Clocks /\ (ready => Ahead)
    BY DEF Inductive
  <2>3. Clocks' /\ FirstPass'
    BY <1>1, <1>11, <2>1, <2>2, FixedTimes DEF Clocks
  <2>4. Ahead => Ahead'
    BY <2>1, <2>2, FixedTimes DEF Clocks, Ahead
  <2> QED
    BY <2>1, <2>2, <2>3, <2>4
<1>5. ASSUME NEW c \in Clients, Serve(c), UNCHANGED <<batch, age, due>>, hung'
      PROVE  Clocks' /\ (ready => Ahead')
  BY <1>5, SameTimes DEF Inductive
<1>6. ASSUME NEW c \in Clients, Serve(c), NEW n \in 0 .. MaxBlock, Passes(n), batch' = batch \ {c}
      PROVE  /\ Clocks'
             /\ ready => Ahead'
             /\ ~timer' => FirstPass'
             /\ timer' => SecondPass' /\ Due'
  <2>1. c \in ToServe /\ ~hung /\ timer' = timer
    BY <1>6 DEF Serve, InLoop, ToServe
  <2>2. age' = age + n /\ due' = due - n
    BY <1>6 DEF Passes
  <2>3. q = p + MaxBlock
    <3>1. batch' \ {"signal"} = (batch \ {"signal"}) \ {c} /\ c \in batch \ {"signal"}
      BY <1>6, <2>1 DEF ToServe
    <3>2. batch \ {"signal"} \subseteq Clients
      BY <1>0 DEF ToServe
    <3> QED
      BY <3>1, <3>2, SpentBounds DEF p, q
  <2>4. n \in Nat /\ n <= MaxBlock
    BY FixedTimes
  <2>5. /\ Clocks /\ (ready => Ahead)
        /\ ~timer => FirstPass
        /\ timer => SecondPass /\ Due
    BY <1>0, <2>1 DEF Inductive
  <2>6. Clocks' /\ (Ahead => Ahead')
    BY <2>2, <2>4, <2>5, FixedTimes DEF Clocks, Ahead
  <2>7. (FirstPass => FirstPass') /\ (SecondPass => SecondPass') /\ (Due => Due')
    BY <1>1, <1>11, <2>2, <2>3, <2>4, <2>5, FixedTimes DEF Clocks, Due
  <2> QED
    BY <2>1, <2>5, <2>6, <2>7
<1>7. CASE Hang
  <2>1. hung' /\ age' = age + 1 /\ due' = due - 1
    BY <1>7 DEF Hang, Passes
  <2>2. Clocks /\ (ready => Ahead)
    BY DEF Inductive
  <2>3. Clocks' /\ (Ahead => Ahead')
    BY <2>1, <2>2, FixedTimes DEF Clocks, Ahead
  <2> QED
    BY <2>1, <2>2, <2>3
<1>8. CASE Kick
  <2>1. /\ ~timer' /\ timer /\ ~hung /\ age' = 0 /\ batch' = {}
        /\ due' = IF due + Half >= 0 THEN due + Half ELSE Half
    BY <1>8 DEF Kick, InLoop, TimerPeriod
  <2>2. Due /\ Clocks
    BY <1>0, <2>1 DEF Inductive
  <2>3. Clocks' /\ Ahead' /\ FirstPass'
    BY <1>1, <1>11, <2>1, <2>2, FixedTimes DEF Clocks, Ahead, Due
  <2> QED
    BY <2>1, <2>3
<1>9. ASSUME NEW c \in Clients, Serve(c)
      PROVE  \/ UNCHANGED <<batch, age, due>> /\ hung'
             \/ \E n \in 0 .. MaxBlock : Passes(n) /\ batch' = batch \ {c}
  BY <1>9 DEF Serve
<1> QED
  BY <1>3, <1>4, <1>5, <1>6, <1>7, <1>8, <1>9

\* A termination signal leaves the loop for good.
LEMMA Terminates == ASSUME Inductive, handleTermination PROVE Inductive'
<1>1. /\ stage' = "test" /\ gRun' = FALSE /\ batch' = {} /\ timer' = FALSE /\ ~hung
      /\ UNCHANGED <<due, hung, ready, age, killed>>
  BY DEF handleTermination, InLoop
<1>2. ToServe' = {}
  BY <1>1 DEF ToServe
<1> QED
  BY <1>1, <1>2, SameTimes DEF Inductive, Stages

\* The watchdog finds no process that works but gives no sign of life.
LEMMA WatchdogSpares == ASSUME Inductive, WatchdogKill PROVE Inductive'
<1>1. ready /\ age >= Interval /\ Ends("aborted") /\ killed' = (killed \/ ~hung)
      /\ UNCHANGED <<gRun, due, age>>
  BY DEF WatchdogKill
<1>2. hung
  <2>1. ASSUME ~hung PROVE FALSE
    <3>1. Ahead /\ InTime /\ Clocks /\ age >= Interval
      BY <1>1, <2>1 DEF Inductive
    <3> QED
      BY <3>1, FixedTimes DEF Ahead, InTime, Clocks
  <2> QED
    BY <2>1
<1>3. ToServe' = {} /\ ~killed'
  BY <1>1, <1>2 DEF ToServe, Ends, Inductive
<1> QED
  BY <1>1, <1>3, SameTimes DEF Inductive, Ends, Stages

\* The daemon's invariant, over all of its starts, stops, passes and failures.
THEOREM InductiveInvariant == Spec => []Inductive
<1>1. Init => Inductive
  <2> SUFFICES ASSUME Init PROVE Inductive
    OBVIOUS
  <2>1. ToServe = {} /\ batch = {}
    BY DEF Init, ToServe
  <2>2. Clocks
    BY Times DEF Init, Clocks
  <2> QED
    BY <2>1, <2>2 DEF Init, Inductive, Stages
<1>2. Inductive /\ [Next]_vars => Inductive'
  BY OutsideLoop, InsideLoop, Terminates, WatchdogSpares DEF Next, Process
<1>3. Spec => Init /\ [][Next]_vars
  BY PTL DEF Spec
<1> QED
  BY <1>1, <1>2, <1>3, PTL

\* The watchdog kills only a process whose handler hangs, for any number of clients
\* that two passes within half an interval can serve (initWatchdogEvent).
THEOREM AlwaysOnlyHungKilled == Spec => []OnlyHungKilled
<1>1. Inductive => OnlyHungKilled
  BY DEF Inductive, OnlyHungKilled
<1> QED
  BY <1>1, InductiveInvariant, PTL

--------------------------------------------------------------------------------
(* Signals, and who ends the daemon.                                       *)

\* No signal is lost, wherever in the process's life it arrives: until the process
\* is gone it is caught, or has cleared gRun, and then the loop is not entered again.
SignalsAreKept ==
    /\ stage # "exited" => /\ ~wanted => "TERM" \in pending \/ ~gRun
                           /\ hup => "HUP" \in pending \/ ~gRun
    /\ ~gRun => stage \in {"test", "stop", "close", "closed", "exited"}
    /\ stage \in {"stop", "close", "closed"} => ~gRun

\* A service that is wanted but down was told to end by SIGHUP, or is due for a restart.
DownWhenTold == stage = "exited" /\ wanted => code \in {"failure", "aborted"} \/ hup

\* Signals are caught while their events exist, and gRun is cleared for one of them.
Told ==
    /\ pending # {} => stage \in Handled \cup {"stop"}
    /\ "signal" \in batch => pending # {}
    /\ "TERM" \in pending => ~wanted
    /\ "HUP" \in pending => hup
    /\ ~gRun /\ stage # "exited" => ~wanted \/ hup

\* The types that the invariant above does not give.
Fields ==
    /\ {wanted, hup, sock, store, killed} \subseteq BOOLEAN
    /\ pending \subseteq {"TERM", "HUP"}
    /\ code \in {"clean", "failure", "aborted", "signalled"}
    /\ faults \in 0 .. MaxFaults

\* The clocks stop within a handler's time of the watchdog's interval.
Limits ==
    /\ stage \in {"test", "loop", "stop"} => ready
    /\ age <= Interval + MaxBlock /\ due <= Half /\ age + due >= 0

SignalsInv == Told /\ SignalsAreKept /\ DownWhenTold

\* A process that ends leaves no signal behind.
LEMMA EndsTold ==
    ASSUME NEW how, Ends(how),
           /\ how \in {"failure", "aborted"} \/ ~wanted' \/ hup'
    PROVE  SignalsInv'
BY DEF Ends, SignalsInv, Told, SignalsAreKept, DownWhenTold

\* What touches no signal and stays outside, or inside, the process.
LEMMA SignalsSame ==
    ASSUME SignalsInv, UNCHANGED <<gRun, pending, wanted, hup, code>>, "signal" \in batch' => pending # {},
           \/ stage' = stage
           \/ stage # "exited" /\ stage' # "exited" /\ pending = {} /\ gRun
              /\ stage' \notin {"stop", "close", "closed"}
    PROVE  SignalsInv'
BY DEF SignalsInv, Told, SignalsAreKept, DownWhenTold, Handled

\* A signal is caught, or ends the process.
LEMMA SendTold ==
    ASSUME SignalsInv, Fields, NEW signal \in {"TERM", "HUP"}, Send(signal),
           IF signal = "TERM" THEN wanted' = FALSE ELSE wanted' = wanted
    PROVE  SignalsInv'
<1>1. CASE stage \in Handled
  <2>1. /\ pending' = pending \cup {signal} /\ hup' = (hup \/ signal = "HUP")
        /\ UNCHANGED <<stage, batch, code, gRun>>
    BY <1>1 DEF Send
  <2>2. Told'
    BY <1>1, <2>1 DEF SignalsInv, Told, Handled
  <2>3. SignalsAreKept'
    BY <1>1, <2>1 DEF SignalsInv, SignalsAreKept, Handled
  <2> QED
    BY <1>1, <2>1, <2>2, <2>3 DEF SignalsInv, DownWhenTold, Handled
<1>2. CASE stage \notin Handled
  <2>1. Ends("signalled") /\ hup' = (hup \/ signal = "HUP")
    BY <1>2 DEF Send
  <2> QED
    BY <2>1, EndsTold
<1> QED
  BY <1>1, <1>2

\* A process is started with nothing caught, and gRun set.
LEMMA ExecTold ==
    ASSUME SignalsInv, Inductive, Exec, wanted'
    PROVE  SignalsInv'
<1>1. /\ stage = "exited" /\ stage' = "init" /\ gRun' /\ ~hup' /\ UNCHANGED <<pending, batch>>
  BY DEF Exec
<1>2. pending = {} /\ batch = {}
  BY <1>1 DEF SignalsInv, Told, Handled, Inductive
<1> QED
  BY <1>1, <1>2 DEF SignalsInv, Told, SignalsAreKept, DownWhenTold

\* Every step keeps what is said of signals.
LEMMA SignalsKept == SignalsInv /\ Fields /\ Inductive /\ [Next]_vars => SignalsInv'
<1> SUFFICES ASSUME SignalsInv, Fields, Inductive, [Next]_vars PROVE SignalsInv'
  OBVIOUS
<1>1. CASE StartService \/ Restart
  <2>1. Exec /\ wanted'
    BY <1>1 DEF StartService, Restart
  <2> QED
    BY <2>1, ExecTold
<1>2. CASE WatchdogKill
  BY <1>2, EndsTold DEF WatchdogKill
<1>3. CASE StopService
  BY <1>3, SendTold DEF StopService
<1>4. CASE Hangup
  BY <1>4, SendTold DEF Hangup
<1>5. CASE Throw
  <2>1. PICK how \in {"failure", "aborted"} : Ends(how)
    BY <1>5 DEF Throw
  <2> QED
    BY <2>1, EndsTold
<1>6. CASE Return
  <2>1. Ends("clean") /\ stage = "closed" /\ UNCHANGED <<wanted, hup>>
    BY <1>6 DEF Return
  <2>2. ~wanted \/ hup
    BY <2>1 DEF SignalsInv, Told, SignalsAreKept
  <2> QED
    BY <2>1, <2>2, EndsTold
<1>7. CASE Proceed
  <2>1. /\ stage \in {"init", "config", "store", "server"}
        /\ stage' \in {"config", "store", "server", "serve"}
        /\ UNCHANGED <<gRun, pending, batch, wanted, hup, code>>
    BY <1>7 DEF Proceed, Steps
  <2>2. pending = {} /\ batch = {} /\ gRun
    BY <2>1 DEF SignalsInv, Told, SignalsAreKept, Handled, Inductive
  <2> QED
    BY <2>1, <2>2, SignalsSame
<1>8. CASE Start \/ (TestRun /\ gRun)
  BY <1>8 DEF Start, TestRun, SignalsInv, Told, SignalsAreKept, DownWhenTold, Handled
<1>9. CASE TestRun /\ ~gRun
  BY <1>9 DEF TestRun, SignalsInv, Told, SignalsAreKept, DownWhenTold, Handled
<1>10. CASE Stop
  <2>1. batch' = {}
    BY <1>10 DEF Stop, Inductive
  <2> QED
    BY <1>10, <2>1 DEF Stop, SignalsInv, Told, SignalsAreKept, DownWhenTold, Handled
<1>11. CASE CloseServer
  BY <1>11 DEF CloseServer, SignalsInv, Told, SignalsAreKept, DownWhenTold, Handled
<1>12. CASE handleTermination
  <2>1. /\ stage = "loop" /\ stage' = "test" /\ gRun' = FALSE /\ pending' = {} /\ batch' = {}
        /\ pending # {} /\ UNCHANGED <<wanted, hup, code>>
    BY <1>12 DEF handleTermination, InLoop, SignalsInv, Told
  <2>2. ~wanted \/ hup
    BY <2>1 DEF SignalsInv, Told, Fields
  <2> QED
    BY <2>1, <2>2 DEF SignalsInv, Told, SignalsAreKept, DownWhenTold
<1>13. CASE Collect
  <2>1. /\ UNCHANGED <<stage, gRun, pending, wanted, hup, code>>
        /\ \E C \in SUBSET Clients : batch' = C \cup {"signal" : s \in pending}
    BY <1>13 DEF Collect, Rest
  <2> QED
    BY <2>1, SignalsSame, ClientsAssumption
<1>14. CASE Wait \/ (\E c \in Clients : Serve(c)) \/ Hang \/ Kick
  <2>1. /\ UNCHANGED <<stage, gRun, pending, wanted, hup, code>> /\ batch' \subseteq batch
    BY <1>14 DEF Wait, Serve, Hang, Kick, Rest
  <2>2. "signal" \in batch' => pending # {}
    BY <2>1 DEF SignalsInv, Told
  <2> QED
    BY <2>1, <2>2, SignalsSame
<1>15. CASE UNCHANGED vars
  BY <1>15, SignalsSame DEF vars, procVars, SignalsInv, Told
<1> QED
  BY <1>1, <1>2, <1>3, <1>4, <1>5, <1>6, <1>7, <1>8, <1>9, <1>10, <1>11, <1>12, <1>13, <1>14, <1>15
  DEF Next, Process

\* Every step keeps the types.
LEMMA FieldsKept == Fields /\ Inductive /\ [Next]_vars => Fields'
<1> SUFFICES ASSUME Fields, Inductive, [Next]_vars PROVE Fields'
  OBVIOUS
<1>1. CASE StartService \/ Restart
  BY <1>1 DEF StartService, Restart, Exec, Fields
<1>2. CASE WatchdogKill
  BY <1>2 DEF WatchdogKill, Ends, Fields
<1>3. CASE StopService \/ Hangup
  <2>1. PICK signal \in {"TERM", "HUP"} : Send(signal)
    BY <1>3 DEF StopService, Hangup
  <2>2. wanted' \in BOOLEAN
    BY <1>3 DEF StopService, Hangup, Fields
  <2>3. /\ hup' \in BOOLEAN /\ store' \in BOOLEAN /\ UNCHANGED <<sock, faults, killed>>
        /\ (pending' = {} \/ pending' = pending \cup {signal})
        /\ code' \in {code, "signalled"}
    <3>1. hup' = (hup \/ signal = "HUP") /\ UNCHANGED <<sock, faults, killed>>
      BY <2>1 DEF Send
    <3>2. \/ pending' = {} /\ store' = FALSE /\ code' = "signalled"
          \/ pending' = pending \cup {signal} /\ UNCHANGED <<store, code>>
      BY <2>1 DEF Send, Ends
    <3>3. hup' \in BOOLEAN
      BY <3>1
    <3> QED
      BY <3>1, <3>2, <3>3 DEF Fields
  <2> QED
    BY <2>2, <2>3 DEF Fields
<1>4. CASE Throw \/ Return
  <2>1. faults' \in 0 .. MaxFaults
    BY <1>4, TimesAssumption DEF Throw, Return, Faulted, Fields
  <2>2. sock' \in BOOLEAN
    BY <1>4 DEF Throw, Return, Fields
  <2>3. code' \in {"clean", "failure", "aborted", "signalled"}
    BY <1>4 DEF Throw, Return, Ends
  <2> QED
    BY <1>4, <2>1, <2>2, <2>3 DEF Throw, Return, Ends, Fields
<1>5. CASE Proceed
  <2>1. store' \in BOOLEAN /\ sock' \in BOOLEAN
    BY <1>5 DEF Proceed, Fields
  <2> QED
    BY <1>5, <2>1 DEF Proceed, Fields
<1>6. CASE Start \/ TestRun \/ Stop \/ CloseServer
  BY <1>6 DEF Start, TestRun, Stop, CloseServer, Fields
<1>7. CASE \E c \in Clients : Serve(c)
  <2>1. faults' \in 0 .. MaxFaults
    BY <1>7, TimesAssumption DEF Serve, Faulted, Fields
  <2> QED
    BY <1>7, <2>1 DEF Serve, Rest, Fields
<1>8. CASE Collect \/ Wait \/ Hang \/ Kick \/ handleTermination
  BY <1>8 DEF Collect, Wait, Hang, Kick, handleTermination, Rest, Fields
<1>9. CASE UNCHANGED vars
  BY <1>9 DEF vars, procVars, Fields
<1> QED
  BY <1>1, <1>2, <1>3, <1>4, <1>5, <1>6, <1>7, <1>8, <1>9 DEF Next, Process

\* What does not touch the clocks keeps their limits.
LEMMA ClocksSame ==
    ASSUME Limits, UNCHANGED <<age, due>>, stage' \in {"test", "loop", "stop"} => ready'
    PROVE  Limits'
BY DEF Limits

\* The clocks stay within their limits: time passes only in the loop, where the
\* timer is set anew once it has been late, and no handler begins after the
\* watchdog's interval is over.
LEMMA LimitsKept == Limits /\ Inductive /\ [Next]_vars => Limits'
<1> SUFFICES ASSUME Limits, Inductive, [Next]_vars PROVE Limits'
  OBVIOUS
<1>0. /\ age \in Nat /\ due \in Int /\ Half \in Nat /\ MaxBlock \in Nat
      /\ Interval = Half + Half /\ stage \in Stages
  BY FixedTimes DEF Inductive, Clocks
<1>1. CASE StartService \/ Restart
  BY <1>1, ClocksSame DEF StartService, Restart, Exec
<1>2. CASE WatchdogKill \/ Throw \/ Return
  BY <1>2, ClocksSame DEF WatchdogKill, Throw, Return, Ends
<1>3. CASE StopService \/ Hangup
  <2>1. PICK signal \in {"TERM", "HUP"} : Send(signal)
    BY <1>3 DEF StopService, Hangup
  <2>2. UNCHANGED <<age, due>> /\ (stage' = "exited" \/ UNCHANGED <<stage, ready>>)
    BY <2>1 DEF Send, Ends
  <2> QED
    BY <2>2, ClocksSame DEF Limits
<1>4. CASE Proceed
  <2>1. /\ stage' \in {"config", "store", "server", "serve"} /\ due' = Half /\ age' = age
    BY <1>4 DEF Proceed, Steps
  <2> QED
    BY <1>0, <2>1 DEF Limits
<1>5. CASE Start
  <2>1. due' = Half /\ age' = 0 /\ ready'
    BY <1>5 DEF Start, Inductive
  <2> QED
    BY <1>0, <2>1 DEF Limits
<1>6. CASE TestRun \/ Stop \/ CloseServer \/ handleTermination
  BY <1>6, ClocksSame DEF TestRun, Stop, CloseServer, handleTermination, InLoop, Limits
<1>7. CASE Collect
  BY <1>7, ClocksSame DEF Collect, Rest, Limits
<1>8. ASSUME NEW n \in 0 .. MaxBlock \cup {1}, Passes(n), UNCHANGED <<stage, ready>>,
             age < Interval
      PROVE  Limits'
  <2>1. age' = age + n /\ due' = due - n /\ n \in Nat
    BY <1>0, <1>8 DEF Passes
  <2>2. age' <= Interval + MaxBlock
    BY <1>0, <1>8, <2>1
  <2> QED
    BY <1>0, <1>8, <2>1, <2>2 DEF Limits
<1>9. CASE Wait
  <2>1. stage = "loop" /\ due > 0 /\ Passes(1) /\ UNCHANGED <<stage, ready>>
    BY <1>9 DEF Wait, InLoop, Rest
  <2>2. Ahead
    BY <2>1 DEF Inductive, Limits
  <2>3. age < Interval
    BY <1>0, <2>1, <2>2 DEF Ahead
  <2> QED
    BY <1>8, <2>1, <2>3
<1>10. CASE Hang
  <2>1. age < Interval /\ Passes(1) /\ UNCHANGED <<stage, ready>>
    BY <1>10 DEF Hang, Rest
  <2> QED
    BY <1>8, <2>1
<1>11. CASE \E c \in Clients : Serve(c)
  <2>1. \/ \E n \in 0 .. MaxBlock : Passes(n)
        \/ UNCHANGED <<age, due>>
    BY <1>11 DEF Serve
  <2>2. age < Interval /\ UNCHANGED <<stage, ready>>
    BY <1>11 DEF Serve, Rest
  <2> QED
    BY <1>8, <2>1, <2>2, ClocksSame DEF Limits
<1>12. CASE Kick
  <2>1. /\ age' = 0 /\ stage = "loop" /\ UNCHANGED <<stage, ready>> /\ due <= 0
        /\ due' = IF due + Half >= 0 THEN due + Half ELSE Half
    BY <1>12 DEF Kick, InLoop, Rest, TimerPeriod, Inductive, Due
  <2> QED
    BY <1>0, <2>1 DEF Limits
<1>13. CASE UNCHANGED vars
  BY <1>13, ClocksSame DEF vars, procVars, Limits
<1> QED
  BY <1>1, <1>2, <1>3, <1>4, <1>5, <1>6, <1>7, <1>9, <1>10, <1>11, <1>12, <1>13 DEF Next, Process

\* All of it together, over all of the daemon's lives.
THEOREM LifeInvariant == Spec => [](Inductive /\ Fields /\ Limits /\ SignalsInv)
<1>1. Init => Fields /\ Limits /\ SignalsInv
  <2> SUFFICES ASSUME Init PROVE Fields /\ Limits /\ SignalsInv
    OBVIOUS
  <2>1. Fields
    <3>1. 0 \in 0 .. MaxFaults
      BY TimesAssumption
    <3> QED
      BY <3>1 DEF Init, Fields
  <2>2. Limits
    BY FixedTimes DEF Init, Limits
  <2>3. SignalsInv
    BY DEF Init, SignalsInv, Told, SignalsAreKept, DownWhenTold
  <2> QED
    BY <2>1, <2>2, <2>3
<1>2. Inductive /\ Fields /\ Limits /\ SignalsInv /\ [Next]_vars => (Fields /\ Limits /\ SignalsInv)'
  BY FieldsKept, LimitsKept, SignalsKept
<1> QED
  BY <1>1, <1>2, InductiveInvariant, PTL DEF Spec

\* A termination signal is not lost, whether it falls before the loop, between the
\* test of gRun and the loop, or into a pass (handleTermination, MainLoop).
THEOREM SignalsAlwaysKept == Spec => []SignalsAreKept
<1>1. SignalsInv => SignalsAreKept
  BY DEF SignalsInv
<1> QED
  BY <1>1, LifeInvariant, PTL

\* A service that is wanted and down is about to be restarted, or SIGHUP ended it
\* (Restart=on-failure in confd.service, main's exit status).
THEOREM DownOnlyWhenTold == Spec => []DownWhenTold
<1>1. SignalsInv => DownWhenTold
  BY DEF SignalsInv
<1> QED
  BY <1>1, LifeInvariant, PTL

\* The variables keep their types; the clocks never run far beyond the interval.
THEOREM TypeCorrect == Spec => []TypeOK
<1>1. Inductive /\ Fields /\ Limits => TypeOK
  <2> SUFFICES ASSUME Inductive, Fields, Limits PROVE TypeOK
    OBVIOUS
  <2>1. /\ age \in Nat /\ due \in Int /\ Half \in Nat /\ MaxBlock \in Nat
        /\ Interval = Half + Half
    BY FixedTimes DEF Inductive, Clocks
  <2>2. due \in -Interval - MaxBlock .. Half /\ age \in 0 .. Interval + MaxBlock
    BY <2>1 DEF Limits
  <2>3. batch \subseteq Clients \cup {"signal"}
    BY DEF Inductive, ToServe
  <2> QED
    BY <2>2, <2>3 DEF Inductive, Fields, TypeOK, Stages
<1> QED
  BY <1>1, LifeInvariant, PTL
================================================================================
