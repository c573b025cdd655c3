------------------------------- MODULE SrmProofs -------------------------------
(***************************************************************************)
(* Proofs about SrmCore and SrmDevices, for any devices, clocks,           *)
(* regulators, requests and number of removals.                            *)
(***************************************************************************)
EXTENDS SrmCore, TLAPS, SequenceTheorems

(***************************************************************************)
(* The inductive invariant.                                                *)
(***************************************************************************)

FaultKinds == {"unbalanced", "stuck", "bind", "removal", "overlap", "late bind", "core removal"}
Hw == [on : SUBSET Resources, use : [Resources -> Nat], early : SUBSET Devices,
       leaked : SUBSET Resources, faults : SUBSET FaultKinds]

\* The states of a device that has got its resources.
Held == {"registered", "probed", "removing"}
DevStates == Held \cup {"absent", "created", "failed"}
Stages == {"off", "populate", "wait", "prepared", "unregister", "master_del", "depopulate"}
Masters == {"none", "added", "bound"}

Typed ==
    /\ hw \in Hw
    /\ irqs \subseteq Devices
    /\ chain \in Seq(Devices)
    /\ dev \in [Devices -> DevStates]
    /\ stage \in Stages
    /\ master \in Masters

\* The lists that name devices follow their states.
ListsInv ==
    /\ components \subseteq Probed
    /\ \A d \in irqs : dev[d] \in Held
    /\ \A i \in 1 .. Len(chain) : dev[chain[i]] \in Held
    /\ \A i, j \in 1 .. Len(chain) : chain[i] = chain[j] => i = j

\* What the place in prepare or unprepare says of the devices and the master.
StageInv ==
    /\ (stage = "off" \/ ~available) => \A d \in Devices : dev[d] = "absent"
    /\ master = "bound" => components = Devices
    /\ stage \in {"off", "populate", "depopulate"} => master = "none"
    /\ stage = "populate" => ~all_bound
    /\ rpmsg => stage \in {"prepared", "unregister"}
    /\ handler.busy => rpmsg
    /\ rproc = "running" /\ ~gone => stage = "prepared"

\* Bound is what the core says it is, unless a device was removed.
BoundInv ==
    "removal" \notin hw.faults =>
        /\ stage = "wait" /\ all_bound /\ bind_ok => master = "bound"
        /\ stage \in {"prepared", "unregister"} /\ available => master = "bound" /\ rpmsg

\* The request in hand is about a regulator of a device that is there, and what
\* was read of it holds, unless a bind or an unbind has overlapped with it.
HandlerInv ==
    handler.busy =>
        /\ handler.regu \in RegusOf(Devices)
        /\ ~oops => \E d \in Devices : dev[d] \in Held /\ handler.regu \in ReguSets[d]
        /\ handler.enable \in BOOLEAN /\ handler.enabled \in BOOLEAN
        /\ <<handler.regu, handler.enable>> \in asked
        /\ "overlap" \notin hw.faults => (handler.enabled <=> handler.regu \in hw.on)

\* The flag of r says what is enabled.
Matches(h, r) == h.use[r] = IF r \in h.on THEN 1 ELSE 0

\* What is on while nothing is bound has a fault to answer for it.
Excused(h, r) ==
    IF r \in ClocksOf(Devices) THEN "bind" \in h.faults
    ELSE "stuck" \in h.faults \/ "removal" \in h.faults
Accounted(h, r) == h.use[r] > 0 => Excused(h, r)

ResourcesOf(D) == ClocksOf(D) \cup RegusOf(D)

\* A device that has not got its resources has none of them on.
ZeroInv ==
    \A d \in Devices : dev[d] \notin Held =>
        \A r \in ResourcesOf({d}) : hw.use[r] = 0 /\ r \notin hw.on

\* Requests switch regulators only, so that the flags of clocks always match.
FlagsInv ==
    /\ \A r \in ClocksOf(Devices) : Matches(hw, r)
    /\ FlagsMatchUse
    /\ "overlap" \in hw.faults => "removal" \in hw.faults

LeakInv ==
    /\ master # "bound" => \A r \in Resources : Accounted(hw, r)
    /\ \A r \in hw.leaked : Excused(hw, r)

\* What binding has switched on stays on until the remote asks otherwise.
OnInv ==
    master = "bound" /\ "removal" \notin hw.faults =>
        /\ ClocksOf(Devices) \subseteq hw.on
        /\ \A d \in Devices \ hw.early : \A r \in ReguSets[d] :
              r \in hw.on \/ <<r, FALSE>> \in asked

\* Faults with lasting effects are remembered.
FaultInv ==
    /\ dangling => "late bind" \in hw.faults
    /\ gone => "core removal" \in hw.faults
    /\ FreedIsUnused

Inductive ==
    /\ Typed /\ ListsInv /\ StageInv /\ BoundInv /\ HandlerInv
    /\ ZeroInv /\ FlagsInv /\ LeakInv /\ OnInv /\ EarlyBootSyncs /\ FaultInv

(***************************************************************************)
(* Resources and devices.                                                  *)
(***************************************************************************)

\* A clock is one of a device's.
LEMMA InClocks ==
    ASSUME NEW D, NEW r
    PROVE  r \in ClocksOf(D) <=> \E d \in D : r \in ClockSets[d]
BY DEF ClocksOf

\* And so is a regulator.
LEMMA InRegus ==
    ASSUME NEW D, NEW r
    PROVE  r \in RegusOf(D) <=> \E d \in D : r \in ReguSets[d]
BY DEF RegusOf

\* The resources of devices are resources.
LEMMA Included ==
    ASSUME NEW D \in SUBSET Devices
    PROVE  ClocksOf(D) \subseteq ClocksOf(Devices) /\ RegusOf(D) \subseteq RegusOf(Devices)
           /\ ClocksOf(D) \subseteq Resources /\ RegusOf(D) \subseteq Resources
BY InClocks, InRegus DEF Resources

\* No regulator is a clock, and none belongs to two devices.
LEMMA Apart ==
    /\ \A r : ~(r \in ClocksOf(Devices) /\ r \in RegusOf(Devices))
    /\ \A d, e \in Devices : \A r : r \in ReguSets[d] /\ r \in ReguSets[e] => d = e
    /\ \A d, e \in Devices : \A r : r \in ClockSets[d] /\ r \in ClockSets[e] => d = e
<1>1. \A r : ~(r \in ClocksOf(Devices) /\ r \in RegusOf(Devices))
  BY ListsAssumption
<1>2. \A d, e \in Devices : \A r : r \in ReguSets[d] /\ r \in ReguSets[e] => d = e
  <2> SUFFICES ASSUME NEW d \in Devices, NEW e \in Devices, NEW r,
                      r \in ReguSets[d], r \in ReguSets[e], d # e
               PROVE  FALSE
    OBVIOUS
  <2>1. r \in RegusOf({d}) /\ r \in RegusOf({e})
    BY InRegus
  <2> QED
    BY <2>1, ListsAssumption
<1>3. \A d, e \in Devices : \A r : r \in ClockSets[d] /\ r \in ClockSets[e] => d = e
  <2> SUFFICES ASSUME NEW d \in Devices, NEW e \in Devices, NEW r,
                      r \in ClockSets[d], r \in ClockSets[e], d # e
               PROVE  FALSE
    OBVIOUS
  <2>1. r \in ClocksOf({d}) /\ r \in ClocksOf({e})
    BY InClocks
  <2> QED
    BY <2>1, ListsAssumption
<1> QED
  BY <1>1, <1>2, <1>3

(***************************************************************************)
(* What the operations on the hardware change.                             *)
(***************************************************************************)

\* The five parts of the hardware's state.
LEMMA HwParts ==
    ASSUME NEW h \in Hw
    PROVE  h = [on |-> h.on, use |-> h.use, early |-> h.early, leaked |-> h.leaked,
                faults |-> h.faults]
BY DEF Hw

\* Flags and counts change together.
LEMMA HwSwitched ==
    ASSUME NEW h \in Hw, NEW o, NEW u
    PROVE  [h EXCEPT !.on = o, !.use = u]
             = [on |-> o, use |-> u, early |-> h.early, leaked |-> h.leaked, faults |-> h.faults]
<1> DEFINE g == [h EXCEPT !.on = o]
<1>1. g = [on |-> o, use |-> h.use, early |-> h.early, leaked |-> h.leaked, faults |-> h.faults]
  BY HwParts
<1>2. [h EXCEPT !.on = o, !.use = u] = [g EXCEPT !.use = u]
  OBVIOUS
<1> HIDE DEF g
<1>3. [g EXCEPT !.use = u]
        = [on |-> o, use |-> u, early |-> h.early, leaked |-> h.leaked, faults |-> h.faults]
  BY <1>1
<1> QED
  BY <1>2, <1>3

\* Enabling.
LEMMA EnabledIs ==
    ASSUME NEW h \in Hw, NEW R \in SUBSET Resources
    PROVE  LET g == Enabled(h, R)
           IN  /\ g \in Hw
               /\ g.on = h.on \cup R
               /\ \A r \in Resources : g.use[r] = IF r \in R THEN h.use[r] + 1 ELSE h.use[r]
               /\ g.early = h.early /\ g.leaked = h.leaked /\ g.faults = h.faults
<1> DEFINE u == [r \in Resources |-> IF r \in R THEN h.use[r] + 1 ELSE h.use[r]]
<1>1. u \in [Resources -> Nat]
  BY DEF Hw
<1>2. Enabled(h, R) = [on |-> h.on \cup R, use |-> u, early |-> h.early, leaked |-> h.leaked,
                       faults |-> h.faults]
  <2>2. Enabled(h, R) = [h EXCEPT !.on = h.on \cup R, !.use = u]
    BY Zenon DEF Enabled
  <2> HIDE DEF u
  <2> QED
    BY <2>2, HwParts
<1> HIDE DEF u
<1>3. Enabled(h, R) \in Hw
  BY <1>1, <1>2 DEF Hw
<1> QED
  BY <1>2, <1>3 DEF u

\* A fault is remembered, and nothing else.
LEMMA FaultIs ==
    ASSUME NEW h \in Hw, NEW f \in FaultKinds
    PROVE  LET g == Fault(h, f)
           IN  /\ g \in Hw
               /\ g.on = h.on /\ g.use = h.use /\ g.early = h.early /\ g.leaked = h.leaked
               /\ g.faults = h.faults \cup {f}
<1>1. Fault(h, f) = [on |-> h.on, use |-> h.use, early |-> h.early, leaked |-> h.leaked,
                     faults |-> h.faults \cup {f}]
  BY DEF Fault, Hw
<1> QED
  BY <1>1 DEF Hw

\* Disabling: no count goes below zero, at the price of a fault.
LEMMA DisabledIs ==
    ASSUME NEW h \in Hw, NEW R \in SUBSET Resources
    PROVE  LET g == Disabled(h, R)
           IN  /\ g \in Hw
               /\ \A r \in Resources : r \in g.on <=> r \in h.on /\ ~(r \in R /\ h.use[r] > 0)
               /\ \A r \in Resources :
                     g.use[r] = IF r \in R /\ h.use[r] > 0 THEN h.use[r] - 1 ELSE h.use[r]
               /\ g.early = h.early /\ g.leaked = h.leaked
               /\ g.faults = IF \A r \in R : h.use[r] > 0 THEN h.faults
                             ELSE h.faults \cup {"unbalanced"}
<1> DEFINE b == {r \in R : h.use[r] > 0}
           u == [r \in Resources |-> IF r \in b THEN h.use[r] - 1 ELSE h.use[r]]
           done == [on |-> h.on \ b, use |-> u, early |-> h.early, leaked |-> h.leaked,
                    faults |-> h.faults]
<1>1. u \in [Resources -> Nat]
  BY DEF Hw
<1>2. [h EXCEPT !.on = @ \ b, !.use = [r \in Resources |-> IF r \in b THEN @[r] - 1 ELSE @[r]]] = done
  <2>1. [h EXCEPT !.on = @ \ b, !.use = [r \in Resources |-> IF r \in b THEN @[r] - 1 ELSE @[r]]]
          = [h EXCEPT !.on = h.on \ b, !.use = u]
    BY Zenon
  <2>2. [h EXCEPT !.on = h.on \ b, !.use = u] = done
    BY HwSwitched
  <2> QED
    BY <2>1, <2>2, Zenon
<1>3. Disabled(h, R) = IF R \subseteq b THEN done ELSE Fault(done, "unbalanced")
  BY <1>2 DEF Disabled
<1>4. \A r \in Resources : u[r] = IF r \in R /\ h.use[r] > 0 THEN h.use[r] - 1 ELSE h.use[r]
  OBVIOUS
<1>5. \A r \in Resources : r \in h.on \ b <=> r \in h.on /\ ~(r \in R /\ h.use[r] > 0)
  OBVIOUS
<1>6. R \subseteq b <=> \A r \in R : h.use[r] > 0
  OBVIOUS
<1> HIDE DEF u, b
<1>7. done \in Hw
  BY <1>1 DEF Hw
<1>8. /\ Fault(done, "unbalanced") \in Hw
      /\ Fault(done, "unbalanced").on = h.on \ b /\ Fault(done, "unbalanced").use = u
      /\ Fault(done, "unbalanced").early = h.early /\ Fault(done, "unbalanced").leaked = h.leaked
      /\ Fault(done, "unbalanced").faults = h.faults \cup {"unbalanced"}
  BY <1>7, FaultIs DEF FaultKinds
<1>9. done.on = h.on \ b /\ done.use = u /\ done.early = h.early /\ done.leaked = h.leaked
      /\ done.faults = h.faults
  OBVIOUS
<1> HIDE DEF done
<1>10. CASE R \subseteq b
  <2>1. Disabled(h, R) = done
    BY <1>3, <1>10
  <2> QED
    BY <2>1, <1>4, <1>5, <1>6, <1>7, <1>9, <1>10
<1>11. CASE ~(R \subseteq b)
  <2>1. Disabled(h, R) = Fault(done, "unbalanced")
    BY <1>3, <1>11
  <2> QED
    BY <2>1, <1>4, <1>5, <1>6, <1>8, <1>11
<1> QED
  BY <1>10, <1>11

\* Putting the resources of devices.
LEMMA PutIs ==
    ASSUME NEW h \in Hw, NEW D \in SUBSET Devices
    PROVE  LET g == Put(h, D)
           IN  /\ g \in Hw
               /\ \A r \in Resources : r \in g.on <=> r \in h.on /\ r \notin ResourcesOf(D)
               /\ \A r \in Resources : g.use[r] = IF r \in ResourcesOf(D) THEN 0 ELSE h.use[r]
               /\ g.early = h.early \ D /\ g.faults = h.faults
               /\ g.leaked = h.leaked \cup {r \in ResourcesOf(D) : h.use[r] > 0}
<1> DEFINE mine == ClocksOf(D) \cup RegusOf(D)
           u == [r \in Resources |-> IF r \in mine THEN 0 ELSE h.use[r]]
           l == h.leaked \cup {r \in mine : h.use[r] > 0}
<1>1. u \in [Resources -> Nat] /\ l \subseteq Resources
  BY Included DEF Hw
<1>2. Put(h, D) = [on |-> h.on \ mine, use |-> u, early |-> h.early \ D, leaked |-> l,
                   faults |-> h.faults]
  <2>1. Put(h, D) = [h EXCEPT !.leaked = l, !.on = h.on \ mine, !.early = h.early \ D, !.use = u]
    BY Zenon DEF Put
  <2> HIDE DEF u, l, mine
  <2> QED
    BY <2>1, HwParts
<1>3. \A r \in Resources : u[r] = IF r \in ResourcesOf(D) THEN 0 ELSE h.use[r]
  BY DEF ResourcesOf
<1>4. l = h.leaked \cup {r \in ResourcesOf(D) : h.use[r] > 0}
  BY DEF ResourcesOf
<1>5. mine = ResourcesOf(D)
  BY DEF ResourcesOf
<1> HIDE DEF u, l, mine
<1>6. Put(h, D) \in Hw
  BY <1>1, <1>2 DEF Hw
<1> QED
  BY <1>2, <1>3, <1>4, <1>5, <1>6

(***************************************************************************)
(* Binding and unbinding.                                                  *)
(***************************************************************************)

\* Whether attaching may switch r on.
MayRise(h, r) == \A d \in h.early : r \in ReguSets[d] => r \in left \/ r \in h.leaked

\* What binding and unbinding have in common: the flags keep up with the counts,
\* faults are added only, and in early boot nothing is switched on that was off.
Switching(h, g) ==
    /\ g \in Hw
    /\ g.early = h.early /\ g.leaked = h.leaked
    /\ h.faults \subseteq g.faults
    /\ g.faults \subseteq h.faults \cup {"unbalanced", "stuck", "bind"}
    /\ \A r \in Resources : Matches(h, r) => Matches(g, r)
    /\ (\A r \in Resources : Matches(h, r)) /\ "unbalanced" \in g.faults => "unbalanced" \in h.faults
    /\ \A r \in Resources : g.use[r] > 0 => h.use[r] > 0 \/ MayRise(h, r)

\* No count has risen outside S.
Quiet(h, g, S) == \A r \in Resources \ S : g.use[r] <= h.use[r]

\* Doing nothing.
LEMMA SwitchNone ==
    ASSUME NEW h \in Hw, NEW S
    PROVE  Switching(h, h) /\ Quiet(h, h, S)
<1>1. \A r \in Resources : h.use[r] \in Nat
  BY DEF Hw
<1> QED
  BY <1>1 DEF Switching, Quiet

\* One after the other.
LEMMA SwitchTwice ==
    ASSUME NEW h \in Hw, NEW g, NEW k, Switching(h, g), Switching(g, k)
    PROVE  Switching(h, k)
<1>1. k \in Hw /\ k.early = h.early /\ k.leaked = h.leaked
  BY DEF Switching
<1>2. h.faults \subseteq k.faults /\ k.faults \subseteq h.faults \cup {"unbalanced", "stuck", "bind"}
  BY DEF Switching
<1>3. \A r \in Resources : Matches(h, r) => Matches(k, r)
  BY DEF Switching
<1>4. (\A r \in Resources : Matches(h, r)) /\ "unbalanced" \in k.faults => "unbalanced" \in h.faults
  BY DEF Switching
<1>5. \A r : MayRise(g, r) <=> MayRise(h, r)
  BY DEF Switching, MayRise
<1>6. \A r \in Resources : k.use[r] > 0 => h.use[r] > 0 \/ MayRise(h, r)
  BY <1>5 DEF Switching
<1> QED
  BY <1>1, <1>2, <1>3, <1>4, <1>6 DEF Switching

\* The same for counts.
LEMMA QuietTwice ==
    ASSUME NEW h \in Hw, NEW g \in Hw, NEW k \in Hw, NEW S, NEW T, Quiet(h, g, S), Quiet(g, k, T)
    PROVE  Quiet(h, k, S \cup T)
<1> SUFFICES ASSUME NEW r \in Resources, r \notin S, r \notin T
             PROVE  k.use[r] <= h.use[r]
  BY DEF Quiet
<1>1. k.use[r] <= g.use[r] /\ g.use[r] <= h.use[r]
  BY DEF Quiet
<1>2. k.use[r] \in Nat /\ g.use[r] \in Nat /\ h.use[r] \in Nat
  BY DEF Hw
<1> QED
  BY <1>1, <1>2

\* Enabling what is off.
LEMMA SwitchEnabled ==
    ASSUME NEW h \in Hw, NEW R \in SUBSET Resources, \A r \in R : r \notin h.on,
           \A r \in R : h.use[r] > 0 \/ MayRise(h, r)
    PROVE  Switching(h, Enabled(h, R)) /\ Quiet(h, Enabled(h, R), R)
<1> DEFINE g == Enabled(h, R)
<1>1. /\ g \in Hw /\ g.on = h.on \cup R
      /\ \A r \in Resources : g.use[r] = IF r \in R THEN h.use[r] + 1 ELSE h.use[r]
      /\ g.early = h.early /\ g.leaked = h.leaked /\ g.faults = h.faults
  BY EnabledIs
<1>2. \A r \in Resources : h.use[r] \in Nat
  BY DEF Hw
<1> HIDE DEF g
<1>3. \A r \in Resources : Matches(h, r) => Matches(g, r)
  BY <1>1, <1>2 DEF Matches
<1>4. \A r \in Resources : g.use[r] > 0 => h.use[r] > 0 \/ MayRise(h, r)
  BY <1>1, <1>2
<1>5. Quiet(h, g, R)
  BY <1>1, <1>2 DEF Quiet
<1>6. Switching(h, g)
  BY <1>1, <1>3, <1>4 DEF Switching
<1> QED
  BY <1>5, <1>6 DEF g

\* Disabling what is on.
LEMMA SwitchDisabled ==
    ASSUME NEW h \in Hw, NEW R \in SUBSET Resources, R \subseteq h.on
    PROVE  LET g == Disabled(h, R)
           IN  /\ Switching(h, g) /\ Quiet(h, g, {})
               /\ g.on \subseteq h.on
               /\ g.faults \subseteq h.faults \cup {"unbalanced"}
               /\ \A r \in R : Matches(h, r) => g.use[r] = 0
<1> DEFINE g == Disabled(h, R)
<1>1. /\ g \in Hw
      /\ \A r \in Resources : r \in g.on <=> r \in h.on /\ ~(r \in R /\ h.use[r] > 0)
      /\ \A r \in Resources :
            g.use[r] = IF r \in R /\ h.use[r] > 0 THEN h.use[r] - 1 ELSE h.use[r]
      /\ g.early = h.early /\ g.leaked = h.leaked
      /\ g.faults = IF \A r \in R : h.use[r] > 0 THEN h.faults ELSE h.faults \cup {"unbalanced"}
  BY DisabledIs
<1>2. \A r \in Resources : h.use[r] \in Nat
  BY DEF Hw
<1>3. g.on \subseteq Resources
  BY <1>1 DEF Hw
<1> HIDE DEF g
<1>4. g.on \subseteq h.on
  BY <1>1, <1>3
<1>5. \A r \in Resources : Matches(h, r) => Matches(g, r)
  BY <1>1, <1>2 DEF Matches
<1>6. \A r \in Resources : g.use[r] <= h.use[r]
  BY <1>1, <1>2
<1>7. \A r \in Resources : g.use[r] > 0 => h.use[r] > 0
  BY <1>1, <1>2
<1>8. \A r \in R : Matches(h, r) => h.use[r] > 0
  BY DEF Matches
<1>9. \A r \in R : Matches(h, r) => g.use[r] = 0
  BY <1>1 DEF Matches
<1>10. Switching(h, g)
  BY <1>1, <1>5, <1>7, <1>8 DEF Switching
<1>11. Quiet(h, g, {})
  BY <1>6 DEF Quiet
<1>12. g.faults \subseteq h.faults \cup {"unbalanced"}
  BY <1>1
<1> QED
  BY <1>4, <1>9, <1>10, <1>11, <1>12 DEF g

\* A failure of the hardware.
LEMMA SwitchFault ==
    ASSUME NEW h \in Hw, NEW f \in {"stuck", "bind"}
    PROVE  LET g == Fault(h, f)
           IN  /\ Switching(h, g) /\ Quiet(h, g, {})
               /\ g.on = h.on /\ g.use = h.use /\ f \in g.faults
<1> DEFINE g == Fault(h, f)
<1>1. /\ g \in Hw
      /\ g.on = h.on /\ g.use = h.use /\ g.early = h.early /\ g.leaked = h.leaked
      /\ g.faults = h.faults \cup {f}
  BY FaultIs, ZenonT(60) DEF FaultKinds
<1>2. \A r \in Resources : h.use[r] \in Nat
  BY DEF Hw
<1> HIDE DEF g
<1>3. Switching(h, g)
  BY <1>1 DEF Switching, Matches
<1>4. Quiet(h, g, {})
  BY <1>1, <1>2 DEF Quiet
<1> QED
  BY <1>1, <1>3, <1>4 DEF g

\* Only the resources in S are touched.
Within(h, g, S) ==
    \A r \in Resources \ S : g.use[r] = h.use[r] /\ (r \in g.on <=> r \in h.on)

\* One after the other.
LEMMA WithinTwice ==
    ASSUME NEW h, NEW g, NEW k, NEW S, NEW T, Within(h, g, S), Within(g, k, T)
    PROVE  Within(h, k, S \cup T)
BY DEF Within

\* Enabling and disabling touch their resources.
LEMMA SwitchWithin ==
    ASSUME NEW h \in Hw, NEW R \in SUBSET Resources
    PROVE  Within(h, Enabled(h, R), R) /\ Within(h, Disabled(h, R), R)
<1>1. Within(h, Enabled(h, R), R)
  <2> DEFINE g == Enabled(h, R)
  <2>1. /\ g.on = h.on \cup R
        /\ \A r \in Resources : g.use[r] = IF r \in R THEN h.use[r] + 1 ELSE h.use[r]
    BY EnabledIs
  <2> HIDE DEF g
  <2>2. Within(h, g, R)
    BY <2>1 DEF Within
  <2> QED
    BY <2>2 DEF g
<1>2. Within(h, Disabled(h, R), R)
  <2> DEFINE g == Disabled(h, R)
  <2>1. /\ \A r \in Resources : r \in g.on <=> r \in h.on /\ ~(r \in R /\ h.use[r] > 0)
        /\ \A r \in Resources :
              g.use[r] = IF r \in R /\ h.use[r] > 0 THEN h.use[r] - 1 ELSE h.use[r]
    BY DisabledIs
  <2> HIDE DEF g
  <2>2. Within(h, g, R)
    BY <2>1 DEF Within
  <2> QED
    BY <2>2 DEF g
<1> QED
  BY <1>1, <1>2

\* clocks_setup
LEMMA ClocksOn ==
    ASSUME NEW h \in Hw, NEW D \in SUBSET Devices
    PROVE  LET g == clocks_setup(h, D)
           IN  /\ Switching(h, g) /\ Within(h, g, ClocksOf(D))
               /\ h.on \cup ClocksOf(D) \subseteq g.on /\ g.faults = h.faults
<1> DEFINE R == ClocksOf(D) \ h.on
<1>1. R \in SUBSET Resources /\ \A r \in R : r \notin h.on
  BY Included
<1>2. \A r \in R : MayRise(h, r)
  BY Included, InRegus, Apart DEF MayRise, Hw
<1>3. clocks_setup(h, D) = Enabled(h, R)
  BY DEF clocks_setup
<1>4. Switching(h, Enabled(h, R))
  BY <1>1, <1>2, SwitchEnabled
<1>5. Within(h, Enabled(h, R), R)
  BY <1>1, SwitchWithin
<1>6. Enabled(h, R).on = h.on \cup R /\ Enabled(h, R).faults = h.faults
  BY <1>1, EnabledIs
<1>7. Within(h, Enabled(h, R), ClocksOf(D))
  BY <1>5 DEF Within
<1> QED
  BY <1>3, <1>4, <1>6, <1>7

\* clocks_unsetup
LEMMA ClocksOff ==
    ASSUME NEW h \in Hw, NEW D \in SUBSET Devices
    PROVE  LET g == clocks_unsetup(h, D)
           IN  /\ Switching(h, g) /\ Within(h, g, ClocksOf(D)) /\ Quiet(h, g, {})
               /\ \A r \in ClocksOf(D) : Matches(h, r) => g.use[r] = 0
<1> DEFINE R == ClocksOf(D) \cap h.on
           g == Disabled(h, R)
<1>1. R \in SUBSET Resources /\ R \subseteq h.on
  BY Included
<1>2. clocks_unsetup(h, D) = g
  BY DEF clocks_unsetup
<1>3. Switching(h, g) /\ Quiet(h, g, {}) /\ \A r \in R : Matches(h, r) => g.use[r] = 0
  BY <1>1, SwitchDisabled
<1>4. Within(h, g, R)
  BY <1>1, SwitchWithin
<1> HIDE DEF g
<1>5. Within(h, g, ClocksOf(D))
  BY <1>4 DEF Within
<1>6. \A r \in ClocksOf(D) \ R : Matches(h, r) => g.use[r] = 0
  BY <1>4, Included DEF Within, Matches
<1> QED
  BY <1>2, <1>3, <1>5, <1>6

\* regus_setup
LEMMA RegusOn ==
    ASSUME NEW h \in Hw, NEW D \in SUBSET Devices
    PROVE  LET g == regus_setup(h, D)
           IN  /\ Switching(h, g) /\ Within(h, g, RegusOf(D))
               /\ h.on \subseteq g.on /\ g.faults = h.faults
               /\ \A d \in D \ h.early : ReguSets[d] \subseteq g.on
<1> DEFINE R == UNION {ToEnable(h, d) : d \in D}
<1>1. \A d \in D : \A r \in ToEnable(h, d) :
         r \in ReguSets[d] /\ r \notin h.on /\ (d \in h.early => r \in left \/ h.use[r] > 0 \/ r \in h.leaked)
  BY InRegus DEF ToEnable, IsEnabled
<1>2. \A r \in R : \E d \in D : r \in ToEnable(h, d)
  OBVIOUS
<1>3. R \in SUBSET RegusOf(D)
  BY <1>1, <1>2, InRegus
<1>4. R \in SUBSET Resources /\ \A r \in R : r \notin h.on
  BY <1>1, <1>2, <1>3, Included
<1>5. \A r \in R : h.use[r] > 0 \/ MayRise(h, r)
  <2> SUFFICES ASSUME NEW r \in R, ~(h.use[r] > 0), NEW e \in h.early, r \in ReguSets[e]
               PROVE  r \in left \/ r \in h.leaked
    BY DEF MayRise
  <2>1. PICK d \in D : r \in ToEnable(h, d)
    BY <1>2
  <2>2. d = e
    BY <1>1, <2>1, Apart DEF Hw
  <2> QED
    BY <1>1, <2>1, <2>2
<1>6. regus_setup(h, D) = Enabled(h, R)
  BY DEF regus_setup
<1>7. \A d \in D \ h.early : \A r \in ReguSets[d] : r \in h.on \/ r \in R
  BY InRegus DEF ToEnable
<1> HIDE DEF R
<1>8. Switching(h, Enabled(h, R))
  BY <1>4, <1>5, SwitchEnabled
<1>9. Within(h, Enabled(h, R), RegusOf(D))
  BY <1>3, <1>4, SwitchWithin DEF Within
<1>10. Enabled(h, R).on = h.on \cup R /\ Enabled(h, R).faults = h.faults
  BY <1>4, EnabledIs
<1> QED
  BY <1>6, <1>7, <1>8, <1>9, <1>10

\* regus_unsetup
LEMMA RegusOff ==
    ASSUME NEW h \in Hw, NEW D \in SUBSET Devices, NEW stuck
    PROVE  LET g == regus_unsetup(h, D, stuck)
           IN  /\ Switching(h, g) /\ Within(h, g, RegusOf(D)) /\ Quiet(h, g, {})
               /\ \A r \in RegusOf(D) : Matches(h, r) => g.use[r] = 0 \/ "stuck" \in g.faults
<1> DEFINE mine == RegusOf(D) \cap h.on
           R == mine \ stuck
           k == Disabled(h, R)
           g == IF mine \cap stuck = {} THEN k ELSE Fault(k, "stuck")
<1>1. R \in SUBSET Resources /\ R \subseteq h.on
  BY Included
<1>2. regus_unsetup(h, D, stuck) = g
  BY DEF regus_unsetup
<1>3. Switching(h, k) /\ Quiet(h, k, {}) /\ \A r \in R : Matches(h, r) => k.use[r] = 0
  BY <1>1, SwitchDisabled
<1>4. Within(h, k, R)
  BY <1>1, SwitchWithin
<1>5. Within(h, k, RegusOf(D))
  BY <1>4 DEF Within
<1>6. \A r \in RegusOf(D) \ mine : Matches(h, r) => k.use[r] = 0
  BY <1>4, Included DEF Within, Matches
<1>7. k \in Hw
  BY <1>3 DEF Switching
<1> HIDE DEF k
<1>8. CASE mine \cap stuck = {}
  <2>1. g = k
    BY <1>8
  <2>2. \A r \in RegusOf(D) : Matches(h, r) => k.use[r] = 0
    BY <1>3, <1>6, <1>8
  <2> QED
    BY <1>2, <1>3, <1>5, <2>1, <2>2
<1>9. CASE mine \cap stuck # {}
  <2>1. g = Fault(k, "stuck")
    BY <1>9
  <2> HIDE DEF g
  <2>2. Switching(k, g) /\ g.on = k.on /\ g.use = k.use /\ "stuck" \in g.faults
    BY <1>7, <2>1, SwitchFault
  <2>3. Switching(h, g)
    BY <1>3, <2>2, SwitchTwice
  <2>4. Within(h, g, RegusOf(D)) /\ Quiet(h, g, {})
    BY <1>3, <1>5, <2>2 DEF Within, Quiet
  <2> QED
    BY <1>2, <2>2, <2>3, <2>4
<1> QED
  BY <1>8, <1>9

\* rproc_srm_dev_bind, where it succeeds.
LEMMA BoundIs ==
    ASSUME NEW h \in Hw, NEW D \in SUBSET Devices
    PROVE  LET g == Bound(h, D)
           IN  /\ Switching(h, g) /\ Within(h, g, ResourcesOf(D))
               /\ ClocksOf(D) \subseteq g.on /\ g.faults = h.faults
               /\ \A d \in D \ h.early : ReguSets[d] \subseteq g.on
<1> DEFINE k == clocks_setup(h, D)
           g == regus_setup(k, D)
<1>1. Switching(h, k) /\ Within(h, k, ClocksOf(D)) /\ ClocksOf(D) \subseteq k.on /\ k.faults = h.faults
  BY ClocksOn
<1>2. k \in Hw /\ k.early = h.early
  BY <1>1 DEF Switching
<1> HIDE DEF k
<1>3. /\ Switching(k, g) /\ Within(k, g, RegusOf(D))
      /\ k.on \subseteq g.on /\ g.faults = k.faults
      /\ \A d \in D \ k.early : ReguSets[d] \subseteq g.on
  BY <1>2, RegusOn
<1>4. Bound(h, D) = g
  BY DEF Bound, k
<1> HIDE DEF g
<1>5. Switching(h, g)
  BY <1>1, <1>3, SwitchTwice
<1>6. Within(h, g, ResourcesOf(D))
  BY <1>1, <1>3, WithinTwice DEF ResourcesOf
<1> QED
  BY <1>1, <1>2, <1>3, <1>4, <1>5, <1>6

\* rproc_srm_dev_unbind
LEMMA UnboundIs ==
    ASSUME NEW h \in Hw, NEW D \in SUBSET Devices, NEW stuck
    PROVE  LET g == Unbound(h, D, stuck)
           IN  /\ Switching(h, g) /\ Quiet(h, g, {})
               /\ \A r \in ClocksOf(D) : Matches(h, r) => g.use[r] = 0
               /\ \A r \in RegusOf(D) : Matches(h, r) => g.use[r] = 0 \/ "stuck" \in g.faults
<1> DEFINE k == regus_unsetup(h, D, stuck)
           g == clocks_unsetup(k, D)
<1>1. /\ Switching(h, k) /\ Quiet(h, k, {})
      /\ \A r \in RegusOf(D) : Matches(h, r) => k.use[r] = 0 \/ "stuck" \in k.faults
  BY RegusOff
<1>2. k \in Hw /\ \A r \in Resources : Matches(h, r) => Matches(k, r)
  BY <1>1 DEF Switching
<1> HIDE DEF k
<1>3. /\ Switching(k, g) /\ Within(k, g, ClocksOf(D)) /\ Quiet(k, g, {})
      /\ \A r \in ClocksOf(D) : Matches(k, r) => g.use[r] = 0
  BY <1>2, ClocksOff
<1>4. Unbound(h, D, stuck) = g
  BY DEF Unbound, k
<1>5. g \in Hw /\ k.faults \subseteq g.faults
  BY <1>3 DEF Switching
<1> HIDE DEF g
<1>6. Switching(h, g)
  BY <1>1, <1>3, SwitchTwice
<1>7. Quiet(h, g, {} \cup {})
  BY <1>1, <1>2, <1>3, <1>5, QuietTwice
<1>8. \A r \in ClocksOf(D) : Matches(h, r) => g.use[r] = 0
  BY <1>2, <1>3, Included
<1>9. \A r \in RegusOf(D) : g.use[r] = k.use[r]
  BY <1>3, Included, Apart DEF Within
<1> QED
  BY <1>1, <1>4, <1>5, <1>6, <1>7, <1>8, <1>9 DEF Quiet

\* What regus_setup may enable.
LEMMA ToEnableRises ==
    ASSUME NEW h \in Hw, NEW d \in Devices, NEW r \in ToEnable(h, d)
    PROVE  /\ r \in RegusOf({d}) /\ r \in Resources /\ r \notin h.on
           /\ h.use[r] > 0 \/ MayRise(h, r)
<1>1. r \in RegusOf({d}) /\ r \notin h.on
      /\ (d \in h.early => r \in left \/ h.use[r] > 0 \/ r \in h.leaked)
  BY DEF ToEnable, IsEnabled
<1>2. r \in ReguSets[d] /\ r \in Resources
  BY <1>1, InRegus, Included
<1>3. ASSUME ~(h.use[r] > 0), NEW e \in h.early, r \in ReguSets[e]
      PROVE  r \in left \/ r \in h.leaked
  BY <1>1, <1>2, <1>3, Apart DEF Hw
<1> QED
  BY <1>1, <1>2, <1>3 DEF MayRise

\* rproc_srm_dev_bind, where it fails: a clock stays on only behind a regulator
\* that failed, and a regulator that it switched on only if it cannot be disabled.
LEMMA BindFailureIs ==
    ASSUME NEW h \in Hw, NEW d \in Devices, NEW f \in BindFailures(h, d)
    PROVE  /\ Switching(h, f) /\ Within(h, f, ResourcesOf({d}))
           /\ \A r \in ClocksOf({d}) : Matches(h, r) => f.use[r] = 0 \/ "bind" \in f.faults
           /\ \A r \in RegusOf({d}) :
                 Matches(h, r) => f.use[r] = h.use[r] \/ f.use[r] = 0 \/ "stuck" \in f.faults
<1> DEFINE lit == clocks_setup(h, {d})
<1>a. {d} \in SUBSET Devices
  OBVIOUS
<1>1. \/ f = clocks_unsetup(h, {d})
      \/ \E r \in ToEnable(lit, d), stuck \in SUBSET RegusOf({d}) : f = FailsAt(lit, d, r, stuck)
  BY DEF BindFailures
<1>2. CASE f = clocks_unsetup(h, {d})
  <2>1. /\ Switching(h, f) /\ Within(h, f, ClocksOf({d}))
        /\ \A r \in ClocksOf({d}) : Matches(h, r) => f.use[r] = 0
    BY <1>a, <1>2, ClocksOff
  <2>2. Within(h, f, ResourcesOf({d}))
    BY <2>1 DEF Within, ResourcesOf
  <2>3. \A r \in RegusOf({d}) : f.use[r] = h.use[r]
    BY <1>a, <2>1, Included, Apart DEF Within
  <2> QED
    BY <2>1, <2>2, <2>3
<1>3. ASSUME NEW r \in ToEnable(lit, d), NEW stuck \in SUBSET RegusOf({d}),
             f = FailsAt(lit, d, r, stuck)
      PROVE  /\ Switching(h, f) /\ Within(h, f, ResourcesOf({d})) /\ "bind" \in f.faults
             /\ \A s \in RegusOf({d}) : Matches(h, s) => f.use[s] = 0 \/ "stuck" \in f.faults
  <2>1. Switching(h, lit) /\ Within(h, lit, ClocksOf({d}))
    BY <1>a, ClocksOn
  <2>2. lit \in Hw
    BY <2>1 DEF Switching
  <2> DEFINE E == Earlier(lit, d, r)
             k == Enabled(lit, E)
             g == regus_unsetup(k, {d}, stuck)
  <2>3. \A s \in E : s \in ToEnable(lit, d)
    BY DEF Earlier
  <2> HIDE DEF lit, E
  <2>4. \A s \in E : s \in RegusOf({d}) /\ s \in Resources /\ s \notin lit.on
                     /\ (lit.use[s] > 0 \/ MayRise(lit, s))
    BY <2>2, <2>3, ToEnableRises
  <2>5. E \in SUBSET Resources
    BY <2>4
  <2>6. Switching(lit, k) /\ Within(lit, k, E)
    BY <2>2, <2>4, <2>5, SwitchEnabled, SwitchWithin
  <2>7. k \in Hw
    BY <2>6 DEF Switching
  <2> HIDE DEF k
  <2>8. /\ Switching(k, g) /\ Within(k, g, RegusOf({d}))
        /\ \A s \in RegusOf({d}) : Matches(k, s) => g.use[s] = 0 \/ "stuck" \in g.faults
    BY <1>a, <2>7, RegusOff
  <2>9. g \in Hw
    BY <2>8 DEF Switching
  <2>10. f = Fault(g, "bind")
    BY <1>3 DEF FailsAt, k, E
  <2> HIDE DEF g
  <2>11. Switching(g, f) /\ f.on = g.on /\ f.use = g.use /\ "bind" \in f.faults
    BY <2>9, <2>10, SwitchFault
  <2>12. Switching(h, k)
    BY <2>1, <2>6, SwitchTwice
  <2>13. Switching(h, f)
    BY <2>8, <2>11, <2>12, SwitchTwice
  <2>14. Within(h, f, ResourcesOf({d}))
    <3>1. Within(lit, k, RegusOf({d}))
      BY <2>4, <2>6 DEF Within
    <3>2. Within(h, g, ClocksOf({d}) \cup RegusOf({d}))
      BY <2>1, <2>8, <3>1 DEF Within
    <3> QED
      BY <2>11, <3>2 DEF Within, ResourcesOf
  <2>15. \A s \in RegusOf({d}) : Matches(h, s) => Matches(k, s)
    BY <1>a, <2>12, Included DEF Switching
  <2>16. g.faults \subseteq f.faults
    BY <2>11 DEF Switching
  <2> QED
    BY <2>8, <2>11, <2>13, <2>14, <2>15, <2>16
<1> QED
  BY <1>1, <1>2, <1>3

\* What is accounted for stays so.
LEMMA AccountedKept ==
    ASSUME NEW h \in Hw, NEW g \in Hw, NEW r \in Resources, h.faults \subseteq g.faults,
           g.use[r] <= h.use[r], Accounted(h, r)
    PROVE  Accounted(g, r)
<1>1. h.use[r] \in Nat /\ g.use[r] \in Nat
  BY DEF Hw
<1>2. g.use[r] > 0 => h.use[r] > 0
  BY <1>1
<1> QED
  BY <1>2 DEF Accounted, Excused

\* What a bind or an unbind starts from, with nothing bound afterwards: flags that
\* say what is enabled, or else an overlap, which takes the removal of a device.
Sound(h) ==
    /\ \A r \in ClocksOf(Devices) : Matches(h, r)
    /\ "overlap" \notin h.faults => \A r \in Resources : Matches(h, r)
    /\ "overlap" \in h.faults => "removal" \in h.faults

\* Unbinding every device leaves on only what there is an excuse for.
LEMMA UnboundAccounted ==
    ASSUME NEW h \in Hw, NEW stuck, Sound(h), NEW r \in Resources
    PROVE  Accounted(Unbound(h, Devices, stuck), r)
<1> DEFINE g == Unbound(h, Devices, stuck)
<1>1. /\ Switching(h, g)
      /\ \A s \in ClocksOf(Devices) : Matches(h, s) => g.use[s] = 0
      /\ \A s \in RegusOf(Devices) : Matches(h, s) => g.use[s] = 0 \/ "stuck" \in g.faults
  BY UnboundIs
<1>2. h.faults \subseteq g.faults
  BY <1>1 DEF Switching
<1> HIDE DEF g
<1>3. CASE r \in ClocksOf(Devices)
  BY <1>1, <1>3 DEF Accounted, Sound, g
<1>4. CASE r \in RegusOf(Devices)
  <2>1. r \notin ClocksOf(Devices)
    BY <1>4, Apart
  <2>2. "removal" \in h.faults \/ g.use[r] = 0 \/ "stuck" \in g.faults
    BY <1>1, <1>4 DEF Sound
  <2> QED
    BY <1>2, <2>1, <2>2 DEF Accounted, Excused, g
<1> QED
  BY <1>3, <1>4 DEF Resources

\* The two ways of component_bind_all.
LEMMA OutcomeIs ==
    ASSUME NEW h \in Hw, NEW outcome \in BindOutcomes(h)
    PROVE  \/ outcome.ok = TRUE /\ outcome.hw = Bound(h, Devices)
           \/ /\ outcome.ok = FALSE
              /\ \E k \in 1 .. Len(MatchOrder) :
                    \E f \in BindFailures(Bound(h, Before(k)), MatchOrder[k]),
                       stuck \in SUBSET RegusOf(Before(k)) : outcome.hw = Unbound(f, Before(k), stuck)
<1>1. \/ outcome = [hw |-> Bound(h, Devices), ok |-> TRUE]
      \/ \E k \in 1 .. Len(MatchOrder) : outcome \in FailedBinds(h, k)
  BY DEF BindOutcomes
<1>2. ASSUME NEW k \in 1 .. Len(MatchOrder), outcome \in FailedBinds(h, k)
      PROVE  /\ outcome.ok = FALSE
             /\ \E f \in BindFailures(Bound(h, Before(k)), MatchOrder[k]),
                   stuck \in SUBSET RegusOf(Before(k)) : outcome.hw = Unbound(f, Before(k), stuck)
  <2>1. PICK f \in BindFailures(Bound(h, Before(k)), MatchOrder[k]),
             stuck \in SUBSET RegusOf(Before(k)) :
               outcome = [hw |-> Unbound(f, Before(k), stuck), ok |-> FALSE]
    BY <1>2 DEF FailedBinds
  <2> QED
    BY <2>1
<1>3. CASE outcome = [hw |-> Bound(h, Devices), ok |-> TRUE]
  BY <1>3
<1> QED
  BY <1>1, <1>2, <1>3

\* Binding: whatever the outcome, and what each of the two ways leaves.
LEMMA OutcomeEffect ==
    ASSUME NEW h \in Hw, NEW outcome \in BindOutcomes(h)
    PROVE  /\ Switching(h, outcome.hw) /\ outcome.ok \in BOOLEAN
           /\ outcome.ok => /\ ClocksOf(Devices) \subseteq outcome.hw.on
                            /\ \A d \in Devices \ h.early : ReguSets[d] \subseteq outcome.hw.on
           /\ ~outcome.ok /\ Sound(h) /\ (\A r \in Resources : Accounted(h, r)) =>
                 \A r \in Resources : Accounted(outcome.hw, r)
<1>1. CASE outcome.ok = TRUE /\ outcome.hw = Bound(h, Devices)
  <2>1. /\ Switching(h, Bound(h, Devices)) /\ ClocksOf(Devices) \subseteq Bound(h, Devices).on
        /\ \A d \in Devices \ h.early : ReguSets[d] \subseteq Bound(h, Devices).on
    BY BoundIs
  <2> QED
    BY <1>1, <2>1
<1>2. ASSUME outcome.ok = FALSE, NEW k \in 1 .. Len(MatchOrder),
             NEW f \in BindFailures(Bound(h, Before(k)), MatchOrder[k]),
             NEW stuck \in SUBSET RegusOf(Before(k)), outcome.hw = Unbound(f, Before(k), stuck)
      PROVE  /\ Switching(h, outcome.hw)
             /\ Sound(h) /\ (\A r \in Resources : Accounted(h, r)) =>
                   \A r \in Resources : Accounted(outcome.hw, r)
  <2> DEFINE D == Before(k)
             d == MatchOrder[k]
             b == Bound(h, D)
             g == Unbound(f, D, stuck)
  <2>1. D \in SUBSET Devices /\ d \in Devices
    <3>1. \A j \in 1 .. Len(MatchOrder) : MatchOrder[j] \in Devices
      BY MatchAssumption
    <3>2. Len(MatchOrder) \in Nat
      BY MatchAssumption
    <3>3. \A j \in 1 .. k - 1 : j \in 1 .. Len(MatchOrder)
      BY <3>2
    <3> QED
      BY <3>1, <3>3 DEF Before
  <2>2. f \in BindFailures(b, d)
    OBVIOUS
  <2>3. outcome.hw = g
    BY <1>2
  <2> HIDE DEF D, d
  <2>4. Switching(h, b) /\ Within(h, b, ResourcesOf(D))
    BY <2>1, BoundIs
  <2>5. b \in Hw
    BY <2>4 DEF Switching
  <2> HIDE DEF b
  <2>6. /\ Switching(b, f) /\ Within(b, f, ResourcesOf({d}))
        /\ \A r \in ClocksOf({d}) : Matches(b, r) => f.use[r] = 0 \/ "bind" \in f.faults
        /\ \A r \in RegusOf({d}) :
              Matches(b, r) => f.use[r] = b.use[r] \/ f.use[r] = 0 \/ "stuck" \in f.faults
    BY <2>1, <2>2, <2>5, BindFailureIs
  <2>7. f \in Hw
    BY <2>6 DEF Switching
  <2>8. /\ Switching(f, g) /\ Quiet(f, g, {})
        /\ \A r \in ClocksOf(D) : Matches(f, r) => g.use[r] = 0
        /\ \A r \in RegusOf(D) : Matches(f, r) => g.use[r] = 0 \/ "stuck" \in g.faults
    BY <2>1, <2>7, UnboundIs
  <2>9. g \in Hw /\ f.faults \subseteq g.faults
    BY <2>8 DEF Switching
  <2> HIDE DEF g
  <2>10. Switching(h, f) /\ Switching(h, g)
    BY <2>4, <2>6, <2>8, SwitchTwice
  <2>11. h.faults \subseteq g.faults
    BY <2>10 DEF Switching
  <2>12. ASSUME Sound(h), NEW r \in Resources, Accounted(h, r)
         PROVE  Accounted(g, r)
    <3>1. Matches(h, r) => Matches(b, r) /\ Matches(f, r)
      BY <2>4, <2>10 DEF Switching
    <3>2. g.use[r] <= f.use[r] /\ g.use[r] \in Nat /\ f.use[r] \in Nat /\ h.use[r] \in Nat
      BY <2>7, <2>8, <2>9 DEF Quiet, Hw
    <3>3. CASE r \in ClocksOf(Devices)
      <4>1. Matches(b, r) /\ Matches(f, r)
        BY <2>12, <3>1, <3>3 DEF Sound
      <4>2. r \notin RegusOf(D) /\ r \notin RegusOf({d})
        BY <2>1, <3>3, Apart, Included
      <4>3. CASE r \in ClocksOf(D)
        BY <2>8, <4>1, <4>3 DEF Accounted
      <4>4. CASE r \in ClocksOf({d})
        <5>1. g.use[r] = 0 \/ "bind" \in g.faults
          <6>1. f.use[r] = 0 \/ "bind" \in f.faults
            BY <2>6, <4>1, <4>4
          <6> QED
            BY <2>9, <3>2, <6>1
        <5> QED
          BY <3>3, <5>1 DEF Accounted, Excused
      <4>5. CASE r \notin ClocksOf(D) /\ r \notin ClocksOf({d})
        <5>1. f.use[r] = h.use[r]
          BY <2>4, <2>6, <4>2, <4>5 DEF Within, ResourcesOf
        <5> QED
          BY <2>9, <2>11, <2>12, <3>2, <5>1, AccountedKept
      <4> QED
        BY <4>3, <4>4, <4>5
    <3>4. CASE r \notin ClocksOf(Devices) /\ "removal" \in h.faults
      BY <2>11, <3>4 DEF Accounted, Excused
    <3>5. CASE r \notin ClocksOf(Devices) /\ "removal" \notin h.faults
      <4>1. Matches(b, r) /\ Matches(f, r)
        BY <2>12, <3>1, <3>5 DEF Sound
      <4>2. r \notin ClocksOf(D) /\ r \notin ClocksOf({d})
        BY <2>1, <3>5, Included
      <4>3. CASE r \in RegusOf(D)
        BY <2>8, <3>5, <4>1, <4>3 DEF Accounted, Excused
      <4>4. CASE r \notin RegusOf(D)
        <5>1. b.use[r] = h.use[r]
          BY <2>4, <4>2, <4>4 DEF Within, ResourcesOf
        <5>2. f.use[r] = b.use[r] \/ f.use[r] = 0 \/ "stuck" \in f.faults
          <6>1. CASE r \in RegusOf({d})
            BY <2>6, <4>1, <6>1
          <6>2. CASE r \notin RegusOf({d})
            BY <2>6, <4>2, <6>2 DEF Within, ResourcesOf
          <6> QED
            BY <6>1, <6>2
        <5>3. CASE f.use[r] = b.use[r]
          BY <2>9, <2>11, <2>12, <3>2, <5>1, <5>3, AccountedKept
        <5>4. CASE f.use[r] = 0
          BY <3>2, <5>4 DEF Accounted
        <5>5. CASE "stuck" \in f.faults
          BY <2>9, <3>5, <5>5 DEF Accounted, Excused
        <5> QED
          BY <5>2, <5>3, <5>4, <5>5
      <4> QED
        BY <4>3, <4>4
    <3> QED
      BY <3>3, <3>4, <3>5
  <2> QED
    BY <2>3, <2>10, <2>12
<1> QED
  BY <1>1, <1>2, OutcomeIs

(***************************************************************************)
(* The steps of the core that leave the devices alone.                     *)
(***************************************************************************)

\* The parts of the invariant that are about devices and their resources.
LEMMA SameDevices ==
    ASSUME Inductive, UNCHANGED <<devVars, dev, components, master>>, ~oops
    PROVE  /\ ListsInv' /\ HandlerInv' /\ ZeroInv' /\ FlagsInv' /\ LeakInv' /\ OnInv'
           /\ EarlyBootSyncs'
<1> USE DEF Inductive, devVars
<1>1. ListsInv'
  BY DEF ListsInv, Probed
<1>2. HandlerInv'
  BY DEF HandlerInv
<1>3. ZeroInv'
  BY DEF ZeroInv
<1>4. FlagsInv'
  BY DEF FlagsInv, FlagsMatchUse, Faulty
<1>5. LeakInv'
  BY DEF LeakInv
<1>6. OnInv'
  BY DEF OnInv
<1>7. EarlyBootSyncs'
  BY DEF EarlyBootSyncs
<1> QED
  BY <1>1, <1>2, <1>3, <1>4, <1>5, <1>6, <1>7

\* Without children there is nothing to bind.
LEMMA NoChildKeeps ==
    ASSUME Inductive, NoChild, ~oops
    PROVE  Inductive'
<1> USE DEF Inductive, NoChild, devVars
<1>1. Typed'
  BY DEF Typed, Stages
<1>2. StageInv'
  BY DEF StageInv
<1>3. BoundInv'
  BY DEF BoundInv
<1>4. FaultInv'
  BY DEF FaultInv, FreedIsUnused, Faulty
<1> QED
  BY <1>1, <1>2, <1>3, <1>4, SameDevices

\* The devices have not come in time.
LEMMA TimeoutKeeps ==
    ASSUME Inductive, Timeout, ~oops
    PROVE  Inductive'
<1> USE DEF Inductive, Timeout, devVars
<1>1. Typed'
  BY DEF Typed, Stages
<1>2. StageInv'
  BY DEF StageInv
<1>3. BoundInv'
  BY DEF BoundInv
<1>4. FaultInv'
  BY DEF FaultInv, FreedIsUnused, Faulty
<1> QED
  BY <1>1, <1>2, <1>3, <1>4, SameDevices

\* All are bound, or the bind has failed: prepare looks at bind_status.
LEMMA WokenKeeps ==
    ASSUME Inductive, Woken, ~oops
    PROVE  Inductive'
<1> USE DEF Inductive, Woken, devVars
<1>1. Typed'
  BY DEF Typed, Stages
<1>2. StageInv'
  BY DEF StageInv
<1>3. BoundInv'
  BY DEF BoundInv
<1>4. FaultInv'
  BY DEF FaultInv, FreedIsUnused, Faulty
<1> QED
  BY <1>1, <1>2, <1>3, <1>4, SameDevices

\* No request is in hand any more when the rpmsg driver is gone.
LEMMA UnregisterRpmsgKeeps ==
    ASSUME Inductive, UnregisterRpmsg, ~oops
    PROVE  Inductive'
<1> USE DEF Inductive, UnregisterRpmsg, devVars
<1>1. Typed'
  BY DEF Typed, Stages
<1>2. StageInv'
  BY DEF StageInv
<1>3. BoundInv'
  BY DEF BoundInv
<1>4. FaultInv'
  BY DEF FaultInv, FreedIsUnused, Faulty
<1> QED
  BY <1>1, <1>2, <1>3, <1>4, SameDevices

\* The remote processor starts, or fails to and is unprepared.
LEMMA StartKeeps ==
    ASSUME Inductive, Start, ~oops
    PROVE  Inductive'
<1> USE DEF Inductive, Start, devVars
<1>1. Typed'
  BY DEF Typed, Stages
<1>2. StageInv'
  BY DEF StageInv
<1>3. BoundInv'
  BY DEF BoundInv
<1>4. FaultInv'
  BY DEF FaultInv, FreedIsUnused, Faulty
<1> QED
  BY <1>1, <1>2, <1>3, <1>4, SameDevices

\* It stops.
LEMMA StopKeeps ==
    ASSUME Inductive, Stop, ~oops
    PROVE  Inductive'
<1> USE DEF Inductive, Stop, devVars
<1>1. Typed'
  BY DEF Typed, Stages
<1>2. StageInv'
  BY DEF StageInv
<1>3. BoundInv'
  BY DEF BoundInv
<1>4. FaultInv'
  BY DEF FaultInv, FreedIsUnused, Faulty
<1> QED
  BY <1>1, <1>2, <1>3, <1>4, SameDevices

\* Memory that was freed is used: the fault that did it is remembered.
LEMMA FreedKeeps ==
    ASSUME Inductive, StartGone \/ WalkFreed, ~oops
    PROVE  Inductive'
<1>0. UNCHANGED <<devVars, stage, available, dev, components, master, all_bound, bind_ok, rpmsg,
                  rproc, dangling, removals, gone>> /\ (gone \/ dangling)
  BY DEF StartGone, WalkFreed
<1> USE DEF Inductive, devVars
<1>1. Typed'
  BY <1>0 DEF Typed, Stages
<1>2. StageInv'
  BY <1>0 DEF StageInv
<1>3. BoundInv'
  BY <1>0 DEF BoundInv
<1>4. FaultInv'
  BY <1>0 DEF FaultInv, FreedIsUnused, Faulty
<1> QED
  BY <1>0, <1>1, <1>2, <1>3, <1>4, SameDevices

(***************************************************************************)
(* The steps that bind and unbind every device.                            *)
(***************************************************************************)

\* The flags say what is enabled, or an overlap answers for it.
LEMMA HwSound ==
    ASSUME Inductive
    PROVE  Sound(hw)
BY DEF Inductive, FlagsInv, FlagsMatchUse, Faulty, Sound, Matches

\* When all are bound, or their last one is about to be, all have their resources.
LEMMA BoundAreHeld ==
    ASSUME Inductive, master = "bound"
    PROVE  \A d \in Devices : dev[d] = "probed"
BY DEF Inductive, ListsInv, StageInv, Probed

\* What FlagsInv, LeakInv and EarlyBootSyncs say of the hardware's state alone.
Flagged(h) ==
    /\ \A r \in ClocksOf(Devices) : Matches(h, r)
    /\ "overlap" \in h.faults => "removal" \in h.faults
    /\ "overlap" \notin h.faults =>
          "unbalanced" \notin h.faults /\ \A r \in Resources : Matches(h, r)
    /\ \A r \in h.leaked : Excused(h, r)
    /\ \A r \in RegusOf(h.early) \ left :
          h.use[r] > 0 => <<r, TRUE>> \in asked \/ r \in h.leaked

\* It holds.
LEMMA HwFlagged ==
    ASSUME Inductive
    PROVE  Flagged(hw)
BY DEF Inductive, FlagsInv, FlagsMatchUse, Faulty, Matches, LeakInv, EarlyBootSyncs, Flagged

\* And it is enough for what the invariant says after a step.
LEMMA FlaggedGives ==
    ASSUME Flagged(hw'), UNCHANGED <<left, asked>>, irqs' \cap hw'.early = {}
    PROVE  FlagsInv' /\ EarlyBootSyncs' /\ \A r \in hw'.leaked : Excused(hw', r)
<1>1. FlagsMatchUse'
  <2> SUFFICES ASSUME "overlap" \notin hw'.faults
               PROVE  "unbalanced" \notin hw'.faults /\ \A r \in Resources : Matches(hw', r)
    BY DEF FlagsMatchUse, Faulty, Matches
  <2> QED
    BY DEF Flagged
<1>2. EarlyBootSyncs'
  BY DEF Flagged, EarlyBootSyncs
<1> QED
  BY <1>1, <1>2 DEF Flagged, FlagsInv

\* Binding and unbinding keep it.
LEMMA SwitchFlagged ==
    ASSUME NEW h \in Hw, NEW g, Flagged(h), Switching(h, g)
    PROVE  Flagged(g)
<1>1. /\ g \in Hw /\ g.early = h.early /\ g.leaked = h.leaked /\ h.faults \subseteq g.faults
      /\ g.faults \subseteq h.faults \cup {"unbalanced", "stuck", "bind"}
      /\ \A r \in Resources : Matches(h, r) => Matches(g, r)
      /\ (\A r \in Resources : Matches(h, r)) /\ "unbalanced" \in g.faults => "unbalanced" \in h.faults
      /\ \A r \in Resources : g.use[r] > 0 => h.use[r] > 0 \/ MayRise(h, r)
  BY DEF Switching
<1>2. \A r \in ClocksOf(Devices) : Matches(g, r)
  BY <1>1, Included DEF Flagged
<1>3. "overlap" \notin g.faults => "unbalanced" \notin g.faults /\ \A r \in Resources : Matches(g, r)
  BY <1>1 DEF Flagged
<1>4. \A r \in g.leaked : Excused(g, r)
  BY <1>1 DEF Flagged, Excused
<1>5. ASSUME NEW r \in RegusOf(h.early) \ left, g.use[r] > 0
      PROVE  <<r, TRUE>> \in asked \/ r \in h.leaked
  <2>1. r \in Resources
    BY Included DEF Hw
  <2>2. PICK d \in h.early : r \in ReguSets[d]
    BY InRegus
  <2>3. CASE h.use[r] > 0
    BY <2>3 DEF Flagged
  <2>4. CASE MayRise(h, r)
    BY <2>2, <2>4 DEF MayRise
  <2> QED
    BY <1>1, <1>5, <2>1, <2>3, <2>4
<1> QED
  BY <1>1, <1>2, <1>3, <1>4, <1>5 DEF Flagged

\* A fault excuses more.
LEMMA FaultFlagged ==
    ASSUME NEW h \in Hw, Flagged(h), NEW f \in FaultKinds \ {"unbalanced", "overlap"}
    PROVE  /\ Flagged(Fault(h, f))
           /\ \A r \in Resources : Accounted(h, r) => Accounted(Fault(h, f), r)
<1> DEFINE g == Fault(h, f)
<1>1. /\ g.on = h.on /\ g.use = h.use /\ g.early = h.early /\ g.leaked = h.leaked
      /\ g.faults = h.faults \cup {f}
  BY FaultIs
<1>2. f # "unbalanced" /\ f # "overlap"
  OBVIOUS
<1> HIDE DEF g
<1>3. \A r : (Matches(h, r) => Matches(g, r)) /\ (Excused(h, r) => Excused(g, r))
  BY <1>1 DEF Matches, Excused
<1>4. \A r \in Resources : Accounted(h, r) => Accounted(g, r)
  BY <1>1, <1>3 DEF Accounted
<1>5. Flagged(g)
  BY <1>1, <1>2, <1>3 DEF Flagged
<1> QED
  BY <1>4, <1>5 DEF g

\* So does an overlap, which no one can meet before a device was removed.
LEMMA OverlapFlagged ==
    ASSUME NEW h \in Hw, Flagged(h), handler.busy => "removal" \in h.faults
    PROVE  LET g == Overlapping(h)
           IN  /\ g \in Hw /\ Flagged(g) /\ Sound(g)
               /\ g.on = h.on /\ g.use = h.use /\ g.early = h.early /\ g.leaked = h.leaked
               /\ h.faults \subseteq g.faults /\ (handler.busy => "overlap" \in g.faults)
               /\ \A r \in Resources : Accounted(h, r) => Accounted(g, r)
<1> DEFINE g == Overlapping(h)
<1>1. /\ g \in Hw
      /\ g.on = h.on /\ g.use = h.use /\ g.early = h.early /\ g.leaked = h.leaked
      /\ g.faults = h.faults \/ (handler.busy /\ g.faults = h.faults \cup {"overlap"})
      /\ handler.busy => "overlap" \in g.faults
  BY FaultIs DEF Overlapping, FaultKinds
<1> HIDE DEF g
<1>2. h.faults \subseteq g.faults
  BY <1>1
<1>3. \A r : (Matches(h, r) => Matches(g, r)) /\ (Excused(h, r) => Excused(g, r))
  BY <1>1, <1>2 DEF Matches, Excused
<1>4. \A r \in Resources : Accounted(h, r) => Accounted(g, r)
  BY <1>1, <1>3 DEF Accounted
<1>5. Flagged(g)
  BY <1>1, <1>3 DEF Flagged
<1>6. Sound(g)
  BY <1>5 DEF Flagged, Sound
<1> QED
  BY <1>1, <1>2, <1>4, <1>5, <1>6 DEF g

\* Putting a device's resources leaks only what there is an excuse for.
LEMMA PutFlagged ==
    ASSUME NEW h \in Hw, NEW d \in Devices, Flagged(h), \A r \in Resources : Accounted(h, r)
    PROVE  LET g == Put(h, {d})
           IN  /\ g \in Hw /\ Flagged(g) /\ \A r \in Resources : Accounted(g, r)
               /\ g.early = h.early \ {d} /\ g.faults = h.faults
               /\ \A r \in ResourcesOf({d}) : g.use[r] = 0 /\ r \notin g.on
               /\ \A r \in Resources \ ResourcesOf({d}) :
                     g.use[r] = h.use[r] /\ (r \in g.on <=> r \in h.on)
<1> DEFINE g == Put(h, {d})
<1>0. {d} \in SUBSET Devices
  OBVIOUS
<1>1. /\ g \in Hw
      /\ \A r \in Resources : r \in g.on <=> r \in h.on /\ r \notin ResourcesOf({d})
      /\ \A r \in Resources : g.use[r] = IF r \in ResourcesOf({d}) THEN 0 ELSE h.use[r]
      /\ g.early = h.early \ {d} /\ g.faults = h.faults
      /\ g.leaked = h.leaked \cup {r \in ResourcesOf({d}) : h.use[r] > 0}
  BY <1>0, PutIs
<1>2. ResourcesOf({d}) \subseteq Resources
  BY <1>0, Included DEF ResourcesOf
<1> HIDE DEF g
<1>3. \A r \in Resources : Matches(h, r) => Matches(g, r)
  BY <1>1 DEF Matches
<1>4. \A r : Excused(g, r) <=> Excused(h, r)
  BY <1>1 DEF Excused
<1>5. \A r \in Resources : Accounted(g, r)
  BY <1>1, <1>4 DEF Accounted
<1>6. \A r \in g.leaked : Excused(g, r)
  BY <1>1, <1>2, <1>4 DEF Flagged, Accounted
<1>7. ASSUME NEW r \in RegusOf(g.early) \ left, g.use[r] > 0
      PROVE  <<r, TRUE>> \in asked \/ r \in g.leaked
  <2>1. r \in RegusOf(h.early)
    BY <1>1, InRegus
  <2>2. r \in Resources
    BY <2>1, Included DEF Hw
  <2>3. h.use[r] > 0
    BY <1>1, <1>7, <2>2
  <2> QED
    BY <1>1, <2>1, <2>3 DEF Flagged
<1>8. Flagged(g)
  <2>1. \A r \in ClocksOf(Devices) : Matches(g, r)
    BY <1>3, Included DEF Flagged
  <2>2. "overlap" \notin g.faults => "unbalanced" \notin g.faults /\ \A r \in Resources : Matches(g, r)
    BY <1>1, <1>3 DEF Flagged
  <2>3. "overlap" \in g.faults => "removal" \in g.faults
    BY <1>1 DEF Flagged
  <2> QED
    BY <1>6, <1>7, <2>1, <2>2, <2>3 DEF Flagged
<1>9. \A r \in ResourcesOf({d}) : g.use[r] = 0 /\ r \notin g.on
  BY <1>1, <1>2
<1> QED
  BY <1>1, <1>5, <1>8, <1>9 DEF g

\* What any switching of bound resources keeps.
LEMMA SwitchKeeps ==
    ASSUME Inductive, Switching(hw, hw'), UNCHANGED <<left, irqs, asked>>
    PROVE  /\ hw' \in Hw /\ FlagsInv' /\ EarlyBootSyncs'
           /\ \A r \in hw'.leaked : Excused(hw', r)
           /\ hw.faults \subseteq hw'.faults
<1>1. hw' \in Hw /\ hw'.early = hw.early /\ hw.faults \subseteq hw'.faults
  BY DEF Switching
<1>2. Flagged(hw')
  BY HwFlagged, SwitchFlagged DEF Inductive, Typed
<1>3. irqs' \cap hw'.early = {}
  BY <1>1 DEF Inductive, EarlyBootSyncs
<1> QED
  BY <1>1, <1>2, <1>3, FlaggedGives

\* No request is in hand outside of prepared and unregister.
LEMMA NoRequest ==
    ASSUME Inductive, stage \notin {"prepared", "unregister"}
    PROVE  ~rpmsg /\ ~handler.busy
BY DEF Inductive, StageInv

\* The core's master goes, and with it what was bound.
LEMMA MasterDelKeeps ==
    ASSUME Inductive, MasterDel, ~oops
    PROVE  Inductive'
<1>1. /\ stage = "master_del" /\ stage' = "depopulate" /\ master' = "none"
      /\ UNCHANGED <<left, irqs, chain, handler, reply, asked, available, dev, components, all_bound,
                     bind_ok, rpmsg, rproc, dangling, removals, gone, oops>>
  BY DEF MasterDel, Unbind
<1>2. hw \in Hw
  BY DEF Inductive, Typed
<1>3. /\ Switching(hw, hw')
      /\ \A r \in Resources : Accounted(hw', r)
      /\ master = "bound" \/ hw' = hw
  <2>1. CASE master = "bound"
    <3>1. PICK stuck \in SUBSET RegusOf(Devices) : hw' = Unbound(hw, Devices, stuck)
      BY <2>1 DEF MasterDel, Unbind
    <3>2. Switching(hw, hw')
      BY <1>2, <3>1, UnboundIs
    <3>3. \A r \in Resources : Accounted(hw', r)
      BY <1>2, <3>1, HwSound, UnboundAccounted
    <3> QED
      BY <2>1, <3>2, <3>3
  <2>2. CASE master # "bound"
    <3>1. hw' = hw
      BY <2>2 DEF MasterDel, Unbind
    <3>2. Switching(hw, hw')
      BY <1>2, <3>1, SwitchNone
    <3> QED
      BY <2>2, <3>1, <3>2 DEF Inductive, LeakInv
  <2> QED
    BY <2>1, <2>2
<1>4. /\ hw' \in Hw /\ FlagsInv' /\ EarlyBootSyncs'
      /\ \A r \in hw'.leaked : Excused(hw', r)
      /\ hw.faults \subseteq hw'.faults
  BY <1>1, <1>3, SwitchKeeps
<1>5. ~rpmsg /\ ~handler.busy
  BY <1>1, NoRequest
<1>6. Typed'
  BY <1>1, <1>4 DEF Inductive, Typed, Stages, Masters
<1>7. ListsInv'
  BY <1>1 DEF Inductive, ListsInv, Probed
<1>8. StageInv'
  BY <1>1, <1>5 DEF Inductive, StageInv
<1>9. BoundInv' /\ HandlerInv' /\ OnInv'
  BY <1>1, <1>5 DEF BoundInv, HandlerInv, OnInv
<1>10. ZeroInv'
  BY <1>1, <1>3, BoundAreHeld DEF Inductive, ZeroInv, Held
<1>11. LeakInv'
  BY <1>3, <1>4 DEF LeakInv
<1>12. FaultInv'
  BY <1>1, <1>4 DEF Inductive, FaultInv, FreedIsUnused, Faulty
<1> QED
  BY <1>4, <1>6, <1>7, <1>8, <1>9, <1>10, <1>11, <1>12 DEF Inductive

\* The core's master comes; if all devices are there it binds them.
LEMMA MasterAddKeeps ==
    ASSUME Inductive, MasterAdd, ~oops
    PROVE  Inductive'
<1>1. /\ stage = "populate" /\ available
      /\ UNCHANGED <<left, irqs, chain, handler, reply, asked, available, dev, components, rpmsg, rproc,
                     dangling, removals, gone, oops>>
  BY DEF MasterAdd
<1>2. hw \in Hw /\ ~rpmsg /\ ~handler.busy /\ master = "none" /\ ~all_bound
  BY <1>1, NoRequest DEF Inductive, Typed, StageInv
<1>3. CASE components # Devices
  <2>1. master' = "added" /\ stage' = "wait" /\ hw' = hw /\ all_bound' = all_bound /\ bind_ok' = bind_ok
    BY <1>3 DEF MasterAdd
  <2>2. Switching(hw, hw')
    BY <1>2, <2>1, SwitchNone
  <2>3. /\ hw' \in Hw /\ FlagsInv' /\ EarlyBootSyncs'
    BY <1>1, <2>2, SwitchKeeps
  <2>4. Typed'
    BY <1>1, <2>1, <2>3 DEF Inductive, Typed, Stages, Masters
  <2>5. ListsInv' /\ ZeroInv'
    BY <1>1, <2>1 DEF Inductive, ListsInv, Probed, ZeroInv
  <2>6. StageInv'
    BY <1>1, <1>2, <2>1 DEF Inductive, StageInv
  <2>7. BoundInv' /\ HandlerInv' /\ OnInv'
    BY <1>1, <1>2, <2>1 DEF BoundInv, HandlerInv, OnInv
  <2>8. LeakInv'
    BY <1>2, <2>1 DEF Inductive, LeakInv
  <2>9. FaultInv'
    BY <1>1, <2>1 DEF Inductive, FaultInv, FreedIsUnused, Faulty
  <2> QED
    BY <2>3, <2>4, <2>5, <2>6, <2>7, <2>8, <2>9 DEF Inductive
<1>4. CASE components = Devices
  <2>1. PICK outcome \in BindOutcomes(hw) :
           /\ hw' = outcome.hw /\ bind_ok' = outcome.ok /\ all_bound' = TRUE
           /\ master' = IF outcome.ok THEN "bound" ELSE "none"
           /\ stage' = IF outcome.ok THEN "wait" ELSE "depopulate"
    BY <1>4 DEF MasterAdd, core_bind
  <2>2. \A r \in Resources : Accounted(hw, r)
    BY <1>2 DEF Inductive, LeakInv
  <2>3. /\ Switching(hw, hw') /\ outcome.ok \in BOOLEAN
        /\ outcome.ok => /\ ClocksOf(Devices) \subseteq hw'.on
                         /\ \A d \in Devices \ hw.early : ReguSets[d] \subseteq hw'.on
        /\ ~outcome.ok => \A r \in Resources : Accounted(hw', r)
    BY <1>2, <2>1, <2>2, HwSound, OutcomeEffect
  <2>4. /\ hw' \in Hw /\ FlagsInv' /\ EarlyBootSyncs'
        /\ \A r \in hw'.leaked : Excused(hw', r)
        /\ hw.faults \subseteq hw'.faults
    BY <1>1, <2>3, SwitchKeeps
  <2>5. Typed'
    BY <1>1, <2>1, <2>4 DEF Inductive, Typed, Stages, Masters
  <2>6. ListsInv'
    BY <1>1 DEF Inductive, ListsInv, Probed
  <2>7. StageInv'
    BY <1>1, <1>2, <1>4, <2>1 DEF Inductive, StageInv
  <2>8. BoundInv' /\ HandlerInv'
    BY <1>1, <1>2, <2>1 DEF BoundInv, HandlerInv
  <2>9. ZeroInv'
    BY <1>1, <1>4 DEF Inductive, ListsInv, Probed, ZeroInv, Held
  <2>10. LeakInv'
    BY <2>1, <2>3, <2>4 DEF LeakInv
  <2>11. OnInv'
    BY <1>1, <2>1, <2>3 DEF OnInv, Switching
  <2>12. FaultInv'
    BY <1>1, <2>4 DEF Inductive, FaultInv, FreedIsUnused, Faulty
  <2> QED
    BY <2>4, <2>5, <2>6, <2>7, <2>8, <2>9, <2>10, <2>11, <2>12 DEF Inductive
<1> QED
  BY <1>3, <1>4

(***************************************************************************)
(* The start and the end of a preparation.                                 *)
(***************************************************************************)

\* The history starts anew, but for what has lasting effects.
LEMMA ForgetIs ==
    ASSUME NEW h \in Hw
    PROVE  LET g == Forget(h)
           IN  /\ g \in Hw
               /\ g.on = h.on /\ g.use = h.use /\ g.early = h.early /\ g.leaked = h.leaked
               /\ "unbalanced" \notin g.faults /\ "overlap" \notin g.faults
               /\ "late bind" \in h.faults => "late bind" \in g.faults
               /\ "core removal" \in h.faults => "core removal" \in g.faults
               /\ h.leaked # {} => \A r : Excused(h, r) => Excused(g, r)
<1> DEFINE keep == {"late bind", "core removal"} \cup
                     IF h.leaked = {} THEN {} ELSE {"bind", "stuck", "removal"}
           g == [on |-> h.on, use |-> h.use, early |-> h.early, leaked |-> h.leaked,
                 faults |-> h.faults \cap keep]
<1>1. Forget(h) = [h EXCEPT !.faults = h.faults \cap keep]
  BY Zenon DEF Forget
<1>2. /\ "late bind" \in keep /\ "core removal" \in keep
      /\ "unbalanced" \notin keep /\ "overlap" \notin keep
      /\ h.leaked # {} => "bind" \in keep /\ "stuck" \in keep /\ "removal" \in keep
  OBVIOUS
<1> HIDE DEF keep
<1>3. Forget(h) = g
  BY <1>1, HwParts
<1>4. g \in Hw
  BY DEF Hw
<1>5. h.leaked # {} => \A r : Excused(h, r) => Excused(g, r)
  BY <1>2 DEF Excused
<1>6. g.on = h.on /\ g.use = h.use /\ g.early = h.early /\ g.leaked = h.leaked
      /\ g.faults = h.faults \cap keep
  OBVIOUS
<1> HIDE DEF g
<1> QED
  BY <1>2, <1>3, <1>4, <1>5, <1>6

\* A resource that no device has got is off.
LEMMA AllOff ==
    ASSUME Inductive, \A d \in Devices : dev[d] \notin Held, NEW r \in Resources
    PROVE  hw.use[r] = 0 /\ r \notin hw.on
<1>1. PICK d \in Devices : r \in ClockSets[d] \/ r \in ReguSets[d]
  BY InClocks, InRegus DEF Resources
<1>2. r \in ResourcesOf({d})
  BY <1>1, InClocks, InRegus DEF ResourcesOf
<1> QED
  BY <1>2 DEF Inductive, ZeroInv

\* The lists are empty when no device has got its resources.
LEMMA ListsEmpty ==
    ASSUME Inductive, \A d \in Devices : dev[d] \notin Held
    PROVE  components = {} /\ irqs = {} /\ chain = <<>>
<1>1. components = {} /\ irqs = {}
  BY DEF Inductive, Typed, ListsInv, Probed, Held
<1>2. chain \in Seq(Devices) /\ Len(chain) \in Nat
  BY DEF Inductive, Typed
<1>3. ~(1 \in 1 .. Len(chain))
  BY <1>2 DEF Inductive, ListsInv
<1> QED
  BY <1>1, <1>2, <1>3

\* prepare starts from nothing.
LEMMA PopulateKeeps ==
    ASSUME Inductive, Populate, ~oops
    PROVE  Inductive'
<1>1. /\ stage = "off" /\ stage' = "populate" /\ all_bound' = FALSE /\ rproc # "running"
      /\ dev' = [d \in Devices |-> IF available THEN "created" ELSE "absent"]
      /\ hw' = Forget(hw)
      /\ UNCHANGED <<left, irqs, chain, handler, available, components, master, bind_ok, rpmsg, rproc,
                     dangling, removals, gone, oops>>
  BY DEF Populate
<1>2. hw \in Hw /\ ~rpmsg /\ ~handler.busy /\ master = "none"
  BY <1>1, NoRequest DEF Inductive, Typed, StageInv
<1>3. \A d \in Devices : dev[d] \notin Held
  BY <1>1 DEF Inductive, StageInv, Held
<1>4. components = {} /\ irqs = {} /\ chain = <<>>
  BY <1>3, ListsEmpty
<1>5. /\ hw' \in Hw
      /\ hw'.on = hw.on /\ hw'.use = hw.use /\ hw'.early = hw.early /\ hw'.leaked = hw.leaked
      /\ "unbalanced" \notin hw'.faults /\ "overlap" \notin hw'.faults
      /\ "late bind" \in hw.faults => "late bind" \in hw'.faults
      /\ "core removal" \in hw.faults => "core removal" \in hw'.faults
      /\ hw.leaked # {} => \A r : Excused(hw, r) => Excused(hw', r)
  BY <1>1, <1>2, ForgetIs
<1>6. \A r \in Resources : hw'.use[r] = 0 /\ r \notin hw'.on
  BY <1>3, <1>5, AllOff
<1>7. Typed'
  BY <1>1, <1>5 DEF Inductive, Typed, Stages, DevStates, Held
<1>8. ListsInv'
  BY <1>1, <1>4 DEF ListsInv
<1>9. StageInv'
  BY <1>1, <1>2 DEF Inductive, StageInv
<1>10. BoundInv' /\ HandlerInv' /\ OnInv'
  BY <1>1, <1>2 DEF BoundInv, HandlerInv, OnInv
<1>11. ZeroInv'
  <2>1. \A d \in Devices : ResourcesOf({d}) \subseteq Resources
    BY Included DEF ResourcesOf
  <2> QED
    BY <1>6, <2>1 DEF ZeroInv
<1>12. FlagsInv'
  BY <1>5, <1>6, Included DEF FlagsInv, FlagsMatchUse, Faulty, Matches
<1>13. LeakInv'
  <2>1. \A r \in Resources : Accounted(hw', r)
    BY <1>6 DEF Accounted
  <2>2. \A r \in hw'.leaked : Excused(hw', r)
    BY <1>5 DEF Inductive, LeakInv
  <2> QED
    BY <2>1, <2>2 DEF LeakInv
<1>14. EarlyBootSyncs'
  <2>1. RegusOf(hw'.early) \subseteq Resources
    BY <1>5, Included DEF Hw
  <2>2. \A r \in RegusOf(hw'.early) : ~(hw'.use[r] > 0)
    BY <1>6, <2>1
  <2>3. irqs' = {}
    BY <1>1, <1>4
  <2> QED
    BY <2>2, <2>3 DEF EarlyBootSyncs
<1>15. FaultInv'
  BY <1>1, <1>5 DEF Inductive, FaultInv, FreedIsUnused, Faulty
<1> QED
  BY <1>7, <1>8, <1>9, <1>10, <1>11, <1>12, <1>13, <1>14, <1>15 DEF Inductive

\* Every device is removed, and what it has on has leaked.
LEMMA DepopulateKeeps ==
    ASSUME Inductive, Depopulate, ~oops
    PROVE  Inductive'
<1>1. /\ stage = "depopulate" /\ stage' = "off"
      /\ \A d \in Devices : dev[d] \notin {"registered", "removing"}
      /\ dev' = [d \in Devices |-> "absent"]
      /\ components' = {} /\ chain' = <<>> /\ irqs' = {}
      /\ hw' = Put(hw, Probed)
      /\ oops' => dangling
      /\ UNCHANGED <<left, handler, reply, asked, available, master, all_bound, bind_ok, rpmsg, rproc,
                     dangling, removals, gone>>
  BY DEF Depopulate
<1>2. hw \in Hw /\ ~rpmsg /\ ~handler.busy /\ master = "none"
  BY <1>1, NoRequest DEF Inductive, Typed, StageInv
<1>3. Probed \in SUBSET Devices
  BY DEF Probed
<1>4. /\ hw' \in Hw
      /\ \A r \in Resources : r \in hw'.on <=> r \in hw.on /\ r \notin ResourcesOf(Probed)
      /\ \A r \in Resources : hw'.use[r] = IF r \in ResourcesOf(Probed) THEN 0 ELSE hw.use[r]
      /\ hw'.early = hw.early \ Probed /\ hw'.faults = hw.faults
      /\ hw'.leaked = hw.leaked \cup {r \in ResourcesOf(Probed) : hw.use[r] > 0}
  BY <1>1, <1>2, <1>3, PutIs
<1>5. \A r \in Resources : hw'.use[r] = 0 /\ r \notin hw'.on
  <2> SUFFICES ASSUME NEW r \in Resources, r \notin ResourcesOf(Probed)
               PROVE  hw.use[r] = 0 /\ r \notin hw.on
    BY <1>4
  <2>1. PICK d \in Devices : r \in ClockSets[d] \/ r \in ReguSets[d]
    BY InClocks, InRegus DEF Resources
  <2>2. r \in ResourcesOf({d}) /\ d \notin Probed
    BY <2>1, InClocks, InRegus DEF ResourcesOf
  <2>3. dev[d] \notin Held
    BY <1>1, <2>2 DEF Probed, Held
  <2> QED
    BY <2>2, <2>3 DEF Inductive, ZeroInv
<1>6. Typed'
  BY <1>1, <1>4 DEF Inductive, Typed, Stages, DevStates
<1>7. ListsInv'
  BY <1>1 DEF ListsInv
<1>8. StageInv'
  BY <1>1, <1>2 DEF Inductive, StageInv
<1>9. BoundInv' /\ HandlerInv' /\ OnInv'
  BY <1>1, <1>2 DEF BoundInv, HandlerInv, OnInv
<1>10. ZeroInv'
  <2>1. \A d \in Devices : ResourcesOf({d}) \subseteq Resources
    BY Included DEF ResourcesOf
  <2> QED
    BY <1>5, <2>1 DEF ZeroInv
<1>11. FlagsInv'
  BY <1>4, <1>5, Included DEF Inductive, FlagsInv, FlagsMatchUse, Faulty, Matches
<1>12. LeakInv'
  <2>1. \A r \in Resources : Accounted(hw', r)
    BY <1>5 DEF Accounted
  <2>2. \A r \in ResourcesOf(Probed) : hw.use[r] > 0 => Excused(hw, r)
    BY <1>2, <1>3, Included DEF Inductive, LeakInv, Accounted, ResourcesOf
  <2>3. \A r \in hw'.leaked : Excused(hw, r)
    BY <1>4, <2>2 DEF Inductive, LeakInv
  <2> QED
    BY <1>4, <2>1, <2>3 DEF LeakInv, Excused
<1>13. EarlyBootSyncs'
  <2>1. RegusOf(hw'.early) \subseteq Resources
    BY <1>4, Included DEF Hw
  <2>2. \A r \in RegusOf(hw'.early) : ~(hw'.use[r] > 0)
    BY <1>5, <2>1
  <2>3. irqs' = {}
    BY <1>1
  <2> QED
    BY <2>2, <2>3 DEF EarlyBootSyncs
<1>14. FaultInv'
  BY <1>1, <1>4 DEF Inductive, FaultInv, FreedIsUnused, Faulty
<1> QED
  BY <1>6, <1>7, <1>8, <1>9, <1>10, <1>11, <1>12, <1>13, <1>14 DEF Inductive

\* The core's driver is removed by hand.
LEMMA RemoveCoreKeeps ==
    ASSUME Inductive, RemoveCore, ~oops
    PROVE  Inductive'
<1>1. /\ gone' = TRUE /\ hw' = Fault(hw, "core removal")
      /\ stage' = IF stage = "prepared" THEN "unregister" ELSE stage
      /\ UNCHANGED <<left, irqs, chain, handler, reply, asked, available, dev, components, master, all_bound,
                     bind_ok, rpmsg, rproc, dangling>>
  BY DEF RemoveCore
<1>2. /\ hw' \in Hw
      /\ hw'.on = hw.on /\ hw'.use = hw.use /\ hw'.early = hw.early /\ hw'.leaked = hw.leaked
      /\ hw'.faults = hw.faults \cup {"core removal"}
  BY <1>1, FaultIs DEF Inductive, Typed, FaultKinds
<1>3. Typed'
  BY <1>1, <1>2 DEF Inductive, Typed, Stages
<1>4. ListsInv'
  BY <1>1 DEF Inductive, ListsInv, Probed
<1>5. StageInv'
  BY <1>1 DEF Inductive, StageInv
<1>6. BoundInv'
  BY <1>1, <1>2 DEF Inductive, BoundInv
<1>7. HandlerInv'
  BY <1>1, <1>2 DEF Inductive, HandlerInv
<1>8. ZeroInv'
  BY <1>1, <1>2 DEF Inductive, ZeroInv
<1>9. FlagsInv'
  <2>1. Flagged(hw')
    BY <1>1, HwFlagged, FaultFlagged DEF Inductive, Typed, FaultKinds
  <2>2. irqs' \cap hw'.early = {}
    BY <1>1, <1>2 DEF Inductive, EarlyBootSyncs
  <2> QED
    BY <1>1, <2>1, <2>2, FlaggedGives
<1>10. LeakInv'
  BY <1>1, <1>2 DEF Inductive, LeakInv, Accounted, Excused
<1>11. OnInv'
  BY <1>1, <1>2 DEF Inductive, OnInv
<1>12. EarlyBootSyncs'
  BY <1>1, <1>2 DEF Inductive, EarlyBootSyncs
<1>13. FaultInv'
  BY <1>1, <1>2 DEF Inductive, FaultInv, FreedIsUnused, Faulty
<1> QED
  BY <1>3, <1>4, <1>5, <1>6, <1>7, <1>8, <1>9, <1>10, <1>11, <1>12, <1>13 DEF Inductive

(***************************************************************************)
(* The steps of devices.                                                   *)
(***************************************************************************)

\* Removing an element of a sequence closes the gap.
LEMMA RemoveAtIs ==
    ASSUME NEW S, NEW s \in Seq(S), NEW i \in 1 .. Len(s)
    PROVE  LET t == RemoveAt(s, i)
           IN  /\ t \in Seq(S) /\ Len(t) = Len(s) - 1
               /\ \A j \in 1 .. Len(t) : t[j] = IF j < i THEN s[j] ELSE s[j + 1]
<1> DEFINE n == Len(s)
           a == SubSeq(s, 1, i - 1)
           b == SubSeq(s, i + 1, n)
<1>1. n \in Nat /\ i \in 1 .. n
  OBVIOUS
<1>2. a \in Seq(S) /\ Len(a) = i - 1 /\ \A j \in 1 .. i - 1 : a[j] = s[j]
  OBVIOUS
<1>3. b \in Seq(S) /\ Len(b) = n - i /\ \A j \in 1 .. n - i : b[j] = s[i + j]
  OBVIOUS
<1>4. RemoveAt(s, i) = a \o b
  BY DEF RemoveAt
<1> HIDE DEF a, b, n
<1>5. a \o b \in Seq(S) /\ Len(a \o b) = (i - 1) + (n - i)
  BY <1>1, <1>2, <1>3
<1>6. ASSUME NEW j \in 1 .. (n - 1)
      PROVE  (a \o b)[j] = IF j < i THEN s[j] ELSE s[j + 1]
  <2>1. CASE j < i
    <3>1. j \in 1 .. Len(a)
      BY <1>1, <1>2, <2>1
    <3> QED
      BY <1>2, <1>3, <2>1, <3>1
  <2>2. CASE ~(j < i)
    <3>1. j - Len(a) \in 1 .. n - i /\ i + (j - Len(a)) = j + 1
      BY <1>1, <1>2, <2>2
    <3>2. j \in (Len(a) + 1) .. (Len(a) + Len(b))
      BY <1>1, <1>2, <1>3, <2>2
    <3>3. (a \o b)[j] = b[j - Len(a)]
      BY <1>2, <1>3, <3>2
    <3> QED
      BY <1>3, <2>2, <3>1, <3>3
  <2> QED
    BY <2>1, <2>2
<1>7. Len(a \o b) = n - 1
  BY <1>1, <1>5
<1> QED
  BY <1>4, <1>5, <1>6, <1>7 DEF n

\* A device that is unlinked is on the chain no more, and the others stay.
LEMMA UnlinkIs ==
    ASSUME Inductive, NEW d \in Devices, Unlink(d)
    PROVE  /\ chain' \in Seq(Devices)
           /\ \A j \in 1 .. Len(chain') : chain'[j] # d /\ \E k \in 1 .. Len(chain) : chain'[j] = chain[k]
           /\ \A j, k \in 1 .. Len(chain') : chain'[j] = chain'[k] => j = k
<1>1. PICK i \in 1 .. Len(chain) : chain[i] = d /\ chain' = RemoveAt(chain, i)
  BY DEF Unlink
<1>2. /\ chain \in Seq(Devices) /\ Len(chain) \in Nat
      /\ \A j, k \in 1 .. Len(chain) : chain[j] = chain[k] => j = k
  BY DEF Inductive, Typed, ListsInv
<1>3. /\ chain' \in Seq(Devices) /\ Len(chain') = Len(chain) - 1
      /\ \A j \in 1 .. Len(chain') : chain'[j] = IF j < i THEN chain[j] ELSE chain[j + 1]
  BY <1>1, <1>2, RemoveAtIs
<1> DEFINE At(j) == IF j < i THEN j ELSE j + 1
<1>4. \A j \in 1 .. Len(chain') :
         At(j) \in 1 .. Len(chain) /\ At(j) # i /\ chain'[j] = chain[At(j)]
  BY <1>2, <1>3
<1>5. \A j, k \in 1 .. Len(chain') : At(j) = At(k) => j = k
  BY <1>2, <1>3
<1> HIDE DEF At
<1>6. \A j, k \in 1 .. Len(chain') : chain'[j] = chain'[k] => j = k
  BY <1>2, <1>4, <1>5
<1> QED
  BY <1>1, <1>2, <1>3, <1>4, <1>6

\* A probe that fails has got nothing.
LEMMA ProbeFailsKeeps ==
    ASSUME Inductive, NEW d \in Devices, ProbeFails(d), ~oops
    PROVE  Inductive'
<1>1. /\ dev[d] = "created" /\ dev' = [dev EXCEPT ![d] = "failed"]
      /\ UNCHANGED <<hw, left, irqs, chain, handler, reply, asked, stage, available, components, master,
                     all_bound, bind_ok, rpmsg, rproc, dangling, removals, gone, oops>>
  BY DEF ProbeFails, devVars
<1>2. dev \in [Devices -> DevStates]
  BY DEF Inductive, Typed
<1>3. \A e \in Devices : (dev'[e] \in Held <=> dev[e] \in Held) /\ (dev'[e] = "probed" <=> dev[e] = "probed")
  BY <1>1, <1>2 DEF Held
<1>4. Typed'
  BY <1>1, <1>2 DEF Inductive, Typed, DevStates
<1>5. ListsInv'
  BY <1>1, <1>3 DEF Inductive, Typed, ListsInv, Probed
<1>6. StageInv'
  BY <1>1 DEF Inductive, StageInv
<1>7. BoundInv'
  BY <1>1 DEF Inductive, BoundInv
<1>8. HandlerInv'
  BY <1>1, <1>3 DEF Inductive, HandlerInv
<1>9. ZeroInv'
  BY <1>1, <1>3 DEF Inductive, ZeroInv
<1>10. FlagsInv' /\ LeakInv' /\ OnInv' /\ EarlyBootSyncs'
  BY <1>1 DEF Inductive, FlagsInv, FlagsMatchUse, Faulty, LeakInv, OnInv, EarlyBootSyncs
<1>11. FaultInv'
  BY <1>1 DEF Inductive, FaultInv, FreedIsUnused, Faulty
<1> QED
  BY <1>4, <1>5, <1>6, <1>7, <1>8, <1>9, <1>10, <1>11 DEF Inductive

\* A device that registers starts with all of its resources off.
LEMMA RegisterKeeps ==
    ASSUME Inductive, NEW d \in Devices, Register(d), ~oops
    PROVE  Inductive'
<1>1. /\ dev[d] = "created" /\ ~handler.busy /\ dev' = [dev EXCEPT ![d] = "registered"]
      /\ chain' = Append(chain, d) /\ irqs' = irqs_get(d) /\ hw' = Attached(hw, d)
      /\ UNCHANGED <<left, handler, reply, asked, stage, available, components, master, all_bound, bind_ok,
                     rpmsg, rproc, dangling, removals, gone, oops>>
  BY DEF Register
<1>2. dev \in [Devices -> DevStates] /\ chain \in Seq(Devices) /\ hw \in Hw /\ irqs \subseteq Devices
  BY DEF Inductive, Typed
<1> DEFINE early == IF rproc = "detached" THEN hw.early \cup {d} ELSE hw.early \ {d}
<1>3. /\ hw' \in Hw /\ hw'.early = early
      /\ hw'.on = hw.on /\ hw'.use = hw.use /\ hw'.leaked = hw.leaked /\ hw'.faults = hw.faults
  <2>1. hw' = [hw EXCEPT !.early = early]
    BY <1>1, Zenon DEF Attached
  <2>2. early \in SUBSET Devices
    BY <1>2 DEF Hw
  <2> HIDE DEF early
  <2>3. hw' = [on |-> hw.on, use |-> hw.use, early |-> early, leaked |-> hw.leaked, faults |-> hw.faults]
    BY <1>2, <2>1, HwParts
  <2> QED
    BY <1>2, <2>2, <2>3 DEF Hw
<1>4. /\ \A e \in Devices : dev[e] \in Held => dev'[e] \in Held
      /\ \A e \in Devices : dev[e] = "probed" => dev'[e] = "probed"
      /\ dev'[d] \in Held
  BY <1>1, <1>2 DEF Held
<1>5. d \notin irqs /\ \A i \in 1 .. Len(chain) : chain[i] # d
  BY <1>1 DEF Inductive, ListsInv, Held
<1>6. Typed'
  <2>1. irqs' \subseteq Devices
    BY <1>1, <1>2 DEF irqs_get
  <2>2. chain' \in Seq(Devices)
    BY <1>1, <1>2
  <2>3. dev' \in [Devices -> DevStates]
    BY <1>1, <1>2 DEF DevStates, Held
  <2> QED
    BY <1>1, <1>3, <2>1, <2>2, <2>3 DEF Inductive, Typed
<1>7. ListsInv'
  <2>1. (components \subseteq Probed)'
    BY <1>1, <1>4 DEF Inductive, ListsInv, Probed
  <2>2. \A e \in irqs' : dev'[e] \in Held
    BY <1>1, <1>2, <1>4 DEF Inductive, ListsInv, irqs_get
  <2>3. /\ Len(chain') = Len(chain) + 1 /\ Len(chain) \in Nat
        /\ \A i \in 1 .. Len(chain) : chain'[i] = chain[i] /\ chain[i] \in Devices
        /\ chain'[Len(chain) + 1] = d
    BY <1>1, <1>2
  <2>4. \A i \in 1 .. Len(chain') : i \in 1 .. Len(chain) \/ i = Len(chain) + 1
    BY <2>3
  <2>5. \A i \in 1 .. Len(chain') : dev'[chain'[i]] \in Held
    BY <1>4, <2>3, <2>4 DEF Inductive, ListsInv
  <2>6. \A i, j \in 1 .. Len(chain') : chain'[i] = chain'[j] => i = j
    BY <1>5, <2>3, <2>4 DEF Inductive, ListsInv
  <2> QED
    BY <2>1, <2>2, <2>5, <2>6 DEF ListsInv
<1>8. StageInv'
  BY <1>1 DEF Inductive, StageInv
<1>9. BoundInv' /\ HandlerInv'
  BY <1>1, <1>3 DEF Inductive, BoundInv, HandlerInv
<1>10. ZeroInv'
  BY <1>3, <1>4 DEF Inductive, ZeroInv
<1>11. FlagsInv' /\ LeakInv'
  BY <1>1, <1>3 DEF Inductive, FlagsInv, FlagsMatchUse, Faulty, Matches, LeakInv, Accounted, Excused
<1>12. OnInv'
  BY <1>1, BoundAreHeld DEF OnInv
<1>13. EarlyBootSyncs'
  <2>1. ASSUME NEW r \in RegusOf(early), r \notin left, hw.use[r] > 0
        PROVE  <<r, TRUE>> \in asked \/ r \in hw.leaked
    <3>1. PICK e \in early : r \in ReguSets[e]
      BY InRegus
    <3>2. CASE e = d
      <4>1. r \in ResourcesOf({d})
        BY <3>1, <3>2, InRegus DEF ResourcesOf
      <4>2. hw.use[r] = 0
        BY <1>1, <4>1 DEF Inductive, ZeroInv, Held
      <4> QED
        BY <2>1, <4>2
    <3>3. CASE e # d
      <4>1. r \in RegusOf(hw.early)
        BY <3>1, <3>3, InRegus
      <4> QED
        BY <2>1, <4>1 DEF Inductive, EarlyBootSyncs
    <3> QED
      BY <3>2, <3>3
  <2>2. irqs' \cap early = {}
    BY <1>1, <1>5 DEF Inductive, EarlyBootSyncs, irqs_get
  <2> HIDE DEF early
  <2> QED
    BY <1>1, <1>3, <2>1, <2>2 DEF EarlyBootSyncs
<1>14. FaultInv'
  BY <1>1, <1>3 DEF Inductive, FaultInv, FreedIsUnused, Faulty
<1> QED
  BY <1>6, <1>7, <1>8, <1>9, <1>10, <1>11, <1>12, <1>13, <1>14 DEF Inductive

\* A device is removed by hand: whatever was bound is unbound.
LEMMA RemoveBeginKeeps ==
    ASSUME Inductive, NEW d \in Devices, RemoveBegin(d), ~oops
    PROVE  Inductive'
<1>1. /\ dev[d] = "probed" /\ dev' = [dev EXCEPT ![d] = "removing"]
      /\ components' = components \ {d}
      /\ master' = IF master = "bound" THEN "added" ELSE master
      /\ UNCHANGED <<left, irqs, chain, handler, reply, asked, stage, available, all_bound, bind_ok, rpmsg,
                     rproc, dangling, gone, oops>>
  BY DEF RemoveBegin
<1>2. hw \in Hw /\ dev \in [Devices -> DevStates] /\ Flagged(hw)
  BY HwFlagged DEF Inductive, Typed
<1> DEFINE h == Fault(hw, "removal")
           k == Overlapping(h)
<1>3. PICK stuck \in SUBSET RegusOf(Devices) :
         hw' = IF master = "bound" THEN Unbound(k, Devices, stuck) ELSE h
  BY DEF RemoveBegin
<1>4. /\ h \in Hw /\ Flagged(h) /\ "removal" \in h.faults
      /\ h.on = hw.on /\ h.use = hw.use /\ h.early = hw.early
      /\ h.faults = hw.faults \cup {"removal"}
      /\ master # "bound" => \A r \in Resources : Accounted(h, r)
  <2>1. "removal" \in FaultKinds \ {"unbalanced", "overlap"}
    BY DEF FaultKinds
  <2> QED
    BY <1>2, <2>1, FaultIs, FaultFlagged DEF Inductive, LeakInv
<1> HIDE DEF h
<1>5. /\ k \in Hw /\ Flagged(k) /\ Sound(k) /\ k.early = h.early /\ h.faults \subseteq k.faults
      /\ handler.busy => "overlap" \in k.faults
  BY <1>4, OverlapFlagged
<1> HIDE DEF k
<1> DEFINE Removed ==
              /\ hw' \in Hw /\ Flagged(hw') /\ \A r \in Resources : Accounted(hw', r)
              /\ hw'.early = hw.early /\ hw.faults \subseteq hw'.faults /\ "removal" \in hw'.faults
              /\ handler.busy => "overlap" \in hw'.faults \/ hw'.on = hw.on
              /\ master # "bound" => hw'.on = hw.on /\ hw'.use = hw.use
<1>6. ASSUME master = "bound" PROVE Removed
  <2>1. Switching(k, hw') /\ \A r \in Resources : Accounted(hw', r)
    BY <1>3, <1>5, <1>6, UnboundIs, UnboundAccounted
  <2>2. Flagged(hw')
    BY <1>5, <2>1, SwitchFlagged
  <2>3. hw' \in Hw /\ hw'.early = k.early /\ k.faults \subseteq hw'.faults
    BY <2>1 DEF Switching
  <2> QED
    BY <1>4, <1>5, <1>6, <2>1, <2>2, <2>3
<1>7. ASSUME master # "bound" PROVE Removed
  <2>1. hw' = h
    BY <1>3, <1>7
  <2> QED
    BY <1>4, <1>7, <2>1
<1>8. Removed
  BY <1>6, <1>7
<1>11. /\ \A e \in Devices : dev'[e] \in Held <=> dev[e] \in Held
       /\ \A e \in Devices : e # d /\ dev[e] = "probed" => dev'[e] = "probed"
  BY <1>1, <1>2 DEF Held
<1>12. irqs' \cap hw'.early = {}
  BY <1>1, <1>8 DEF Inductive, EarlyBootSyncs
<1>13. FlagsInv' /\ EarlyBootSyncs' /\ \A r \in hw'.leaked : Excused(hw', r)
  BY <1>1, <1>8, <1>12, FlaggedGives
<1>14. Typed'
  BY <1>1, <1>2, <1>8 DEF Inductive, Typed, DevStates, Held, Masters
<1>15. ListsInv'
  BY <1>1, <1>11 DEF Inductive, Typed, ListsInv, Probed
<1>16. StageInv'
  BY <1>1 DEF Inductive, StageInv
<1>17. BoundInv' /\ OnInv'
  BY <1>8 DEF BoundInv, OnInv
<1>18. HandlerInv'
  BY <1>1, <1>8, <1>11 DEF Inductive, HandlerInv
<1>19. ZeroInv'
  BY <1>8, <1>11, BoundAreHeld DEF Inductive, ZeroInv, Held
<1>20. LeakInv'
  BY <1>8, <1>13 DEF LeakInv
<1>21. FaultInv'
  BY <1>1, <1>8 DEF Inductive, FaultInv, FreedIsUnused, Faulty
<1> QED
  BY <1>13, <1>14, <1>15, <1>16, <1>17, <1>18, <1>19, <1>20, <1>21 DEF Inductive

\* Its notifier is unregistered and its resources are put.
LEMMA RemoveEndKeeps ==
    ASSUME Inductive, NEW d \in Devices, RemoveEnd(d), ~oops
    PROVE  Inductive'
<1>1. /\ dev[d] = "removing" /\ ~handler.busy /\ dev' = [dev EXCEPT ![d] = "created"]
      /\ Unlink(d) /\ hw' = Put(hw, {d}) /\ irqs' = irqs \ {d}
      /\ UNCHANGED <<left, handler, reply, asked, stage, available, components, master, all_bound, bind_ok,
                     rpmsg, rproc, dangling, removals, gone>>
  BY DEF RemoveEnd
<1>0. oops' => dangling
  BY DEF RemoveEnd
<1>2. hw \in Hw /\ dev \in [Devices -> DevStates] /\ Flagged(hw) /\ irqs \subseteq Devices
  BY HwFlagged DEF Inductive, Typed
<1>3. master # "bound"
  BY <1>1, BoundAreHeld
<1>4. \A r \in Resources : Accounted(hw, r)
  BY <1>3 DEF Inductive, LeakInv
<1>5. /\ hw' \in Hw /\ Flagged(hw') /\ \A r \in Resources : Accounted(hw', r)
      /\ hw'.early = hw.early \ {d} /\ hw'.faults = hw.faults
      /\ \A r \in ResourcesOf({d}) : hw'.use[r] = 0 /\ r \notin hw'.on
      /\ \A r \in Resources \ ResourcesOf({d}) :
            hw'.use[r] = hw.use[r] /\ (r \in hw'.on <=> r \in hw.on)
  BY <1>1, <1>2, <1>4, PutFlagged
<1>6. irqs' \cap hw'.early = {}
  BY <1>1, <1>5 DEF Inductive, EarlyBootSyncs
<1>7. FlagsInv' /\ EarlyBootSyncs' /\ \A r \in hw'.leaked : Excused(hw', r)
  BY <1>1, <1>5, <1>6, FlaggedGives
<1>8. /\ \A e \in Devices : e # d => dev'[e] = dev[e]
      /\ dev'[d] = "created"
  BY <1>1, <1>2
<1>9. /\ chain' \in Seq(Devices)
      /\ \A j \in 1 .. Len(chain') : chain'[j] # d /\ \E k \in 1 .. Len(chain) : chain'[j] = chain[k]
      /\ \A j, k \in 1 .. Len(chain') : chain'[j] = chain'[k] => j = k
  BY <1>1, UnlinkIs
<1>10. Typed'
  BY <1>1, <1>2, <1>5, <1>9 DEF Inductive, Typed, DevStates
<1>11. ListsInv'
  <2>1. (components \subseteq Probed)'
    BY <1>1, <1>8 DEF Inductive, ListsInv, Probed
  <2>2. \A e \in irqs' : dev'[e] \in Held
    BY <1>1, <1>2, <1>8 DEF Inductive, ListsInv
  <2>3. \A i \in 1 .. Len(chain') : dev'[chain'[i]] \in Held
    <3>1. \A j \in 1 .. Len(chain) : chain[j] \in Devices
      BY DEF Inductive, Typed
    <3> QED
      BY <1>8, <1>9, <3>1 DEF Inductive, ListsInv
  <2> QED
    BY <1>9, <2>1, <2>2, <2>3 DEF ListsInv
<1>12. StageInv'
  BY <1>1 DEF Inductive, StageInv
<1>13. BoundInv' /\ HandlerInv' /\ OnInv'
  BY <1>1, <1>3, <1>5 DEF Inductive, BoundInv, HandlerInv, OnInv
<1>14. ZeroInv'
  <2> SUFFICES ASSUME NEW e \in Devices, dev'[e] \notin Held, NEW r \in ResourcesOf({e})
               PROVE  hw'.use[r] = 0 /\ r \notin hw'.on
    BY DEF ZeroInv
  <2>1. CASE r \in ResourcesOf({d})
    BY <1>5, <2>1
  <2>2. CASE r \notin ResourcesOf({d})
    <3>1. e # d /\ r \in Resources
      BY <2>2, Included DEF ResourcesOf
    <3>2. hw.use[r] = 0 /\ r \notin hw.on
      BY <1>8, <3>1 DEF Inductive, ZeroInv
    <3> QED
      BY <1>5, <2>2, <3>1, <3>2
  <2> QED
    BY <2>1, <2>2
<1>15. LeakInv'
  BY <1>5, <1>7 DEF LeakInv
<1>16. FaultInv'
  BY <1>0, <1>1, <1>5 DEF Inductive, FaultInv, FreedIsUnused, Faulty
<1> QED
  BY <1>7, <1>10, <1>11, <1>12, <1>13, <1>14, <1>15, <1>16 DEF Inductive

\* A device whose components all are there by now while a request is in hand: a
\* device was removed before.
LEMMA LateNeedsRemoval ==
    ASSUME Inductive, NEW d \in Devices, dev[d] # "absent", master # "bound",
           stage \in {"prepared", "unregister"}
    PROVE  "removal" \in hw.faults
BY DEF Inductive, StageInv, BoundInv

\* And so it was when a request is in hand while something is unbound.
LEMMA BusyNeedsRemoval ==
    ASSUME Inductive, NEW d \in Devices, dev[d] = "registered"
    PROVE  handler.busy => "removal" \in hw.faults
<1>1. master # "bound"
  BY BoundAreHeld
<1>2. handler.busy => stage \in {"prepared", "unregister"}
  BY DEF Inductive, StageInv
<1> QED
  BY <1>1, <1>2, LateNeedsRemoval

\* A device becomes known to the component framework, and nothing is bound yet.
LEMMA ComponentKeeps ==
    ASSUME Inductive, NEW d \in Devices, dev[d] = "registered", ~oops,
           dev' = [dev EXCEPT ![d] = "probed"], components' = components \cup {d},
           UNCHANGED <<devVars, stage, available, master, all_bound, bind_ok, rpmsg, rproc, dangling,
                       removals, gone, oops>>
    PROVE  Inductive'
<1> USE DEF devVars
<1>1. dev \in [Devices -> DevStates]
  BY DEF Inductive, Typed
<1>2. \A e \in Devices : (dev'[e] \in Held <=> dev[e] \in Held) /\ (dev[e] = "probed" \/ e = d => dev'[e] = "probed")
  BY <1>1 DEF Held
<1>3. master # "bound"
  BY BoundAreHeld
<1>4. Typed'
  BY <1>1 DEF Inductive, Typed, DevStates, Held
<1>5. ListsInv'
  BY <1>2 DEF Inductive, Typed, ListsInv, Probed
<1>6. StageInv'
  BY <1>3 DEF Inductive, StageInv
<1>7. BoundInv'
  BY DEF Inductive, BoundInv
<1>8. HandlerInv'
  BY <1>2 DEF Inductive, HandlerInv
<1>9. ZeroInv'
  BY <1>2 DEF Inductive, ZeroInv
<1>10. FlagsInv' /\ LeakInv' /\ OnInv' /\ EarlyBootSyncs'
  BY DEF Inductive, FlagsInv, FlagsMatchUse, Faulty, LeakInv, OnInv, EarlyBootSyncs
<1>11. FaultInv'
  BY DEF Inductive, FaultInv, FreedIsUnused, Faulty
<1> QED
  BY <1>4, <1>5, <1>6, <1>7, <1>8, <1>9, <1>10, <1>11 DEF Inductive

\* The last device has come, and all are bound.
LEMMA LastBindKeeps ==
    ASSUME Inductive, NEW d \in Devices, dev[d] = "registered", ~oops,
           master = "added", components \cup {d} = Devices,
           NEW outcome \in BindOutcomes(Overlapping(hw)), outcome.ok, hw' = outcome.hw,
           bind_ok' = outcome.ok, all_bound' = TRUE, master' = "bound",
           dev' = [dev EXCEPT ![d] = "probed"], components' = components \cup {d},
           UNCHANGED <<left, irqs, chain, handler, reply, asked, stage, available, rpmsg, rproc, dangling,
                       removals, gone, oops>>
    PROVE  Inductive'
<1> DEFINE h == Overlapping(hw)
<1>1. dev \in [Devices -> DevStates] /\ hw \in Hw /\ Flagged(hw)
  BY HwFlagged DEF Inductive, Typed
<1>2. \A e \in Devices : dev'[e] = "probed"
  BY <1>1 DEF Inductive, ListsInv, Probed
<1>3. /\ h \in Hw /\ Flagged(h) /\ h.early = hw.early /\ hw.faults \subseteq h.faults
      /\ handler.busy => "overlap" \in h.faults
  BY <1>1, BusyNeedsRemoval, OverlapFlagged
<1>3a. outcome \in BindOutcomes(h)
  OBVIOUS
<1> HIDE DEF h
<1>3b. /\ Switching(h, hw') /\ ClocksOf(Devices) \subseteq hw'.on
       /\ \A e \in Devices \ hw.early : ReguSets[e] \subseteq hw'.on
  BY <1>3, <1>3a, OutcomeEffect
<1>3c. /\ hw' \in Hw /\ Flagged(hw') /\ hw'.early = hw.early
       /\ hw.faults \subseteq hw'.faults /\ (handler.busy => "overlap" \in hw'.faults)
  BY <1>3, <1>3b, SwitchFlagged DEF Switching
<1>4. /\ hw' \in Hw /\ FlagsInv' /\ EarlyBootSyncs'
      /\ \A r \in hw'.leaked : Excused(hw', r)
      /\ hw.faults \subseteq hw'.faults
  <2>1. irqs' \cap hw'.early = {}
    BY <1>3c DEF Inductive, EarlyBootSyncs
  <2> QED
    BY <1>3c, <2>1, FlaggedGives
<1>5. stage \in {"prepared", "unregister"} => "removal" \in hw'.faults
  BY <1>4, LateNeedsRemoval
<1>6. Typed'
  BY <1>1, <1>4 DEF Inductive, Typed, DevStates, Held, Masters
<1>7. ListsInv'
  <2>1. \A i \in 1 .. Len(chain) : chain[i] \in Devices
    BY DEF Inductive, Typed
  <2> QED
    BY <1>2, <2>1 DEF Inductive, Typed, ListsInv, Probed, Held
<1>8. StageInv'
  BY DEF Inductive, StageInv
<1>9. BoundInv'
  BY <1>5 DEF BoundInv
<1>10. HandlerInv'
  BY <1>2, <1>3c DEF Inductive, HandlerInv, Held
<1>11. ZeroInv'
  BY <1>2 DEF ZeroInv, Held
<1>12. LeakInv'
  BY <1>4 DEF LeakInv
<1>13. OnInv'
  BY <1>3b, <1>3c DEF OnInv
<1>14. FaultInv'
  BY <1>4 DEF Inductive, FaultInv, FreedIsUnused, Faulty
<1> QED
  BY <1>4, <1>6, <1>7, <1>8, <1>9, <1>10, <1>11, <1>12, <1>13, <1>14 DEF Inductive

\* The last device has come, binding fails, and so does its probe.
LEMMA LateBindKeeps ==
    ASSUME Inductive, NEW d \in Devices, dev[d] = "registered", ~oops,
           master = "added", components \cup {d} = Devices,
           NEW outcome \in BindOutcomes(Overlapping(hw)), ~outcome.ok,
           hw' = Fault(Put(outcome.hw, {d}), "late bind"),
           bind_ok' = outcome.ok, all_bound' = TRUE,
           dev' = [dev EXCEPT ![d] = "failed"], irqs' = irqs \ {d}, Unlink(d), dangling' = TRUE,
           oops' = (handler.busy /\ handler.regu \in RegusOf({d})),
           UNCHANGED <<left, handler, reply, asked, stage, available, components, master, rpmsg, rproc,
                       removals, gone>>
    PROVE  Inductive'
<1>1. dev \in [Devices -> DevStates] /\ hw \in Hw /\ Flagged(hw) /\ irqs \subseteq Devices
  BY HwFlagged DEF Inductive, Typed
<1>2. /\ \A e \in Devices : e # d => dev'[e] = "probed"
      /\ dev'[d] = "failed"
  BY <1>1 DEF Inductive, ListsInv, Probed
<1> DEFINE h == Overlapping(hw)
           k == outcome.hw
           g == Put(k, {d})
<1>2a. /\ h \in Hw /\ Flagged(h) /\ Sound(h) /\ h.early = hw.early /\ hw.faults \subseteq h.faults
       /\ handler.busy => "overlap" \in h.faults
       /\ \A r \in Resources : Accounted(h, r)
  <2>1. \A r \in Resources : Accounted(hw, r)
    BY DEF Inductive, LeakInv
  <2> QED
    BY <1>1, <2>1, BusyNeedsRemoval, OverlapFlagged
<1>2b. outcome \in BindOutcomes(h)
  OBVIOUS
<1> HIDE DEF h
<1>3. Switching(h, k) /\ \A r \in Resources : Accounted(k, r)
  BY <1>2a, <1>2b, OutcomeEffect
<1> HIDE DEF k
<1>4. /\ k \in Hw /\ Flagged(k) /\ k.early = hw.early /\ hw.faults \subseteq k.faults
      /\ handler.busy => "overlap" \in k.faults
  BY <1>2a, <1>3, SwitchFlagged DEF Switching
<1>5. /\ g \in Hw /\ Flagged(g) /\ \A r \in Resources : Accounted(g, r)
      /\ g.early = k.early \ {d} /\ g.faults = k.faults
      /\ \A r \in ResourcesOf({d}) : g.use[r] = 0 /\ r \notin g.on
  BY <1>3, <1>4, PutFlagged
<1>6. hw' = Fault(g, "late bind")
  BY DEF k
<1> HIDE DEF g
<1>7. /\ hw' \in Hw /\ hw'.on = g.on /\ hw'.use = g.use /\ hw'.early = g.early
      /\ hw'.faults = g.faults \cup {"late bind"}
  BY <1>5, <1>6, FaultIs, ZenonT(60) DEF FaultKinds
<1>8. Flagged(hw') /\ \A r \in Resources : Accounted(hw', r)
  BY <1>5, <1>6, FaultFlagged DEF FaultKinds
<1>9. irqs' \cap hw'.early = {}
  BY <1>4, <1>5, <1>7 DEF Inductive, EarlyBootSyncs
<1>10. FlagsInv' /\ EarlyBootSyncs' /\ \A r \in hw'.leaked : Excused(hw', r)
  BY <1>8, <1>9, FlaggedGives
<1>11. stage \in {"prepared", "unregister"} => "removal" \in hw'.faults
  BY <1>4, <1>5, <1>7, LateNeedsRemoval
<1>12. /\ chain' \in Seq(Devices)
       /\ \A j \in 1 .. Len(chain') : chain'[j] # d
       /\ \A i, j \in 1 .. Len(chain') : chain'[i] = chain'[j] => i = j
  BY UnlinkIs
<1>13. Typed'
  BY <1>1, <1>7, <1>12 DEF Inductive, Typed, DevStates
<1>14. ListsInv'
  <2>1. (components \subseteq Probed)'
    BY <1>2 DEF Inductive, ListsInv, Probed
  <2>2. \A e \in irqs' : dev'[e] \in Held
    BY <1>1, <1>2 DEF Held
  <2>3. \A i \in 1 .. Len(chain') : chain'[i] \in Devices
    BY <1>12, ElementOfSeq
  <2>4. \A i \in 1 .. Len(chain') : dev'[chain'[i]] \in Held
    BY <1>2, <1>12, <2>3 DEF Held
  <2> QED
    BY <1>12, <2>1, <2>2, <2>4 DEF ListsInv
<1>15. StageInv'
  BY DEF Inductive, StageInv
<1>16. BoundInv'
  BY <1>11 DEF BoundInv
<1>17. HandlerInv'
  <2>1. handler.busy => "overlap" \in hw'.faults
    BY <1>4, <1>5, <1>7
  <2>2. ASSUME handler.busy, ~oops'
        PROVE  \E e \in Devices : dev'[e] \in Held /\ handler.regu \in ReguSets[e]
    <3>1. PICK e \in Devices : handler.regu \in ReguSets[e]
      BY <2>2 DEF Inductive, HandlerInv
    <3>2. e # d
      BY <2>2, <3>1, InRegus
    <3> QED
      BY <1>2, <3>1, <3>2 DEF Held
  <2> QED
    BY <2>1, <2>2 DEF Inductive, HandlerInv
<1>18. ZeroInv'
  BY <1>2, <1>5, <1>7 DEF ZeroInv, Held
<1>19. LeakInv' /\ OnInv'
  BY <1>8, <1>10 DEF LeakInv, OnInv
<1>20. FaultInv'
  BY <1>4, <1>5, <1>7 DEF Inductive, FaultInv, FreedIsUnused, Faulty
<1> QED
  BY <1>10, <1>13, <1>14, <1>15, <1>16, <1>17, <1>18, <1>19, <1>20 DEF Inductive

\* component_add, in each of its ways.
LEMMA ComponentAddKeeps ==
    ASSUME Inductive, NEW d \in Devices, ComponentAdd(d), ~oops
    PROVE  Inductive'
<1>1. CASE /\ dev' = [dev EXCEPT ![d] = "probed"] /\ components' = components \cup {d}
           /\ UNCHANGED <<hw, irqs, chain, master, all_bound, bind_ok, dangling, oops>>
  BY <1>1, ComponentKeeps DEF ComponentAdd, devVars
<1>2. ASSUME master = "added", components \cup {d} = Devices,
             NEW outcome \in BindOutcomes(Overlapping(hw)), core_bind(outcome), outcome.ok,
             dev' = [dev EXCEPT ![d] = "probed"], components' = components \cup {d},
             hw' = outcome.hw, master' = "bound", UNCHANGED <<irqs, chain, dangling, oops>>
      PROVE  Inductive'
  BY <1>2, LastBindKeeps DEF ComponentAdd, core_bind
<1>3. ASSUME master = "added", components \cup {d} = Devices,
             NEW outcome \in BindOutcomes(Overlapping(hw)), core_bind(outcome), ~outcome.ok,
             dev' = [dev EXCEPT ![d] = "failed"], hw' = Fault(Put(outcome.hw, {d}), "late bind"),
             irqs' = irqs \ {d}, Unlink(d), dangling' = TRUE,
             oops' = (handler.busy /\ handler.regu \in RegusOf({d})), UNCHANGED <<components, master>>
      PROVE  Inductive'
  BY <1>3, LateBindKeeps DEF ComponentAdd, core_bind
<1> QED
  BY <1>1, <1>2, <1>3 DEF ComponentAdd

(***************************************************************************)
(* The steps of requests.                                                  *)
(***************************************************************************)

\* An answer that changes nothing else.
LEMMA AnswerKeeps ==
    ASSUME Inductive, ~oops, ~handler'.busy, UNCHANGED <<hw, left, irqs, chain, asked, coreVars>>
    PROVE  Inductive'
<1> USE DEF Inductive, coreVars
<1>1. Typed' /\ ListsInv' /\ StageInv' /\ BoundInv'
  BY DEF Typed, ListsInv, Probed, StageInv, BoundInv
<1>2. HandlerInv'
  BY DEF HandlerInv
<1>3. ZeroInv' /\ FlagsInv' /\ LeakInv' /\ OnInv' /\ EarlyBootSyncs'
  BY DEF ZeroInv, FlagsInv, FlagsMatchUse, Faulty, LeakInv, OnInv, EarlyBootSyncs
<1>4. FaultInv'
  BY DEF FaultInv, FreedIsUnused, Faulty
<1> QED
  BY <1>1, <1>2, <1>3, <1>4

\* A regulator of the list of d is one of d's.
LEMMA ReguFound ==
    ASSUME NEW d \in Devices, NEW i \in 1 .. Len(Regus[d])
    PROVE  Regus[d][i] \in ReguSets[d]
<1>1. Regus[d] \in Seq(RegusOf({d}))
  BY ListsAssumption
<1>2. Regus[d][i] \in RegusOf({d})
  BY <1>1, ElementOfSeq
<1> QED
  BY <1>2, InRegus

\* The test of r->enabled: the device that answers is there.
LEMMA TestRegulatorKeeps ==
    ASSUME Inductive, ~oops, NEW q \in Requests, TestRegulator(q), rpmsg, UNCHANGED coreVars
    PROVE  Inductive'
<1>1. PICK d \in Devices :
         /\ Answers(d, q) /\ Found(d, q)
         /\ handler' = [busy |-> TRUE, regu |-> Regus[d][q.index], enable |-> q.enable,
                        volts |-> q.volts, enabled |-> Regus[d][q.index] \in hw.on]
         /\ asked' = asked \cup {<<Regus[d][q.index], q.enable>>}
  BY DEF TestRegulator
<1>2. UNCHANGED <<hw, left, irqs, chain>> /\ q.rsc = "regu" /\ q.enable \in BOOLEAN
  BY RequestsAssumption DEF TestRegulator, IsRequest
<1> DEFINE r == Regus[d][q.index]
<1>3. r \in ReguSets[d]
  BY <1>1, <1>2, ReguFound DEF Found
<1>4. dev[d] \in Held
  BY <1>1 DEF Answers, Inductive, ListsInv
<1>5. /\ handler'.regu = r /\ handler'.enable = q.enable /\ handler'.enabled = (r \in hw.on)
      /\ asked' = asked \cup {<<r, q.enable>>}
  BY <1>1
<1> HIDE DEF r
<1>6. HandlerInv'
  <2>1. r \in RegusOf(Devices)
    BY <1>3, InRegus
  <2>2. handler'.enable \in BOOLEAN /\ handler'.enabled \in BOOLEAN
    BY <1>2, <1>5
  <2>3. <<handler'.regu, handler'.enable>> \in asked'
    BY <1>5
  <2>4. \E e \in Devices : dev'[e] \in Held /\ handler'.regu \in ReguSets[e]
    BY <1>3, <1>4, <1>5 DEF coreVars
  <2> QED
    BY <1>2, <1>5, <2>1, <2>2, <2>3, <2>4 DEF HandlerInv
<1> USE DEF coreVars
<1>7. Typed' /\ ListsInv' /\ StageInv' /\ BoundInv'
  BY <1>2 DEF Inductive, Typed, ListsInv, Probed, StageInv, BoundInv
<1>8. ZeroInv' /\ FlagsInv' /\ LeakInv'
  BY <1>2 DEF Inductive, ZeroInv, FlagsInv, FlagsMatchUse, Faulty, LeakInv
<1>9. OnInv'
  BY <1>2, <1>5 DEF Inductive, OnInv
<1>10. EarlyBootSyncs'
  BY <1>2, <1>5 DEF Inductive, EarlyBootSyncs
<1>11. FaultInv'
  BY <1>2 DEF Inductive, FaultInv, FreedIsUnused, Faulty
<1> QED
  BY <1>6, <1>7, <1>8, <1>9, <1>10, <1>11 DEF Inductive

\* The ways in which a request may leave the regulator it is about.
LEMMA SetRegulatorIs ==
    ASSUME Inductive, SetRegulator
    PROVE  LET r == handler.regu
           IN  \/ hw' = hw
               \/ handler.enable /\ ~handler.enabled /\ hw' = Enabled(hw, {r})
               \/ ~handler.enable /\ handler.enabled /\ hw' = Disabled(hw, {r})
<1> DEFINE r == handler.regu
           switched == Switched(hw, r, handler.enabled, handler.enable)
<1>1. hw' = switched \/ hw' = hw
  BY DEF SetRegulator
<1>2. handler.busy /\ handler.enable \in BOOLEAN /\ handler.enabled \in BOOLEAN
  BY DEF SetRegulator, Inductive, HandlerInv
<1>3. CASE handler.enable /\ ~handler.enabled
  <2>1. switched = Enabled(hw, {r})
    BY <1>2, <1>3 DEF Switched
  <2> HIDE DEF switched
  <2> QED
    BY <1>1, <1>3, <2>1
<1>4. CASE ~handler.enable /\ handler.enabled
  <2>1. switched = Disabled(hw, {r})
    BY <1>2, <1>4 DEF Switched
  <2> HIDE DEF switched
  <2> QED
    BY <1>1, <1>4, <2>1
<1>5. CASE handler.enable = handler.enabled
  <2>1. switched = hw
    BY <1>2, <1>5 DEF Switched
  <2> HIDE DEF switched
  <2> QED
    BY <1>1, <2>1
<1> QED
  BY <1>2, <1>3, <1>4, <1>5

\* What a request does to the hardware: it touches its regulator only, and the
\* flag it has read still holds unless it was overtaken.
LEMMA SetRegulatorEffect ==
    ASSUME Inductive, SetRegulator
    PROVE  LET r == handler.regu
           IN  /\ hw' \in Hw /\ hw'.early = hw.early /\ hw'.leaked = hw.leaked
               /\ hw.faults \subseteq hw'.faults /\ hw'.faults \subseteq hw.faults \cup {"unbalanced"}
               /\ \A s \in Resources \ {r} :
                     hw'.use[s] = hw.use[s] /\ (s \in hw'.on <=> s \in hw.on)
               /\ "overlap" \notin hw.faults => Matches(hw', r) /\ hw'.faults = hw.faults
               /\ r \in hw.on => r \in hw'.on \/ ~handler.enable
               /\ hw'.use[r] > 0 => hw.use[r] > 0 \/ handler.enable
<1> DEFINE r == handler.regu
<1>1. hw \in Hw /\ r \in Resources
  BY Included DEF Inductive, Typed, SetRegulator, HandlerInv
<1>2. {r} \in SUBSET Resources /\ hw.use[r] \in Nat
  BY <1>1 DEF Hw
<1>3. "overlap" \notin hw.faults => (handler.enabled <=> r \in hw.on) /\ Matches(hw, r)
  BY <1>1 DEF Inductive, SetRegulator, HandlerInv, FlagsInv, FlagsMatchUse, Faulty, Matches
<1> HIDE DEF r
<1>4. CASE hw' = hw
  BY <1>1, <1>3, <1>4 DEF r
<1>5. CASE handler.enable /\ ~handler.enabled /\ hw' = Enabled(hw, {r})
  <2>1. /\ hw' \in Hw /\ hw'.on = hw.on \cup {r}
        /\ \A s \in Resources : hw'.use[s] = IF s \in {r} THEN hw.use[s] + 1 ELSE hw.use[s]
        /\ hw'.early = hw.early /\ hw'.leaked = hw.leaked /\ hw'.faults = hw.faults
    BY <1>1, <1>2, <1>5, EnabledIs
  <2>2. "overlap" \notin hw.faults => Matches(hw', r)
    <3> SUFFICES ASSUME "overlap" \notin hw.faults
                 PROVE  Matches(hw', r)
      OBVIOUS
    <3>1. r \notin hw.on
      BY <1>3, <1>5
    <3>2. hw.use[r] = 0
      BY <1>3, <3>1 DEF Matches
    <3> QED
      BY <1>1, <2>1, <3>2 DEF Matches
  <2> QED
    BY <1>5, <2>1, <2>2 DEF r
<1>6. CASE ~handler.enable /\ handler.enabled /\ hw' = Disabled(hw, {r})
  <2>1. /\ hw' \in Hw
        /\ \A s \in Resources : s \in hw'.on <=> s \in hw.on /\ ~(s \in {r} /\ hw.use[s] > 0)
        /\ \A s \in Resources :
              hw'.use[s] = IF s \in {r} /\ hw.use[s] > 0 THEN hw.use[s] - 1 ELSE hw.use[s]
        /\ hw'.early = hw.early /\ hw'.leaked = hw.leaked
        /\ hw'.faults = IF \A s \in {r} : hw.use[s] > 0 THEN hw.faults
                        ELSE hw.faults \cup {"unbalanced"}
    BY <1>1, <1>2, <1>6, DisabledIs
  <2>2. "overlap" \notin hw.faults => Matches(hw', r) /\ hw'.faults = hw.faults
    <3> SUFFICES ASSUME "overlap" \notin hw.faults
                 PROVE  Matches(hw', r) /\ hw'.faults = hw.faults
      OBVIOUS
    <3>1. r \in hw.on
      BY <1>3, <1>6
    <3>2. hw.use[r] = 1
      BY <1>3, <3>1 DEF Matches
    <3>3. hw'.use[r] = 0 /\ r \notin hw'.on
      BY <1>1, <2>1, <3>2
    <3>4. \A s \in {r} : hw.use[s] > 0
      BY <3>2
    <3> QED
      BY <2>1, <3>3, <3>4 DEF Matches
  <2>3. hw'.use[r] > 0 => hw.use[r] > 0
    BY <1>1, <1>2, <2>1
  <2>4. \A s \in Resources \ {r} : hw'.use[s] = hw.use[s] /\ (s \in hw'.on <=> s \in hw.on)
    BY <2>1
  <2>5. hw.faults \subseteq hw'.faults /\ hw'.faults \subseteq hw.faults \cup {"unbalanced"}
    BY <2>1
  <2> QED
    BY <1>6, <2>1, <2>2, <2>3, <2>4, <2>5 DEF r
<1> QED
  BY <1>4, <1>5, <1>6, SetRegulatorIs DEF r

\* The rest of the request in hand.
LEMMA SetRegulatorKeeps ==
    ASSUME Inductive, ~oops, SetRegulator, UNCHANGED coreVars
    PROVE  Inductive'
<1> DEFINE r == handler.regu
<1>1. /\ handler.busy /\ UNCHANGED <<left, irqs, chain, asked>>
  BY DEF SetRegulator
<1>a. ~handler'.busy
  <2>1. handler' = [busy |-> FALSE]
    BY DEF SetRegulator, Answer, AnswerSet
  <2> QED
    BY <2>1
<1>2. /\ r \in RegusOf(Devices) /\ r \in Resources /\ r \notin ClocksOf(Devices)
      /\ handler.enable \in BOOLEAN /\ <<r, handler.enable>> \in asked
  BY <1>1, Included, Apart DEF Inductive, HandlerInv
<1>3. PICK d \in Devices : dev[d] \in Held /\ r \in ReguSets[d]
  BY <1>1 DEF Inductive, HandlerInv
<1>4. /\ hw' \in Hw /\ hw'.early = hw.early /\ hw'.leaked = hw.leaked
      /\ hw.faults \subseteq hw'.faults /\ hw'.faults \subseteq hw.faults \cup {"unbalanced"}
      /\ \A s \in Resources \ {r} :
            hw'.use[s] = hw.use[s] /\ (s \in hw'.on <=> s \in hw.on)
      /\ "overlap" \notin hw.faults => Matches(hw', r) /\ hw'.faults = hw.faults
      /\ r \in hw.on => r \in hw'.on \/ ~handler.enable
      /\ hw'.use[r] > 0 => hw.use[r] > 0 \/ handler.enable
  BY SetRegulatorEffect
<1>5. \A f \in {"removal", "overlap"} : f \in hw'.faults <=> f \in hw.faults
  BY <1>4
<1>6. master # "bound" => "removal" \in hw.faults
  <2>1. dev[d] # "absent"
    BY <1>3 DEF Held
  <2>2. stage \in {"prepared", "unregister"}
    BY <1>1 DEF Inductive, StageInv
  <2> QED
    BY <2>1, <2>2, LateNeedsRemoval
<1> HIDE DEF r
<1>7. Typed' /\ ListsInv'
  BY <1>1, <1>4 DEF Inductive, Typed, ListsInv, Probed, coreVars
<1>8. StageInv' /\ HandlerInv'
  BY <1>a DEF Inductive, StageInv, HandlerInv, coreVars
<1>9. BoundInv'
  BY <1>5 DEF Inductive, BoundInv, coreVars
<1>10. ZeroInv'
  <2> SUFFICES ASSUME NEW e \in Devices, dev[e] \notin Held, NEW s \in ResourcesOf({e})
               PROVE  hw'.use[s] = 0 /\ s \notin hw'.on
    BY DEF ZeroInv, coreVars
  <2>1. s \in Resources
    BY Included DEF ResourcesOf
  <2>2. s # r
    BY <1>2, <1>3, Apart, Included, InRegus DEF ResourcesOf
  <2>3. hw.use[s] = 0 /\ s \notin hw.on
    BY DEF Inductive, ZeroInv
  <2> QED
    BY <1>4, <2>1, <2>2, <2>3
<1>11. \A s \in Resources \ {r} : Matches(hw, s) => Matches(hw', s)
  BY <1>4 DEF Matches
<1>12. Flagged(hw')
  <2>1. \A s \in ClocksOf(Devices) : Matches(hw', s)
    BY <1>2, <1>11, HwFlagged, Included DEF Flagged
  <2>2. "overlap" \notin hw'.faults =>
          "unbalanced" \notin hw'.faults /\ \A s \in Resources : Matches(hw', s)
    BY <1>4, <1>5, <1>11, HwFlagged DEF Flagged
  <2>3. \A s \in hw'.leaked : Excused(hw', s)
    BY <1>4, HwFlagged DEF Flagged, Excused
  <2>4. ASSUME NEW s \in RegusOf(hw.early) \ left, hw'.use[s] > 0
        PROVE  <<s, TRUE>> \in asked \/ s \in hw.leaked
    <3>1. s \in Resources
      BY Included DEF Inductive, Typed, Hw
    <3>2. CASE hw.use[s] > 0
      BY <3>2, HwFlagged DEF Flagged
    <3>3. CASE s = r /\ handler.enable
      BY <1>2, <3>3
    <3> QED
      BY <1>4, <2>4, <3>1, <3>2, <3>3
  <2>5. "overlap" \in hw'.faults => "removal" \in hw'.faults
    BY <1>5, HwFlagged DEF Flagged
  <2> QED
    BY <1>4, <2>1, <2>2, <2>3, <2>4, <2>5 DEF Flagged
<1>13. irqs' \cap hw'.early = {}
  BY <1>1, <1>4 DEF Inductive, EarlyBootSyncs
<1>14. FlagsInv' /\ EarlyBootSyncs' /\ \A s \in hw'.leaked : Excused(hw', s)
  BY <1>1, <1>12, <1>13, FlaggedGives
<1>15. LeakInv'
  <2>1. ASSUME master # "bound", NEW s \in Resources
        PROVE  Accounted(hw', s)
    <3>1. CASE s = r
      BY <1>2, <1>5, <1>6, <2>1, <3>1 DEF Accounted, Excused
    <3>2. CASE s # r
      BY <1>4, <2>1, <3>2 DEF Inductive, LeakInv, Accounted, Excused
    <3> QED
      BY <3>1, <3>2
  <2> QED
    BY <1>14, <2>1 DEF LeakInv, coreVars
<1>16. OnInv'
  <2> SUFFICES ASSUME master = "bound", "removal" \notin hw.faults
               PROVE  /\ ClocksOf(Devices) \subseteq hw'.on
                      /\ \A e \in Devices \ hw.early : \A s \in ReguSets[e] :
                            s \in hw'.on \/ <<s, FALSE>> \in asked
    BY <1>1, <1>4, <1>5 DEF OnInv, coreVars
  <2>1. ClocksOf(Devices) \subseteq hw'.on
    BY <1>2, <1>4, Included DEF Inductive, OnInv
  <2>2. ASSUME NEW e \in Devices \ hw.early, NEW s \in ReguSets[e]
        PROVE  s \in hw'.on \/ <<s, FALSE>> \in asked
    <3>1. s \in Resources
      BY InRegus, Included
    <3>2. s \in hw.on \/ <<s, FALSE>> \in asked
      BY DEF Inductive, OnInv
    <3>3. CASE s = r
      <4>1. ~handler.enable => <<s, FALSE>> \in asked
        BY <1>2, <3>3
      <4> QED
        BY <1>4, <3>2, <3>3, <4>1
    <3>4. CASE s # r
      BY <1>4, <3>1, <3>2, <3>4
    <3> QED
      BY <3>3, <3>4
  <2> QED
    BY <2>1, <2>2
<1>17. FaultInv'
  BY <1>4 DEF Inductive, FaultInv, FreedIsUnused, Faulty, coreVars
<1> QED
  BY <1>7, <1>8, <1>9, <1>10, <1>14, <1>15, <1>16, <1>17 DEF Inductive

\* A request in any of its steps.
LEMMA RequestKeeps ==
    ASSUME Inductive, Request, ~oops
    PROVE  Inductive'
<1>1. UNCHANGED coreVars /\ (handler.busy \/ rpmsg)
  BY DEF Request
<1>2. CASE SetRegulator
  BY <1>1, <1>2, SetRegulatorKeeps
<1>3. ASSUME NEW q \in Requests, AnswerUnknown(q) \/ AnswerSimple(q)
      PROVE  Inductive'
  <2>1. UNCHANGED <<hw, left, irqs, chain, asked>>
    BY <1>3 DEF AnswerUnknown, AnswerSimple
  <2>2. handler' = [busy |-> FALSE]
    BY <1>3 DEF AnswerUnknown, AnswerSimple, Answer
  <2>3. ~handler'.busy
    BY <2>2
  <2> QED
    BY <1>1, <2>1, <2>3, AnswerKeeps
<1>4. ASSUME NEW q \in Requests, TestRegulator(q)
      PROVE  Inductive'
  <2>1. rpmsg
    BY <1>1, <1>4 DEF TestRegulator
  <2> QED
    BY <1>1, <1>4, <2>1, TestRegulatorKeeps
<1> QED
  BY <1>2, <1>3, <1>4 DEF Request, Handle

(***************************************************************************)
(* Every step, and the theorems.                                           *)
(***************************************************************************)

\* At first nothing is there.
LEMMA SrmStarts ==
    ASSUME SrmInit
    PROVE  Inductive
<1> DEFINE zero == [r \in Resources |-> 0]
<1>1. /\ hw = [on |-> {}, use |-> zero, early |-> {}, leaked |-> {}, faults |-> {}]
      /\ irqs = {} /\ chain = <<>> /\ handler = [busy |-> FALSE]
  BY DEF SrmInit, DevInit
<1>2. zero \in [Resources -> Nat] /\ \A r \in Resources : zero[r] = 0
  OBVIOUS
<1>3. /\ stage = "off" /\ dev = [d \in Devices |-> "absent"] /\ components = {} /\ master = "none"
      /\ all_bound = FALSE /\ rpmsg = FALSE /\ rproc # "running" /\ dangling = FALSE /\ gone = FALSE
      /\ oops = FALSE
  BY DEF SrmInit
<1> HIDE DEF zero
<1>4. /\ hw \in Hw /\ hw.on = {} /\ hw.use = zero /\ hw.early = {} /\ hw.leaked = {} /\ hw.faults = {}
  BY <1>1, <1>2 DEF Hw
<1>5. ~handler.busy
  BY <1>1
<1>6. Typed
  BY <1>1, <1>3, <1>4 DEF Typed, Stages, Masters, DevStates
<1>7. ListsInv
  BY <1>1, <1>3 DEF ListsInv
<1>8. StageInv /\ BoundInv /\ HandlerInv /\ OnInv
  BY <1>3, <1>5 DEF StageInv, BoundInv, HandlerInv, OnInv
<1>9. ZeroInv
  <2>1. \A d \in Devices : ResourcesOf({d}) \subseteq Resources
    BY Included DEF ResourcesOf
  <2> QED
    BY <1>2, <1>4, <2>1 DEF ZeroInv
<1>10. FlagsInv
  <2>1. \A r \in Resources : Matches(hw, r)
    BY <1>2, <1>4 DEF Matches
  <2>2. FlagsMatchUse
    BY <1>4, <2>1 DEF FlagsMatchUse, Faulty, Matches
  <2> QED
    BY <1>4, <2>1, <2>2, Included DEF FlagsInv
<1>11. LeakInv
  BY <1>2, <1>4 DEF LeakInv, Accounted
<1>12. EarlyBootSyncs
  <2>1. RegusOf(hw.early) = {}
    BY <1>4, InRegus
  <2> QED
    BY <1>1, <2>1 DEF EarlyBootSyncs
<1>13. FaultInv
  BY <1>3 DEF FaultInv, FreedIsUnused
<1> QED
  BY <1>6, <1>7, <1>8, <1>9, <1>10, <1>11, <1>12, <1>13 DEF Inductive

\* Nothing changes.
LEMMA SrmStutters ==
    ASSUME Inductive, UNCHANGED allVars
    PROVE  Inductive'
<1> USE DEF Inductive, allVars, devVars, coreVars
<1>1. Typed' /\ ListsInv' /\ StageInv' /\ BoundInv'
  BY DEF Typed, ListsInv, Probed, StageInv, BoundInv
<1>2. HandlerInv'
  BY DEF HandlerInv
<1>3. ZeroInv' /\ FlagsInv' /\ LeakInv' /\ OnInv' /\ EarlyBootSyncs'
  BY DEF ZeroInv, FlagsInv, FlagsMatchUse, Faulty, LeakInv, OnInv, EarlyBootSyncs
<1>4. FaultInv'
  BY DEF FaultInv, FreedIsUnused, Faulty
<1> QED
  BY <1>1, <1>2, <1>3, <1>4

\* The inductive invariant of the resource manager: from the first state on,
\* whatever the core, the devices, remoteproc and the remote processor's requests do
\* (every action of rproc_srm_core.c and rproc_srm_dev.c), in any order.
THEOREM InductiveInvariant == SrmSpec => []Inductive
<1>1. SrmInit => Inductive
  BY SrmStarts
<1>2. Inductive /\ [SrmNext]_allVars => Inductive'
  <2> SUFFICES ASSUME Inductive, SrmNext \/ UNCHANGED allVars
               PROVE  Inductive'
    OBVIOUS
  <2>1. CASE UNCHANGED allVars
    BY <2>1, SrmStutters
  <2>2. CASE SrmNext
    <3>1. ~oops
      BY <2>2 DEF SrmNext
    <3>2. CASE Populate
      BY <3>1, <3>2, PopulateKeeps
    <3>3. CASE CoreStep
      BY <3>1, <3>3, NoChildKeeps, MasterAddKeeps, TimeoutKeeps, WokenKeeps, MasterDelKeeps,
         DepopulateKeeps, UnregisterRpmsgKeeps DEF CoreStep
    <3>4. CASE Start \/ Stop \/ StartGone \/ RemoveCore \/ Request \/ WalkFreed
      BY <3>1, <3>4, StartKeeps, StopKeeps, FreedKeeps, RemoveCoreKeeps, RequestKeeps
    <3>5. ASSUME NEW d \in Devices,
                 ProbeFails(d) \/ Register(d) \/ ComponentAdd(d) \/ RemoveBegin(d) \/ RemoveEnd(d)
          PROVE  Inductive'
      BY <3>1, <3>5, ProbeFailsKeeps, RegisterKeeps, ComponentAddKeeps, RemoveBeginKeeps, RemoveEndKeeps
    <3> QED
      BY <2>2, <3>2, <3>3, <3>4, <3>5 DEF SrmNext
  <2> QED
    BY <2>1, <2>2
<1> QED
  BY <1>1, <1>2, PTL DEF SrmSpec

\* rproc_srm_core_unprepare, and prepare's error paths: nothing is bound,
\* registered or probed any more when the core is off, and what leaked has a failed
\* bind, a regulator that could not be disabled or a removal to answer for it.
THEOREM AlwaysReleasedWhenOff == SrmSpec => []ReleasedWhenOff
<1>1. Inductive => ReleasedWhenOff
  <2> SUFFICES ASSUME Inductive, stage = "off"
               PROVE  /\ master = "none" /\ components = {} /\ chain = <<>> /\ irqs = {}
                      /\ ~rpmsg /\ ~handler.busy
                      /\ \A r \in Resources : hw.use[r] = 0
                      /\ hw.leaked \cap ClocksOf(Devices) # {} => Faulty({"bind"})
                      /\ hw.leaked \cap RegusOf(Devices) # {} => Faulty({"stuck", "removal"})
    BY DEF ReleasedWhenOff
  <2>1. \A d \in Devices : dev[d] \notin Held
    BY DEF Inductive, StageInv, Held
  <2>2. components = {} /\ chain = <<>> /\ irqs = {}
    BY <2>1, ListsEmpty
  <2>3. master = "none" /\ ~rpmsg /\ ~handler.busy
    BY NoRequest DEF Inductive, StageInv
  <2>4. \A r \in Resources : hw.use[r] = 0
    BY <2>1, AllOff
  <2>5. hw.leaked \cap ClocksOf(Devices) # {} => Faulty({"bind"})
    BY DEF Inductive, LeakInv, Excused, Faulty
  <2>6. hw.leaked \cap RegusOf(Devices) # {} => Faulty({"stuck", "removal"})
    BY Apart DEF Inductive, LeakInv, Excused, Faulty
  <2> QED
    BY <2>2, <2>3, <2>4, <2>5, <2>6
<1> QED
  BY <1>1, InductiveInvariant, PTL

\* regu_set_cfg against binds and unbinds, which share r->enabled without a lock:
\* unless a device is removed, no regulator is disabled more often than it was
\* enabled, and the flags say what is enabled.
THEOREM FlagsAlwaysMatchUse == SrmSpec => []FlagsMatchUse
<1>1. Inductive => FlagsMatchUse
  BY DEF Inductive, FlagsInv
<1> QED
  BY <1>1, InductiveInvariant, PTL

\* rproc_srm_core_prepare: unless something is removed by hand, a remote processor
\* that runs has its clocks on, and its regulators until it switches them itself.
THEOREM AlwaysRunsWithResources == SrmSpec => []RunsWithResources
<1>1. Inductive => RunsWithResources
  <2> SUFFICES ASSUME Inductive, rproc = "running", available, ~Faulty({"removal", "core removal"})
               PROVE  /\ master = "bound" /\ rpmsg
                      /\ ClocksOf(Devices) \subseteq hw.on
                      /\ RegusOf(Devices \ hw.early) \ hw.on
                           \subseteq {r \in RegusOf(Devices) : <<r, FALSE>> \in asked}
    BY DEF RunsWithResources
  <2>1. "removal" \notin hw.faults /\ "core removal" \notin hw.faults
    BY DEF Faulty
  <2>2. stage = "prepared"
    BY <2>1 DEF Inductive, FaultInv, StageInv
  <2>3. master = "bound" /\ rpmsg
    BY <2>1, <2>2 DEF Inductive, BoundInv
  <2>4. /\ ClocksOf(Devices) \subseteq hw.on
        /\ \A d \in Devices \ hw.early : \A r \in ReguSets[d] : r \in hw.on \/ <<r, FALSE>> \in asked
    BY <2>1, <2>3 DEF Inductive, OnInv
  <2>5. RegusOf(Devices \ hw.early) \ hw.on \subseteq {r \in RegusOf(Devices) : <<r, FALSE>> \in asked}
    BY <2>4, InRegus
  <2> QED
    BY <2>3, <2>4, <2>5
<1> QED
  BY <1>1, InductiveInvariant, PTL

\* regus_setup and irqs_get in early boot mode: attaching to a running firmware
\* switches on no regulator that was off, and takes no interrupt.
THEOREM EarlyBootAlwaysSyncs == SrmSpec => []EarlyBootSyncs
<1>1. Inductive => EarlyBootSyncs
  BY DEF Inductive
<1> QED
  BY <1>1, InductiveInvariant, PTL

\* rproc_srm_dev_probe and rproc_srm_core_remove: freed memory is used only after a
\* bind that failed in the probe of the last device, or after the core was removed.
THEOREM FreedIsAlwaysUnused == SrmSpec => []FreedIsUnused
<1>1. Inductive => FreedIsUnused
  BY DEF Inductive, FaultInv
<1> QED
  BY <1>1, InductiveInvariant, PTL

\* The types that the inductive invariant does not need.
OtherTypes ==
    /\ left \subseteq RegusOf(Devices)
    /\ rproc \in {"detached", "offline", "running"}
    /\ available \in BOOLEAN /\ all_bound \in BOOLEAN /\ bind_ok \in BOOLEAN /\ rpmsg \in BOOLEAN
    /\ dangling \in BOOLEAN /\ gone \in BOOLEAN /\ oops \in BOOLEAN
    /\ removals \in 0 .. MaxRemovals

\* Types are kept by every step of the resource manager, for any number of
\* removals: counts stay natural numbers, and no notifier is registered twice.
THEOREM TypesAlwaysHold == SrmSpec => []SrmTypeOK
<1>1. SrmInit => OtherTypes
  <2> SUFFICES ASSUME SrmInit
               PROVE  OtherTypes
    OBVIOUS
  <2>1. left \subseteq RegusOf(Devices) /\ rproc \in {"detached", "offline", "running"}
    BY DEF SrmInit, DevInit
  <2>2. removals \in 0 .. MaxRemovals
    BY ConfigAssumption DEF SrmInit
  <2>3. /\ available \in BOOLEAN /\ all_bound \in BOOLEAN /\ bind_ok \in BOOLEAN /\ rpmsg \in BOOLEAN
        /\ dangling \in BOOLEAN /\ gone \in BOOLEAN /\ oops \in BOOLEAN
    BY DEF SrmInit
  <2> QED
    BY <2>1, <2>2, <2>3 DEF OtherTypes
<1>2. Inductive /\ OtherTypes /\ [SrmNext]_allVars => OtherTypes'
  <2> SUFFICES ASSUME Inductive, OtherTypes, [SrmNext]_allVars
               PROVE  OtherTypes'
    OBVIOUS
  <2>1. left' = left /\ available' = available
    BY DEF SrmNext, allVars, devVars, coreVars, Populate, CoreStep, NoChild, MasterAdd, Timeout, Woken,
       MasterDel, Depopulate, UnregisterRpmsg, Start, Stop, StartGone, RemoveCore, Request, Handle,
       SetRegulator, AnswerUnknown, AnswerSimple, TestRegulator, WalkFreed, ProbeFails, Register,
       ComponentAdd, RemoveBegin, RemoveEnd
  <2>2. rproc' = rproc \/ rproc' = "running" \/ rproc' = "offline"
    BY DEF SrmNext, allVars, devVars, coreVars, Populate, CoreStep, NoChild, MasterAdd, Timeout, Woken,
       MasterDel, Depopulate, UnregisterRpmsg, Start, Stop, StartGone, RemoveCore, Request, WalkFreed,
       ProbeFails, Register, ComponentAdd, RemoveBegin, RemoveEnd
  <2>3. /\ \A outcome \in BindOutcomes(hw) : outcome.ok \in BOOLEAN
        /\ \A outcome \in BindOutcomes(Overlapping(hw)) : outcome.ok \in BOOLEAN
    <3>1. hw \in Hw /\ Fault(hw, "overlap") \in Hw
      BY FaultIs DEF Inductive, Typed, FaultKinds
    <3>2. Overlapping(hw) \in Hw
      BY <3>1 DEF Overlapping
    <3> QED
      BY <3>1, <3>2, OutcomeEffect
  <2>4. (all_bound' = all_bound \/ all_bound' \in BOOLEAN) /\ (bind_ok' = bind_ok \/ bind_ok' \in BOOLEAN)
    BY <2>3 DEF SrmNext, allVars, devVars, coreVars, Populate, CoreStep, NoChild, MasterAdd, Timeout,
       Woken, MasterDel, Depopulate, UnregisterRpmsg, Start, Stop, StartGone, RemoveCore, Request,
       WalkFreed, ProbeFails, Register, ComponentAdd, RemoveBegin, RemoveEnd, core_bind
  <2>5. (rpmsg' = rpmsg \/ rpmsg' \in BOOLEAN) /\ (dangling' = dangling \/ dangling' \in BOOLEAN)
        /\ (gone' = gone \/ gone' \in BOOLEAN)
    BY DEF SrmNext, allVars, devVars, coreVars, Populate, CoreStep, NoChild, MasterAdd, Timeout, Woken,
       MasterDel, Depopulate, UnregisterRpmsg, Start, Stop, StartGone, RemoveCore, Request, WalkFreed,
       ProbeFails, Register, ComponentAdd, RemoveBegin, RemoveEnd
  <2>6. oops' = oops \/ oops' \in BOOLEAN
    BY DEF OtherTypes, SrmNext, allVars, devVars, coreVars, Populate, CoreStep, NoChild, MasterAdd,
       Timeout, Woken, MasterDel, Depopulate, UnregisterRpmsg, Start, Stop, StartGone, RemoveCore,
       Request, WalkFreed, ProbeFails, Register, ComponentAdd, RemoveBegin, RemoveEnd
  <2>7. removals' = removals \/ (removals < MaxRemovals /\ removals' = removals + 1)
    BY DEF SrmNext, allVars, devVars, coreVars, Populate, CoreStep, NoChild, MasterAdd, Timeout, Woken,
       MasterDel, Depopulate, UnregisterRpmsg, Start, Stop, StartGone, RemoveCore, Request, WalkFreed,
       ProbeFails, Register, ComponentAdd, RemoveBegin, RemoveEnd
  <2>8. removals' \in 0 .. MaxRemovals
    BY <2>7, ConfigAssumption DEF OtherTypes
  <2> QED
    BY <2>1, <2>2, <2>4, <2>5, <2>6, <2>8 DEF OtherTypes
<1>3. Inductive /\ OtherTypes => SrmTypeOK
  <2> SUFFICES ASSUME Inductive, OtherTypes
               PROVE  SrmTypeOK
    OBVIOUS
  <2>1. hw.on \subseteq Resources /\ hw.leaked \subseteq Resources /\ hw.early \subseteq Devices
        /\ hw.use \in [Resources -> Nat]
    BY DEF Inductive, Typed, Hw
  <2>2. chain \in Seq(Devices) /\ IsInjective(chain)
    BY DEF Inductive, Typed, ListsInv, IsInjective
  <2>3. components \subseteq Devices
    BY DEF Inductive, ListsInv, Probed
  <2>4. irqs \subseteq Devices /\ stage \in Stages /\ dev \in [Devices -> DevStates] /\ master \in Masters
    BY DEF Inductive, Typed
  <2>5. dev \in [Devices -> {"absent", "created", "registered", "probed", "failed", "removing"}]
    BY <2>4 DEF DevStates, Held
  <2> QED
    BY <2>1, <2>2, <2>3, <2>4, <2>5 DEF OtherTypes, SrmTypeOK, Stages, Masters
<1> QED
  BY <1>1, <1>2, <1>3, InductiveInvariant, PTL DEF SrmSpec
================================================================================
