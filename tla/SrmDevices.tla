------------------------------ MODULE SrmDevices -------------------------------
(***************************************************************************)
(* The devices of the system resource manager (rproc_srm_dev.c): the clock *)
(* parents and regulators that Linux switches on for a remote processor    *)
(* when the devices are bound and off when they are unbound, and the       *)
(* handler of the remote processor's requests to change them.              *)
(*                                                                         *)
(* A clock stands for its parent, which is what is switched; rates and     *)
(* voltages are left out, setting one succeeds or fails.  The clock and    *)
(* regulator frameworks are external: enabling may fail, disabling a       *)
(* regulator too, and disabling what this handle has not enabled does.     *)
(***************************************************************************)
EXTENDS Naturals, Sequences, FiniteSets, SequencesExt

CONSTANTS
    Devices,
    Clks,       \* [Devices -> Seq(clocks)], clk_list_head
    Regus,      \* [Devices -> Seq(regulators)], regu_list_head
    Requests    \* the requests that the remote processor makes

ClockSets == [d \in Devices |-> Range(Clks[d])]
ReguSets == [d \in Devices |-> Range(Regus[d])]
ClocksOf(D) == UNION {ClockSets[d] : d \in D}
RegusOf(D) == UNION {ReguSets[d] : d \in D}
Resources == ClocksOf(Devices) \cup RegusOf(Devices)

\* struct rpmsg_srm_msg.  who: the devices whose names contain device_id;
\* index 0 is one that no device has.
RequestTypes == {"set", "get", "bad"}
ResourceTypes == {"clock", "regu", "bad"}
IsRequest(q) ==
    /\ q.who \subseteq Devices /\ q.type \in RequestTypes /\ q.rsc \in ResourceTypes
    /\ q.index \in Nat /\ q.enable \in BOOLEAN /\ q.volts \in BOOLEAN

ASSUME ListsAssumption ==
    /\ \A d \in Devices : Clks[d] \in Seq(ClocksOf({d})) /\ Regus[d] \in Seq(RegusOf({d}))
    /\ ClocksOf(Devices) \cap RegusOf(Devices) = {}
    /\ \A d, e \in Devices : d # e =>
          ClocksOf({d}) \cap ClocksOf({e}) = {} /\ RegusOf({d}) \cap RegusOf({e}) = {}
ASSUME RequestsAssumption == \A q \in Requests : IsRequest(q)

VARIABLES
    hw,         \* on: parent_enabled and enabled; use: how often this driver
                \* has enabled it; early: devices in early_boot mode;
                \* leaked: put while enabled; faults: history
    left,       \* regulators that the boot loader or another consumer has on
    irqs,       \* devices that hold their interrupts
    chain,      \* notifiers in the order they were registered
    handler,    \* the request in hand, its device, and what was read of it
    reply,      \* the latest answer
    asked       \* history: the switches <<regulator, enable>> that were asked for

devVars == <<hw, left, irqs, chain, handler, reply, asked>>

--------------------------------------------------------------------------------
(* Clocks and regulators.                                                  *)

Fault(h, f) == [h EXCEPT !.faults = @ \cup {f}]

\* clk_prepare_enable, regulator_enable; clk_disable_unprepare, regulator_disable.
Enabled(h, R) ==
    [h EXCEPT !.on = @ \cup R,
              !.use = [r \in Resources |-> IF r \in R THEN @[r] + 1 ELSE @[r]]]
Disabled(h, R) ==
    LET balanced == {r \in R : h.use[r] > 0}
        done == [h EXCEPT !.on = @ \ balanced,
                          !.use = [r \in Resources |-> IF r \in balanced THEN @[r] - 1 ELSE @[r]]]
    IN  IF R \subseteq balanced THEN done ELSE Fault(done, "unbalanced")

\* regulator_is_enabled
IsEnabled(h, r) == r \in left \/ h.use[r] > 0 \/ r \in h.leaked

\* The parent is looked up each time (clk_get_parent).  The clock tree is external:
\* a clock is taken to have the same parent when it is unbound as when it was bound.
clocks_setup(h, D) == Enabled(h, ClocksOf(D) \ h.on)
clocks_unsetup(h, D) == Disabled(h, ClocksOf(D) \cap h.on)

\* In early boot mode, sync on the hardware.
EnablesAll(h, d) == RegusOf({d}) \ h.on
ToEnable(h, d) == {r \in RegusOf({d}) \ h.on : d \in h.early => IsEnabled(h, r)}
regus_setup(h, D) == Enabled(h, UNION {ToEnable(h, d) : d \in D})

\* stuck: the regulators that cannot be disabled.
ForgetsRegulators(h, D, stuck) == h
regus_unsetup(h, D, stuck) ==
    LET mine == RegusOf(D) \cap h.on
        done == Disabled(h, mine \ stuck)
    IN  IF mine \cap stuck = {} THEN done ELSE Fault(done, "stuck")

\* rproc_srm_dev_bind of the devices D.
Bound(h, D) == regus_setup(clocks_setup(h, D), D)

\* Its ways to fail for one device: a clock fails, or the regulator r does, and
\* then those before it are disabled but the clocks stay on.
Earlier(h, d, r) ==
    {s \in ToEnable(h, d) :
        \E i, j \in 1 .. Len(Regus[d]) : i < j /\ Regus[d][i] = s /\ Regus[d][j] = r}
FailsAt(h, d, r, stuck) == Fault(regus_unsetup(Enabled(h, Earlier(h, d, r)), {d}, stuck), "bind")
BindFailures(h, d) ==
    LET lit == clocks_setup(h, {d})
    IN  (IF ClocksOf({d}) \subseteq h.on THEN {} ELSE {clocks_unsetup(h, {d})})
            \cup {FailsAt(lit, d, r, stuck) : r \in ToEnable(lit, d), stuck \in SUBSET RegusOf({d})}

\* rproc_srm_dev_unbind
Unbound(h, D, stuck) == clocks_unsetup(regus_unsetup(h, D, stuck), D)

\* clocks_put, regus_put: a new probe starts from new list entries.
Put(h, D) ==
    LET mine == ClocksOf(D) \cup RegusOf(D)
    IN  [h EXCEPT !.leaked = @ \cup {r \in mine : h.use[r] > 0},
                  !.on = @ \ mine,
                  !.early = @ \ D,
                  !.use = [r \in Resources |-> IF r \in mine THEN 0 ELSE @[r]]]

NoReply == [status |-> "none"]

DevInit ==
    /\ hw = [on |-> {}, use |-> [r \in Resources |-> 0], early |-> {}, leaked |-> {}, faults |-> {}]
    /\ left \in SUBSET RegusOf(Devices)
    /\ irqs = {}
    /\ chain = <<>>
    /\ handler = [busy |-> FALSE]
    /\ reply = NoReply
    /\ asked = {}

--------------------------------------------------------------------------------
(* Requests.                                                               *)

\* blocking_notifier_chain_unregister
Unlink(d) == \E i \in 1 .. Len(chain) : chain[i] = d /\ chain' = RemoveAt(chain, i)

\* The first device on the chain that the request names answers it.
Answers(d, q) ==
    \E i \in 1 .. Len(chain) :
        chain[i] = d /\ d \in q.who /\ \A j \in 1 .. i - 1 : chain[j] \notin q.who

\* clock_find, regu_find
Found(d, q) == q.index \in 1 .. Len(IF q.rsc = "clock" THEN Clks[d] ELSE Regus[d])

\* The answer carries the state of the regulator it is about; a send may fail.
Answer(status) == reply' \in {[status |-> status], NoReply} /\ handler' = [busy |-> FALSE]
AnswerSet(enable, actual) ==
    /\ reply' \in {[status |-> "set", asked |-> enable, enable |-> actual], NoReply}
    /\ handler' = [busy |-> FALSE]

\* rpmsg_srm_cb, "unknown device"
AnswerUnknown(q) ==
    /\ ~handler.busy
    /\ \A d \in Devices : ~Answers(d, q)
    /\ Answer("error")
    /\ UNCHANGED <<hw, left, irqs, chain, asked>>

\* notify_cb, where no regulator is to be set: bad requests, reads, clocks.
AnswerSimple(q) ==
    /\ ~handler.busy
    /\ \E d \in Devices :
          /\ Answers(d, q)
          /\ \/ /\ q.type = "bad" \/ q.rsc = "bad" \/ ~Found(d, q)
                /\ Answer("error")
             \/ /\ q.type = "get" /\ q.rsc # "bad" /\ Found(d, q)
                /\ Answer("ok")
             \/ /\ q.type = "set" /\ q.rsc = "clock" /\ Found(d, q)
                /\ Answer("ok") \/ Answer("error")    \* clk_set_rate fails
    /\ UNCHANGED <<hw, left, irqs, chain, asked>>

\* regu_set_cfg up to its test of r->enabled, which nothing locks.
TestRegulator(q) ==
    /\ ~handler.busy
    /\ q.type = "set" /\ q.rsc = "regu"
    /\ \E d \in Devices :
          /\ Answers(d, q) /\ Found(d, q)
          /\ handler' = [busy |-> TRUE, regu |-> Regus[d][q.index], enable |-> q.enable,
                         volts |-> q.volts, enabled |-> Regus[d][q.index] \in hw.on]
          /\ asked' = asked \cup {<<Regus[d][q.index], q.enable>>}
    /\ UNCHANGED <<hw, left, irqs, chain, reply>>

\* Switch it where the test said so.
EnablesAgain(h, r, enabled, enable) ==
    IF enable THEN Enabled(h, {r}) ELSE IF enabled THEN Disabled(h, {r}) ELSE h
Switched(h, r, enabled, enable) ==
    CASE enable /\ ~enabled -> Enabled(h, {r})
      [] ~enable /\ enabled -> Disabled(h, {r})
      [] enable = enabled -> h

\* regu_set_cfg after the test, then regu_get_cfg; setting the voltage may fail
\* with the regulator switched already.
SetRegulator ==
    /\ handler.busy
    /\ LET r == handler.regu
           switched == Switched(hw, r, handler.enabled, handler.enable)
           refused == ~handler.enable /\ handler.enabled /\ hw.use[r] = 0
       IN  \/ /\ ~refused
              /\ hw' = switched
              /\ \/ AnswerSet(handler.enable, r \in switched.on)
                 \/ handler.volts /\ Answer("error")
           \/ /\ handler.enable # handler.enabled   \* regulator_enable, _disable fail
              /\ hw' = IF refused THEN switched ELSE hw
              /\ Answer("error")
    /\ UNCHANGED <<left, irqs, chain, asked>>

Handle == SetRegulator \/ \E q \in Requests : AnswerUnknown(q) \/ AnswerSimple(q) \/ TestRegulator(q)
================================================================================
