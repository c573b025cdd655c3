-------------------------------- MODULE SrmCore --------------------------------
(***************************************************************************)
(* The core of the system resource manager (rproc_srm_core.c) with the     *)
(* devices it composes: prepare and unprepare, called by remoteproc before *)
(* it starts and after it stops the remote processor, the probing and      *)
(* removal of devices, and the binding of all of them by the kernel's      *)
(* component framework.                                                    *)
(*                                                                         *)
(* remoteproc, the component framework, the notifier chain and rpmsg are   *)
(* external.  With both drivers built in, devices are probed while the     *)
(* node is populated; as modules they may come later, and a device or the  *)
(* core may be removed by hand at any time.                                *)
(***************************************************************************)
EXTENDS SrmDevices

CONSTANTS
    MatchOrder,     \* the order of the children in the device tree
    MaxRemovals,    \* bound on the removals by hand, of devices and of the core
    MaxLeaked       \* bound on the resources that have leaked when the core is prepared

ASSUME ConfigAssumption == MaxRemovals \in Nat /\ MaxLeaked \in Nat
ASSUME MatchAssumption == MatchOrder \in Seq(Devices) /\ Range(MatchOrder) = Devices

VARIABLES
    stage,      \* where prepare or unprepare is; "off" and "prepared" at rest
    available,  \* does the node have available children?
    dev,        \* each child: absent, created, registered, probed, failed or removing
    components, \* devices known to the component framework
    master,     \* the core's master: none, added or bound
    all_bound,  \* the completion that prepare waits for
    bind_ok,    \* bind_status is 0
    rpmsg,      \* is the rpmsg driver registered?
    rproc,      \* the remote processor: detached, offline or running
    dangling,   \* is a freed notifier on the chain?
    removals,   \* removals by hand so far
    gone,       \* has the core's driver been removed?
    oops        \* memory was used after it was freed; nothing is known then

coreVars == <<stage, available, dev, components, master, all_bound, bind_ok, rpmsg, rproc,
              dangling, removals, gone, oops>>
allVars == <<devVars, coreVars>>

Probed == {d \in Devices : dev[d] = "probed"}

SrmInit ==
    /\ DevInit
    /\ stage = "off"
    /\ available \in BOOLEAN
    /\ dev = [d \in Devices |-> "absent"]
    /\ components = {}
    /\ master = "none"
    /\ all_bound = FALSE
    /\ bind_ok = TRUE
    /\ rpmsg = FALSE
    /\ rproc \in {"detached", "offline"}
    /\ dangling = FALSE
    /\ removals = 0
    /\ gone = FALSE
    /\ oops = FALSE

--------------------------------------------------------------------------------
(* The component framework.                                                *)

\* component_bind_all: what it may leave behind.  When the k-th device fails,
\* those before it are unbound.
Before(k) == {MatchOrder[j] : j \in 1 .. k - 1}
FailedBinds(h, k) ==
    {[hw |-> Unbound(f, Before(k), stuck), ok |-> FALSE] :
        f \in BindFailures(Bound(h, Before(k)), MatchOrder[k]), stuck \in SUBSET RegusOf(Before(k))}
BindOutcomes(h) ==
    {[hw |-> Bound(h, Devices), ok |-> TRUE]}
        \cup UNION {FailedBinds(h, k) : k \in 1 .. Len(MatchOrder)}

\* rproc_srm_core_bind
core_bind(outcome) ==
    /\ bind_ok' = outcome.ok
    /\ all_bound' = TRUE

\* component_master_del, and the master's part of component_del.
Unbind(m) ==
    /\ master' = m
    /\ IF master = "bound"
       THEN \E stuck \in SUBSET RegusOf(Devices) : hw' = Unbound(hw, Devices, stuck)
       ELSE UNCHANGED hw

\* A bind or an unbind overlaps with the request in hand, which has read already
\* what it will act upon.
Overlapping(h) == IF handler.busy THEN Fault(h, "overlap") ELSE h

--------------------------------------------------------------------------------
(* rproc_srm_core_prepare.                                                 *)

\* The history starts anew with each start, but for faults with lasting effects.
Forget(h) ==
    [h EXCEPT !.faults = @ \cap ({"late bind", "core removal"} \cup
                                 IF h.leaked = {} THEN {} ELSE {"bind", "stuck", "removal"})]

\* devm_of_platform_populate; a failure leaves the core as it was.
Populate ==
    /\ stage = "off" /\ ~gone /\ rproc # "running"
    /\ Cardinality(hw.leaked) <= MaxLeaked
    /\ stage' = "populate"
    /\ all_bound' = FALSE
    /\ dev' = [d \in Devices |-> IF available THEN "created" ELSE "absent"]
    /\ asked' = {}
    /\ reply' = NoReply
    /\ hw' = Forget(hw)
    /\ UNCHANGED <<left, irqs, chain, handler, available, components, master, bind_ok, rpmsg, rproc, dangling, removals, gone, oops>>

\* Nothing to manage: prepared, without a master and without an rpmsg driver.
NoChild ==
    /\ stage = "populate" /\ ~available
    /\ stage' = "prepared"
    /\ UNCHANGED <<devVars, available, dev, components, master, all_bound, bind_ok, rpmsg, rproc,
                   dangling, removals, gone, oops>>

\* component_master_add_with_match binds at once when every device is there.
MasterAdd ==
    /\ stage = "populate" /\ available
    /\ IF components = Devices
       THEN \E outcome \in BindOutcomes(hw) :
               /\ hw' = outcome.hw
               /\ core_bind(outcome)
               /\ master' = IF outcome.ok THEN "bound" ELSE "none"
               /\ stage' = IF outcome.ok THEN "wait" ELSE "depopulate"
       ELSE /\ master' = "added"
            /\ stage' = "wait"
            /\ UNCHANGED <<hw, all_bound, bind_ok>>
    /\ UNCHANGED <<left, irqs, chain, handler, reply, asked, available, dev, components, rpmsg, rproc,
                   dangling, removals, gone, oops>>

\* -ETIMEDOUT
Timeout ==
    /\ stage = "wait" /\ ~all_bound
    /\ stage' = "master_del"
    /\ UNCHANGED <<devVars, available, dev, components, master, all_bound, bind_ok, rpmsg, rproc,
                   dangling, removals, gone, oops>>

\* bind_status, then register_rpmsg_driver, which may fail.
IgnoresStatus ==
    /\ stage = "wait" /\ all_bound
    /\ stage' = "prepared"
    /\ rpmsg' = TRUE
    /\ UNCHANGED <<devVars, available, dev, components, master, all_bound, bind_ok, rproc,
                   dangling, removals, gone, oops>>
Woken ==
    /\ stage = "wait" /\ all_bound
    /\ \/ bind_ok /\ stage' = "prepared" /\ rpmsg' = TRUE
       \/ stage' = "master_del" /\ UNCHANGED rpmsg
    /\ UNCHANGED <<devVars, available, dev, components, master, all_bound, bind_ok, rproc,
                   dangling, removals, gone, oops>>

MasterDel ==
    /\ stage = "master_del"
    /\ Unbind("none")
    /\ stage' = "depopulate"
    /\ UNCHANGED <<left, irqs, chain, handler, reply, asked, available, dev, components, all_bound,
                   bind_ok, rpmsg, rproc, dangling, removals, gone, oops>>

\* devm_of_platform_depopulate removes the devices.  It waits for one that is
\* being probed or removed already.
LeavesNotifiers ==
    /\ stage = "depopulate"
    /\ \A d \in Devices : dev[d] \notin {"registered", "removing"}
    /\ stage' = "off"
    /\ dev' = [d \in Devices |-> "absent"]
    /\ components' = {}
    /\ chain' = <<>>
    /\ irqs' = {}
    /\ hw' = Put(hw, Probed)
    /\ dangling' = (Probed # {})
    /\ UNCHANGED <<left, handler, reply, asked, available, master, all_bound, bind_ok, rpmsg, rproc,
                   removals, gone, oops>>
Depopulate ==
    /\ stage = "depopulate"
    /\ \A d \in Devices : dev[d] \notin {"registered", "removing"}
    /\ stage' = "off"
    /\ dev' = [d \in Devices |-> "absent"]
    /\ components' = {}
    /\ chain' = <<>>
    /\ irqs' = {}
    /\ hw' = Put(hw, Probed)
    /\ oops' \in {FALSE, dangling /\ Probed # {}}
    /\ UNCHANGED <<left, handler, reply, asked, available, master, all_bound, bind_ok, rpmsg, rproc,
                   dangling, removals, gone>>

--------------------------------------------------------------------------------
(* rproc_srm_core_unprepare.                                               *)

\* unregister_rpmsg_driver waits for the request in hand.
UnregisterRpmsg ==
    /\ stage = "unregister" /\ ~handler.busy
    /\ stage' = "master_del"
    /\ rpmsg' = FALSE
    /\ UNCHANGED <<devVars, available, dev, components, master, all_bound, bind_ok, rproc,
                   dangling, removals, gone, oops>>

--------------------------------------------------------------------------------
(* remoteproc.                                                             *)

\* The firmware is started or attached to, or that fails.
Start ==
    /\ stage = "prepared" /\ rproc # "running" /\ ~gone
    /\ \/ rproc' = "running" /\ UNCHANGED stage
       \/ stage' = "unregister" /\ UNCHANGED rproc
    /\ UNCHANGED <<devVars, available, dev, components, master, all_bound, bind_ok, rpmsg,
                   dangling, removals, gone, oops>>

\* The firmware is stopped, which ends its rpmsg devices first, and the core is
\* asked to unprepare; if it is gone, its memory is used all the same.
Stop ==
    /\ rproc = "running" /\ ~handler.busy
    /\ stage = "prepared" \/ gone
    /\ rproc' = "offline"
    /\ stage' = IF gone THEN stage ELSE "unregister"
    /\ oops' = (gone /\ stage = "off")
    /\ UNCHANGED <<devVars, available, dev, components, master, all_bound, bind_ok, rpmsg, dangling, removals, gone>>

\* A start after the core is gone runs its prepare.
StartGone ==
    /\ gone /\ stage = "off" /\ rproc # "running"
    /\ oops' = TRUE
    /\ UNCHANGED <<devVars, stage, available, dev, components, master, all_bound, bind_ok, rpmsg, rproc,
                   dangling, removals, gone>>

--------------------------------------------------------------------------------
(* Drivers that come and go.                                               *)

\* clocks_get, regus_get or irqs_get fails, and what was got is put.
ProbeFails(d) ==
    /\ dev[d] = "created"
    /\ dev' = [dev EXCEPT ![d] = "failed"]
    /\ UNCHANGED <<devVars, stage, available, components, master, all_bound, bind_ok, rpmsg, rproc,
                   dangling, removals, gone, oops>>

\* early_boot of a device that is probed now.
Attached(h, d) ==
    [h EXCEPT !.early = IF rproc = "detached" THEN @ \cup {d} ELSE @ \ {d}]

\* In early boot the interrupts are left as they are configured.
irqs_get(d) == IF rproc = "detached" THEN irqs ELSE irqs \cup {d}

\* The device gets its resources and registers its notifier, which waits for the
\* request in hand.
Register(d) ==
    /\ dev[d] = "created" /\ ~handler.busy /\ ~dangling
    /\ dev' = [dev EXCEPT ![d] = "registered"]
    /\ chain' = Append(chain, d)
    /\ irqs' = irqs_get(d)
    /\ hw' = Attached(hw, d)
    /\ UNCHANGED <<left, handler, reply, asked, stage, available, components, master, all_bound, bind_ok,
                   rpmsg, rproc, dangling, removals, gone, oops>>

\* component_add, which binds all devices when the last one comes.  When that
\* fails the probe does, and the device is freed with its notifier on the chain
\* (and maybe with a request in hand).
ComponentAdd(d) ==
    /\ dev[d] = "registered"
    /\ \/ /\ master # "added" \/ components \cup {d} # Devices
          /\ dev' = [dev EXCEPT ![d] = "probed"]
          /\ components' = components \cup {d}
          /\ UNCHANGED <<hw, irqs, chain, master, all_bound, bind_ok, dangling, oops>>
       \/ /\ master = "added" /\ components \cup {d} = Devices
          /\ \E outcome \in BindOutcomes(Overlapping(hw)) :
                /\ core_bind(outcome)
                /\ \/ /\ outcome.ok
                      /\ dev' = [dev EXCEPT ![d] = "probed"]
                      /\ components' = components \cup {d}
                      /\ hw' = outcome.hw
                      /\ master' = "bound"
                      /\ UNCHANGED <<irqs, chain, dangling, oops>>
                   \/ /\ ~outcome.ok
                      /\ dev' = [dev EXCEPT ![d] = "failed"]
                      /\ hw' = Fault(Put(outcome.hw, {d}), "late bind")
                      /\ irqs' = irqs \ {d}
                      /\ Unlink(d)
                      /\ dangling' = TRUE
                      /\ oops' = (handler.busy /\ handler.regu \in RegusOf({d}))
                      /\ UNCHANGED <<components, master>>
    /\ UNCHANGED <<left, handler, reply, asked, stage, available, rpmsg, rproc, removals, gone>>

\* The chain is walked to register on it, or to find who answers a request.
WalkFreed ==
    /\ dangling
    /\ \/ \E d \in Devices : dev[d] = "created"
       \/ rpmsg /\ rproc = "running" /\ ~handler.busy
    /\ oops' = TRUE
    /\ UNCHANGED <<devVars, stage, available, dev, components, master, all_bound, bind_ok, rpmsg, rproc,
                   dangling, removals, gone>>

\* rproc_srm_dev_remove by hand: component_del unbinds every device, then the
\* notifier is unregistered, which waits for the request in hand, and the
\* resources are put.  The device may be probed again.
RemoveBegin(d) ==
    /\ removals < MaxRemovals
    /\ removals' = removals + 1
    /\ dev[d] = "probed"
    /\ dev' = [dev EXCEPT ![d] = "removing"]
    /\ components' = components \ {d}
    /\ LET h == Fault(hw, "removal")
       IN  \E stuck \in SUBSET RegusOf(Devices) :
              hw' = IF master = "bound" THEN Unbound(Overlapping(h), Devices, stuck) ELSE h
    /\ master' = IF master = "bound" THEN "added" ELSE master
    /\ UNCHANGED <<left, irqs, chain, handler, reply, asked, stage, available, all_bound, bind_ok, rpmsg, rproc,
                   dangling, gone, oops>>

RemoveEnd(d) ==
    /\ dev[d] = "removing" /\ ~handler.busy
    /\ dev' = [dev EXCEPT ![d] = "created"]
    /\ Unlink(d)
    /\ hw' = Put(hw, {d})
    /\ irqs' = irqs \ {d}
    /\ oops' \in {FALSE, dangling}
    /\ UNCHANGED <<left, handler, reply, asked, stage, available, components, master, all_bound, bind_ok,
                   rpmsg, rproc, dangling, removals, gone>>

\* rproc_srm_core_remove: unprepare, if prepared.  remoteproc keeps the
\* subdevice, and does not wait for the removal.
RemoveCore ==
    /\ removals < MaxRemovals /\ ~gone
    /\ removals' = removals + 1
    /\ gone' = TRUE
    /\ hw' = Fault(hw, "core removal")
    /\ oops' = (stage \notin {"off", "prepared"})
    /\ stage' = IF stage = "prepared" THEN "unregister" ELSE stage
    /\ UNCHANGED <<left, irqs, chain, handler, reply, asked, available, dev, components, master, all_bound,
                   bind_ok, rpmsg, rproc, dangling>>

\* A request from the remote processor, or the rest of the one in hand.
Request ==
    /\ Handle
    /\ handler.busy \/ (rpmsg /\ rproc = "running" /\ ~dangling)
    /\ UNCHANGED coreVars

--------------------------------------------------------------------------------
CoreStep == NoChild \/ MasterAdd \/ Timeout \/ Woken \/ MasterDel \/ Depopulate \/ UnregisterRpmsg

SrmNext ==
    /\ ~oops
    /\ \/ Populate \/ CoreStep \/ Start \/ Stop \/ StartGone \/ RemoveCore \/ Request \/ WalkFreed
       \/ \E d \in Devices : ProbeFails(d) \/ Register(d) \/ ComponentAdd(d) \/ RemoveBegin(d) \/ RemoveEnd(d)

SrmSpec == SrmInit /\ [][SrmNext]_allVars

--------------------------------------------------------------------------------
(* Correctness.                                                            *)

Faulty(F) == hw.faults \cap F # {}

\* Every variable holds a value of its type.
SrmTypeOK ==
    /\ hw.on \subseteq Resources /\ hw.leaked \subseteq Resources /\ hw.early \subseteq Devices
    /\ hw.use \in [Resources -> Nat]
    /\ left \subseteq RegusOf(Devices)
    /\ irqs \subseteq Devices
    /\ chain \in Seq(Devices) /\ IsInjective(chain)
    /\ stage \in {"off", "populate", "wait", "prepared", "unregister", "master_del", "depopulate"}
    /\ dev \in [Devices -> {"absent", "created", "registered", "probed", "failed", "removing"}]
    /\ components \subseteq Devices
    /\ master \in {"none", "added", "bound"}
    /\ rproc \in {"detached", "offline", "running"}
    /\ {available, all_bound, bind_ok, rpmsg, dangling, gone, oops} \subseteq BOOLEAN
    /\ removals \in 0 .. MaxRemovals

\* When remoteproc is done with the core, or prepare has failed at whatever
\* step, nothing is bound, registered or probed any more.  Clock parents are off
\* unless a bind failed after switching them on (rproc_srm_dev_bind), regulators
\* unless one could not be disabled or a device was removed under the feet of a
\* request.
ReleasedWhenOff ==
    stage = "off" /\ ~oops =>
        /\ master = "none" /\ components = {} /\ chain = <<>> /\ irqs = {}
        /\ ~rpmsg /\ ~handler.busy
        /\ \A r \in Resources : hw.use[r] = 0
        /\ hw.leaked \cap ClocksOf(Devices) # {} => Faulty({"bind"})
        /\ hw.leaked \cap RegusOf(Devices) # {} => Faulty({"stuck", "removal"})

\* No regulator is disabled more often than it was enabled, and the enabled flag
\* says what is enabled, whatever order binds, unbinds, removals, probes and requests
\* come in: until one of the request's own reads is overtaken, when a device is
\* removed, or is the last to come back, between its test of the flag and its switch
\* (regu_set_cfg).
FlagsMatchUse ==
    ~Faulty({"overlap"}) =>
        /\ ~Faulty({"unbalanced"})
        /\ \A r \in Resources : hw.use[r] = IF r \in hw.on THEN 1 ELSE 0

\* A remote processor that runs has the parents of its clocks on, and the
\* regulators it was not found without and did not switch itself.
RunsWithResources ==
    rproc = "running" /\ available /\ ~Faulty({"removal", "core removal"}) =>
        /\ master = "bound" /\ rpmsg
        /\ ClocksOf(Devices) \subseteq hw.on
        /\ RegusOf(Devices \ hw.early) \ hw.on \subseteq {r \in RegusOf(Devices) : <<r, FALSE>> \in asked}

\* Attaching to a running firmware switches on no regulator that was off, and
\* takes no interrupt: only a request does (regus_setup, irqs_get).
EarlyBootSyncs ==
    /\ \A r \in RegusOf(hw.early) \ left :
          hw.use[r] > 0 => <<r, TRUE>> \in asked \/ r \in hw.leaked
    /\ irqs \cap hw.early = {}

\* Memory is used after it was freed only when the last device's bind failed in
\* its own probe (rproc_srm_dev_probe), or after the core was removed by hand
\* (rproc_srm_core_remove).
FreedIsUnused == oops => Faulty({"late bind", "core removal"})
================================================================================
