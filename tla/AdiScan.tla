------------------------------- MODULE AdiScan -------------------------------
(***************************************************************************)
(* The scan that turns a debug link into targets (adiv5_swdp.c,            *)
(* adiv5_jtagdp.c, adiv5.c): debug ports are found one after another, the  *)
(* access ports of each are probed, and the targets that are found share   *)
(* them.  A debug port counts the access ports that use it, an access port *)
(* counts its targets and the scan itself; each is freed with its last     *)
(* user, and nothing else ever frees one.                                  *)
(***************************************************************************)
EXTENDS Integers, Sequences, FiniteSets

CONSTANTS
    DebugPorts,   \* instances that a scan addresses
    AccessPorts,  \* numbers apsel takes
    MaxInvalid,   \* access ports in a row without an answer that end the search
    MaxProbed     \* bound on the targets of one access port

ASSUME ScanAssumption ==
    {DebugPorts, AccessPorts, MaxInvalid, MaxProbed} \subseteq Nat

VARIABLES
    spc,       \* "idle", "freed", "ports", "init", "aps", "probe"
    instance, apsel, invalid,   \* the loops of the scan
    dps,       \* debug ports allocated so far: how many users, -1 when freed
    aps,       \* access ports allocated so far: the same, and their debug port
    targets,   \* target_list: kind of target, its access port, whether it is halted
    halted,    \* cortexm_prepare halted the core of the access port being probed
    lost,      \* an exception left the scan, or a Cortex-A kept its access port
    connect_assert_nrst,  \* whether to connect under reset
    under_reset           \* what that was as the scan began

resetVars == <<connect_assert_nrst, under_reset>>
scanVars == <<spc, instance, apsel, invalid, dps, aps, targets, halted, lost, resetVars>>

Kinds == {"cortexm", "cortexa", "recovery"}

ScanInit ==
    /\ spc = "idle"
    /\ instance = 0 /\ apsel = 0 /\ invalid = 0
    /\ dps = <<>> /\ aps = <<>> /\ targets = <<>>
    /\ halted = FALSE /\ lost = FALSE
    /\ connect_assert_nrst = FALSE /\ under_reset = FALSE

Dp == Len(dps)     \* the one being initialised
Ap == Len(aps)     \* the one being probed

---------------------------------------------------------------------------
(* Reference counts.                                                       *)

Dropped(ref, n) == IF n = 0 THEN ref ELSE IF ref = n THEN -1 ELSE ref - n

UnrefApsKeepDp(count) ==     \* mutant: an access port does not release its debug port
    /\ aps' = [a \in DOMAIN aps |-> [aps[a] EXCEPT !.ref = Dropped(@, count[a])]]
    /\ dps' = dps

\* adiv5_ap_unref, count[a] times for each access port a.
UnrefAps(count) ==
    /\ aps' = [a \in DOMAIN aps |-> [aps[a] EXCEPT !.ref = Dropped(@, count[a])]]
    /\ dps' = [d \in DOMAIN dps |->
                 Dropped(dps[d], Cardinality({a \in DOMAIN aps :
                            aps[a].dp = d /\ aps[a].ref # -1 /\ aps'[a].ref = -1}))]

\* The priv_free of a target drops its access port, that of a Cortex-A is free().
Releases == [a \in DOMAIN aps |->
               Cardinality({t \in DOMAIN targets : targets[t].ap = a /\ targets[t].kind # "cortexa"})]

\* target_list_free
FreeTargets ==
    /\ UnrefAps(Releases)
    /\ targets' = <<>>
    /\ lost' = (lost \/ \E t \in DOMAIN targets : targets[t].kind = "cortexa")

---------------------------------------------------------------------------
(* adiv5_swdp_scan; jtag_scan calls adiv5_jtag_dp_handler likewise.        *)

\* A command between scans; BMDA takes it from its command line.
cmd_connect_reset ==
    /\ spc = "idle"
    /\ connect_assert_nrst' = ~connect_assert_nrst
    /\ UNCHANGED <<spc, instance, apsel, invalid, dps, aps, targets, halted, lost, under_reset>>

ScanStart ==
    /\ spc = "idle"
    /\ FreeTargets
    /\ spc' = "freed"
    /\ UNCHANGED <<instance, apsel, invalid, halted, resetVars>>

\* What is still allocated then is out of reach for good: the model forgets it.
ScanBegin ==
    /\ spc = "freed"
    /\ spc' = "ports" /\ instance' = 0 /\ apsel' = 0 /\ invalid' = 0
    /\ dps' = <<>> /\ aps' = <<>> /\ lost' = FALSE
    /\ under_reset' = connect_assert_nrst
    /\ UNCHANGED <<targets, halted, connect_assert_nrst>>

NextPort ==
    /\ instance' = instance + 1
    /\ spc' = IF instance + 1 = DebugPorts THEN "idle" ELSE "ports"

\* No debug port answers for this instance.
PortAbsent ==
    /\ spc = "ports"
    /\ NextPort
    /\ UNCHANGED <<apsel, invalid, dps, aps, targets, halted, lost, resetVars>>

PortFound ==
    /\ spc = "ports"
    /\ dps' = Append(dps, 0)
    /\ spc' = "init"
    /\ UNCHANGED <<instance, apsel, invalid, aps, targets, halted, lost, resetVars>>

---------------------------------------------------------------------------
(* adiv5_dp_init.                                                          *)

\* DPIDR cannot be read, or debug power does not come up.
PortDead ==
    /\ spc = "init"
    /\ dps' = [dps EXCEPT ![Dp] = -1]
    /\ NextPort
    /\ UNCHANGED <<apsel, invalid, aps, targets, halted, lost, resetVars>>

\* rp_rescue_setup: an access port that only its target refers to.
PortRescue ==
    /\ spc = "init"
    /\ aps' = Append(aps, [dp |-> Dp, ref |-> 1])
    /\ dps' = [dps EXCEPT ![Dp] = @ + 1]
    /\ targets' = Append(targets, [kind |-> "recovery", ap |-> Ap + 1, halted |-> FALSE])
    /\ NextPort
    /\ UNCHANGED <<apsel, invalid, halted, lost, resetVars>>

PortReady ==
    /\ spc = "init"
    /\ dps' = [dps EXCEPT ![Dp] = @ + 1]
    /\ spc' = "aps" /\ apsel' = 0 /\ invalid' = 0
    /\ UNCHANGED <<instance, aps, targets, halted, lost, resetVars>>

More == apsel < AccessPorts /\ invalid < MaxInvalid

\* adiv5_new_ap gives NULL.
ApAbsent ==
    /\ spc = "aps" /\ More
    /\ invalid' = invalid + 1 /\ apsel' = apsel + 1
    /\ UNCHANGED <<spc, instance, dps, aps, targets, halted, lost, resetVars>>

\* adiv5_new_ap, and cortexm_prepare for the first access port.
ApFound ==
    /\ spc = "aps" /\ More
    /\ aps' = Append(aps, [dp |-> Dp, ref |-> 1])
    /\ dps' = [dps EXCEPT ![Dp] = @ + 1]
    /\ halted' \in {FALSE, apsel = 0}
    /\ spc' = "probe"
    /\ UNCHANGED <<instance, apsel, invalid, targets, lost, resetVars>>

\* kinetis_mdm_probe and its like, then adiv5_component_probe: any of them may
\* add a target, and the components of one access port several.
Probe(kind) ==
    /\ spc = "probe"
    /\ Cardinality({t \in DOMAIN targets : targets[t].ap = Ap}) < MaxProbed
    /\ targets' = Append(targets, [kind |-> kind, ap |-> Ap, halted |-> halted /\ kind = "cortexm"])
    /\ aps' = [aps EXCEPT ![Ap].ref = @ + 1]
    /\ UNCHANGED <<spc, instance, apsel, invalid, dps, halted, lost, resetVars>>

\* The Cortex-M found are resumed, unless they are connected to under reset, and the
\* scan drops the access port.
Resumed(t) == targets[t].ap = Ap /\ targets[t].kind = "cortexm" /\ ~connect_assert_nrst
ApDone ==
    /\ spc = "probe"
    /\ targets' = [t \in DOMAIN targets |->
                     IF Resumed(t) THEN [targets[t] EXCEPT !.halted = FALSE] ELSE targets[t]]
    /\ UnrefAps([a \in DOMAIN aps |-> IF a = Ap THEN 1 ELSE 0])
    /\ apsel' = apsel + 1 /\ halted' = FALSE
    /\ spc' = "aps"
    /\ UNCHANGED <<instance, invalid, lost, resetVars>>

PortDone ==
    /\ spc = "aps" /\ ~More
    /\ dps' = [dps EXCEPT ![Dp] = Dropped(@, 1)]
    /\ NextPort
    /\ UNCHANGED <<apsel, invalid, aps, targets, halted, lost, resetVars>>

\* A link error raises an exception that the scan command catches.
ScanRaises ==
    /\ spc \in {"init", "aps", "probe"}
    /\ spc' = "idle" /\ lost' = TRUE /\ halted' = FALSE
    /\ UNCHANGED <<instance, apsel, invalid, dps, aps, targets, resetVars>>

\* After an exception in the command loop.
FreeList ==
    /\ spc = "idle" /\ targets # <<>>
    /\ FreeTargets
    /\ UNCHANGED <<spc, instance, apsel, invalid, halted, resetVars>>

ScanNext ==
    \/ ScanStart \/ ScanBegin \/ PortAbsent \/ PortFound \/ PortDead \/ PortRescue \/ PortReady
    \/ ApAbsent \/ ApFound \/ (\E k \in Kinds : Probe(k)) \/ ApDone \/ PortDone
    \/ ScanRaises \/ FreeList \/ cmd_connect_reset

ScanSpec == ScanInit /\ [][ScanNext]_scanVars

---------------------------------------------------------------------------
ScanTypeOK ==
    /\ spc \in {"idle", "freed", "ports", "init", "aps", "probe"}
    /\ instance \in 0..DebugPorts /\ apsel \in 0..AccessPorts /\ invalid \in 0..MaxInvalid
    /\ \A d \in DOMAIN dps : dps[d] \in -1..(AccessPorts + 1)
    /\ \A a \in DOMAIN aps : aps[a].dp \in DOMAIN dps /\ aps[a].ref \in -1..(MaxProbed + 1)
    /\ \A t \in DOMAIN targets : targets[t].kind \in Kinds /\ targets[t].ap \in DOMAIN aps

\* Nothing that a target or the running scan still reaches has been freed: the
\* access port of a target, and the debug port of that, live as long as it is
\* on the list, whichever other ports came and went.
NothingFreedInUse ==
    /\ \A t \in DOMAIN targets : aps[targets[t].ap].ref > 0
    /\ \A a \in DOMAIN aps : aps[a].ref > 0 => dps[aps[a].dp] > 0
    /\ spc = "probe" => aps[Ap].ref > 0
    /\ spc \in {"init", "aps", "probe"} => dps[Dp] >= 0

\* Every port is freed once its last target is gone: between scans the ports
\* that are left are those of the targets, unless an exception broke a scan off
\* or a Cortex-A target was released.
NothingLeaks ==
    spc \in {"idle", "freed"} /\ ~lost =>
        LET used == {targets[t].ap : t \in DOMAIN targets}
        IN /\ {a \in DOMAIN aps : aps[a].ref >= 0} = used
           /\ {d \in DOMAIN dps : dps[d] >= 0} = {aps[a].dp : a \in used}

\* The reference counts keep a port exactly as long as something reaches it.
PortsExact == NothingFreedInUse /\ NothingLeaks

\* A scan leaves no core halted that it made a target of, unless it broke off or was
\* to connect under reset: then the cores stay as cortexm_prepare left them.
CoresRun == spc = "idle" /\ ~lost /\ ~under_reset => \A t \in DOMAIN targets : ~targets[t].halted

\* After any sequence of scans, in which ports fail or raise at any place, what is
\* allocated is what the targets use, and no core is left halted that was not to be
\* connected to under reset.
ScanExact == PortsExact /\ CoresRun

=============================================================================
