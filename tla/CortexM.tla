------------------------------ MODULE CortexM ------------------------------
(***************************************************************************)
(* Run control of a Cortex-M target (target/cortexm.c): attach and detach, *)
(* halt requests, resume and single step, the poll that finds out why the  *)
(* core stopped, reset, flash stubs, and the hardware breakpoints and      *)
(* watchpoints with the list of target.c behind GDB's Z and z packets.     *)
(*                                                                         *)
(* The core is external: it executes Code, obeys DHCSR, stops at its       *)
(* comparators and records why in DFSR.  C_MASKINTS follows the            *)
(* architecture: a write that changes it takes effect for certain only if  *)
(* C_HALT was 1 before the write and is written as 1.                      *)
(***************************************************************************)
EXTENDS Integers, Sequences, FiniteSets, FiniteSetsExt

CONSTANTS
    Code,            \* the instructions: "plain", "bkpt", "hostio" (0xbeab), "stub", "exit"
    BreakMax,        \* hw_breakpoint_max
    WatchMax,        \* hw_watchpoint_max
    Places,          \* what GDB sets: records of type "break" or "watch" and address
    MaxList          \* bound on the entries of bw_list

Addrs == DOMAIN Code

ASSUME CortexMAssumption ==
    /\ {BreakMax, WatchMax, MaxList} \subseteq Nat
    /\ Addrs \subseteq Nat /\ Places \subseteq [type : {"break", "watch"}, addr : Addrs]

VARIABLES
    attached,
    stepping, on_bkpt,           \* cortexm_priv_s
    hw_breakpoint, hw_watchpoint,
    bw_list,                     \* of target_s, newest first
    dhcsr, halted, dfsr, pc,     \* the core
    fpb, dwt,                    \* its comparators: an address or Off
    cpc,                         \* what the probe does: "idle", "polling", "flash", "stub"
    told,                        \* the last stop that was reported: reason, and the events behind it
    hits,                        \* why the core stopped, since it was last resumed or reported
    inserted,                    \* what GDB has set in this session
    stub                         \* the last stub: what its caller made of it, and how it ended

probeVars == <<attached, stepping, on_bkpt>>
slotVars == <<hw_breakpoint, hw_watchpoint, bw_list, fpb, dwt, inserted>>
coreVars == <<dhcsr, halted, dfsr, pc>>
coreMVars == <<probeVars, slotVars, coreVars, cpc, told, hits, stub>>

Off == -1
Slots(type) == 0..((IF type = "break" THEN BreakMax ELSE WatchMax) - 1)
Cleared(type) == [i \in Slots(type) |-> Off]
AllFree(type) == [i \in Slots(type) |-> FALSE]

---------------------------------------------------------------------------
\* Values of DHCSR.
Bits(debugen, halt, step) == [debugen |-> debugen, halt |-> halt, step |-> step, maskints |-> step]
Halting == Bits(TRUE, TRUE, FALSE)

\* The values DHCSR may have after each of its values in regs was overwritten.
Written(regs, new) ==
    UNION {IF old.maskints = new.maskints \/ (old.halt /\ new.halt) THEN {new}
           ELSE {new, [new EXCEPT !.maskints = old.maskints]} : old \in regs}

Nothing == [reason |-> "running", why |-> {}]
NoStub == [ok |-> FALSE, exited |-> FALSE]

CoreInit ==
    /\ attached = FALSE /\ stepping = FALSE /\ on_bkpt = FALSE
    /\ hw_breakpoint = AllFree("break") /\ hw_watchpoint = AllFree("watch")
    /\ bw_list = <<>>
    /\ dhcsr = Bits(FALSE, FALSE, FALSE) /\ halted = FALSE /\ dfsr = {} /\ pc = 0
    /\ fpb = Cleared("break") /\ dwt = Cleared("watch")
    /\ cpc = "idle" /\ told = Nothing /\ hits = {} /\ inserted = {}
    /\ stub = NoStub

---------------------------------------------------------------------------
\* cortexm_attach; the comparators and their records are cleared, the list of
\* break- and watchpoints is not.
Attach ==
    /\ ~attached
    /\ attached' = TRUE
    /\ dhcsr' \in Written({dhcsr}, Halting)
    /\ dfsr' = {}
    /\ fpb' = Cleared("break") /\ hw_breakpoint' = AllFree("break")
    /\ dwt' = Cleared("watch") /\ hw_watchpoint' = AllFree("watch")
    /\ inserted' = {}
    /\ hits' = {}
    /\ UNCHANGED <<stepping, on_bkpt, bw_list, halted, pc, cpc, told, stub>>

\* The writes to DHCSR that end cortexm_detach.
Released == Written(Written(Written({dhcsr}, Halting), Bits(TRUE, FALSE, FALSE)), Bits(FALSE, FALSE, FALSE))

\* cortexm_detach, of a target that the session believes halted.
Detach ==
    /\ attached /\ cpc \in {"idle", "flash"}
    /\ attached' = FALSE
    /\ cpc' = "idle"
    /\ fpb' = Cleared("break") /\ dwt' = Cleared("watch")
    /\ dhcsr' \in Released
    /\ halted' = FALSE
    /\ UNCHANGED <<stepping, on_bkpt, hw_breakpoint, hw_watchpoint, bw_list, inserted, dfsr, pc, told, hits, stub>>

---------------------------------------------------------------------------
Used(type) == IF type = "break" THEN hw_breakpoint ELSE hw_watchpoint

\* The first comparator that is not in use.
Free(type) == {i \in Slots(type) : ~Used(type)[i]}
FirstFree(type) == Min(Free(type))

\* cortexm_breakwatch_set and _clear: the record and the comparator.
Assign(type, i, inUse, value) ==
    IF type = "break"
    THEN /\ hw_breakpoint' = [hw_breakpoint EXCEPT ![i] = inUse]
         /\ fpb' = [fpb EXCEPT ![i] = value]
         /\ UNCHANGED <<hw_watchpoint, dwt>>
    ELSE /\ hw_watchpoint' = [hw_watchpoint EXCEPT ![i] = inUse]
         /\ dwt' = [dwt EXCEPT ![i] = value]
         /\ UNCHANGED <<hw_breakpoint, fpb>>

\* A Z packet: target_breakwatch_set.  Without a free comparator GDB is told so.
SetPlace(place) ==
    /\ attached /\ cpc = "idle"
    /\ place \notin inserted
    /\ Free(place.type) # {} /\ Len(bw_list) < MaxList
    /\ LET i == FirstFree(place.type)
       IN /\ Assign(place.type, i, TRUE, place.addr)
          /\ bw_list' = <<[place |-> place, reserved |-> i]>> \o bw_list
    /\ inserted' = inserted \cup {place}
    /\ UNCHANGED <<probeVars, coreVars, cpc, told, hits, stub>>

Matching(place) == {k \in DOMAIN bw_list : bw_list[k].place = place}

EntryOldest(place) == Max(Matching(place))    \* mutant: the oldest entry

\* The entry that a z packet removes: the newest that matches.
Entry(place) == Min(Matching(place))

Unlinked(k) == SubSeq(bw_list, 1, k - 1) \o SubSeq(bw_list, k + 1, Len(bw_list))

\* A z packet: target_breakwatch_clear.
ClearPlace(place) ==
    /\ attached /\ cpc = "idle"
    /\ place \in inserted
    /\ Matching(place) # {}
    /\ Assign(place.type, bw_list[Entry(place)].reserved, FALSE, Off)
    /\ bw_list' = Unlinked(Entry(place))
    /\ inserted' = inserted \ {place}
    /\ UNCHANGED <<probeVars, coreVars, cpc, told, hits, stub>>

---------------------------------------------------------------------------
\* cortexm_halt_request: also from GDB's Ctrl-C.
HaltRequest ==
    /\ attached /\ cpc = "polling" /\ ~dhcsr.halt
    /\ dhcsr' \in Written({dhcsr}, Halting)
    /\ UNCHANGED <<probeVars, slotVars, halted, dfsr, pc, cpc, told, hits, stub>>

After(a) == IF a + 1 \in Addrs /\ Code[a + 1] # "stub" THEN a + 1 ELSE 0

\* The pc that cortexm_halt_resume resumes at.
ResumePc(at, onBkpt) == IF onBkpt /\ Code[at] \in {"bkpt", "hostio", "exit"} THEN After(at) ELSE at

ResumedAtOnce(step) == Written({dhcsr}, Bits(TRUE, FALSE, step))    \* mutant: no write with C_HALT first

\* The writes to DHCSR of cortexm_halt_resume: C_MASKINTS first, when the mode changes.
Resumed(step) ==
    LET mode == Bits(TRUE, FALSE, step)
        first == IF step # stepping THEN Written({dhcsr}, [mode EXCEPT !.halt = TRUE]) ELSE {dhcsr}
    IN Written(first, mode)

\* cortexm_halt_resume of a core that is halted at an address.
ResumeAt(at, onBkpt, step) ==
    /\ dhcsr' \in Resumed(step)
    /\ stepping' = step
    /\ pc' = ResumePc(at, onBkpt)
    /\ halted' = FALSE
    /\ hits' = {}

\* The packets c, s and vCont; a packet takes much longer than a core to halt.
Resume(step) ==
    /\ attached /\ cpc = "idle" /\ halted
    /\ ResumeAt(pc, on_bkpt, step)
    /\ cpc' = "polling"
    /\ told' = Nothing
    /\ UNCHANGED <<attached, on_bkpt, slotVars, dfsr, stub>>

\* The packet ? polls a target that nobody has resumed.
Query ==
    /\ attached /\ cpc = "idle"
    /\ cpc' = "polling"
    /\ UNCHANGED <<probeVars, slotVars, coreVars, told, hits, stub>>

\* What cortexm_halt_poll makes of DFSR.
Reason ==
    CASE "dwt" \in dfsr -> "watchpoint"
      [] "dwt" \notin dfsr /\ "bkpt" \in dfsr -> "breakpoint"
      [] dfsr \cap {"dwt", "bkpt"} = {} /\ "halted" \in dfsr -> IF stepping THEN "step" ELSE "request"
      [] OTHER -> "breakpoint"

ClearDfsrForgotten == UNCHANGED dfsr    \* mutant

\* DFSR is written back, which clears it.
ClearDfsr == dfsr' = {}

\* The core: where an instruction leads to, and what stops it there.
Succ(a) == IF Code[a] = "stub" THEN {a, a + 1} ELSE {After(a)}
TrapsAt(a) == (\E i \in Slots("break") : fpb[i] = a) \/ Code[a] \in {"bkpt", "hostio", "exit"}
Watched == \E i \in Slots("watch") : dwt[i] # Off

\* How a step from an address may end.
StepEnds(a) ==
    {[why |-> {"vcatch"}, pc |-> a]}
    \cup (IF TrapsAt(a) THEN {[why |-> {"bkpt"}, pc |-> a]}
          ELSE [why : {{"halted"}} \cup (IF Watched THEN {{"dwt", "halted"}} ELSE {}), pc : Succ(a)])

\* What a stop means to the caller: the session tells GDB, a stub's caller gets
\* true for a stub_exit of another code than 0 and false for everything else,
\* and compares it with 0.
StubExitCode == 0
StubValue(why) == why = "breakpoint" /\ Code[pc] = "exit" /\ StubExitCode # 0
Report(why) ==
    /\ hits' = {}
    /\ \/ /\ cpc = "polling"
          /\ cpc' = "idle"
          /\ told' = [reason |-> why, why |-> hits]
          /\ UNCHANGED stub
       \/ /\ cpc = "stub"
          /\ cpc' = "flash"
          /\ stub' = [ok |-> ~StubValue(why), exited |-> why = "breakpoint" /\ Code[pc] = "exit"]
          /\ UNCHANGED told

Polls == attached /\ cpc \in {"polling", "stub"} /\ halted

\* cortexm_halt_poll when cortexm_fault_unwind restores the state before the
\* exception: on_bkpt keeps its value.
PollFault ==
    /\ Polls
    /\ "vcatch" \in dfsr
    /\ ClearDfsr
    /\ Report("fault")
    /\ UNCHANGED <<probeVars, slotVars, dhcsr, halted, pc>>

\* cortexm_halt_poll of a semihosting call that is done: the core goes on.
PollSyscall ==
    /\ Polls
    /\ "bkpt" \in dfsr /\ Code[pc] = "hostio"
    /\ ClearDfsr
    /\ on_bkpt' = TRUE
    /\ ResumeAt(pc, TRUE, stepping)
    /\ UNCHANGED <<attached, slotVars, cpc, told, stub>>

\* ... of SYS_EXIT: the request steps the core over the call and then writes back
\* the registers it began with, the program counter among them; the poll steps it
\* again, by the same instruction, long before anybody polls it again.
Stepped(regs) == {[r EXCEPT !.halt = TRUE] : r \in regs}
PollExit ==
    /\ Polls
    /\ "bkpt" \in dfsr /\ Code[pc] = "hostio"
    /\ on_bkpt' = TRUE /\ stepping' = TRUE
    /\ dhcsr' \in Stepped(Written(Stepped(Resumed(TRUE)), Bits(TRUE, FALSE, TRUE)))
    /\ halted' = TRUE
    /\ \E end \in StepEnds(After(pc)) : dfsr' = end.why /\ hits' = end.why /\ pc' = end.pc
    /\ UNCHANGED <<attached, slotVars, cpc, told, stub>>

\* ... and of one that GDB interrupted.
PollInterrupted ==
    /\ Polls
    /\ "bkpt" \in dfsr /\ Code[pc] = "hostio"
    /\ ClearDfsr
    /\ on_bkpt' = TRUE
    /\ Report("request")
    /\ UNCHANGED <<attached, stepping, slotVars, dhcsr, halted, pc>>

\* Every other stop, a vector catch that is not unwound included.
PollStopped ==
    /\ Polls
    /\ ~("bkpt" \in dfsr /\ Code[pc] = "hostio")
    /\ ClearDfsr
    /\ on_bkpt' = ("bkpt" \in dfsr)
    /\ Report(Reason)
    /\ UNCHANGED <<attached, stepping, slotVars, dhcsr, halted, pc>>

\* cortexm_reset: the core stops at the reset vector, because of vector catch.
\* Without callbacks of the driver a reset begins and ends the flash mode, too.
Reset ==
    /\ attached /\ cpc \in {"idle", "flash"}
    /\ cpc' \in {"idle", "flash"}
    /\ pc' = 0 /\ halted' = TRUE
    /\ dhcsr' = [dhcsr EXCEPT !.halt = TRUE]
    /\ dfsr' = {} /\ hits' = {}
    /\ told' = Nothing /\ stub' = NoStub
    /\ UNCHANGED <<probeVars, slotVars>>

---------------------------------------------------------------------------
\* cortexm_run_stub; GDB keeps nothing inserted while it programs the flash.
StubEntry == CHOOSE a \in Addrs : Code[a] = "stub"

StubStart ==
    /\ attached /\ cpc = "flash" /\ halted
    /\ inserted = {}
    /\ ResumeAt(StubEntry, on_bkpt, FALSE)
    /\ cpc' = "stub"
    /\ UNCHANGED <<attached, on_bkpt, slotVars, dfsr, told, stub>>

\* The registers cannot be written, or the stub does not end in time: false.
StubUnstarted ==
    /\ attached /\ cpc = "flash" /\ halted
    /\ inserted = {}
    /\ stub' = [ok |-> ~StubValue("error"), exited |-> FALSE]
    /\ UNCHANGED <<probeVars, slotVars, coreVars, cpc, told, hits>>

StubTimeout ==
    /\ cpc = "stub"
    /\ dhcsr' \in Written({dhcsr}, Halting)
    /\ cpc' = "flash"
    /\ stub' = [ok |-> ~StubValue("running"), exited |-> FALSE]
    /\ UNCHANGED <<probeVars, slotVars, halted, dfsr, pc, told, hits>>

---------------------------------------------------------------------------
\* The core stops, at an address.
Stop(why, at) ==
    /\ halted' = TRUE
    /\ dhcsr' = [dhcsr EXCEPT !.halt = TRUE]
    /\ dfsr' = dfsr \cup why /\ hits' = hits \cup why
    /\ pc' = at

CoreHitsBreak ==
    /\ ~halted /\ ~dhcsr.halt /\ dhcsr.debugen
    /\ TrapsAt(pc)
    /\ Stop({"bkpt"}, pc)
    /\ UNCHANGED <<probeVars, slotVars, cpc, told, stub>>

CoreExecutes ==
    /\ ~halted /\ ~dhcsr.halt
    /\ dhcsr.debugen => ~TrapsAt(pc)
    /\ \E at \in Succ(pc) :
          \/ ~dhcsr.step /\ pc' = at /\ UNCHANGED <<dhcsr, halted, dfsr, hits>>
          \/ dhcsr.step /\ Stop({"halted"}, at)
          \/ Watched /\ Stop({"dwt"} \cup (IF dhcsr.step THEN {"halted"} ELSE {}), at)
    /\ UNCHANGED <<probeVars, slotVars, cpc, told, stub>>

CoreFaults ==
    /\ ~halted /\ ~dhcsr.halt /\ dhcsr.debugen
    /\ Stop({"vcatch"}, pc)
    /\ UNCHANGED <<probeVars, slotVars, cpc, told, stub>>

\* A request to halt is obeyed before anything else.
CoreObeys ==
    /\ ~halted /\ dhcsr.halt
    /\ Stop({"halted"}, pc)
    /\ UNCHANGED <<probeVars, slotVars, cpc, told, stub>>

CoreNext ==
    \/ Attach \/ Detach \/ HaltRequest \/ Query \/ Reset
    \/ \E place \in Places : SetPlace(place) \/ ClearPlace(place)
    \/ \E step \in BOOLEAN : Resume(step)
    \/ PollFault \/ PollSyscall \/ PollExit \/ PollInterrupted \/ PollStopped
    \/ StubStart \/ StubUnstarted \/ StubTimeout
    \/ CoreHitsBreak \/ CoreExecutes \/ CoreFaults \/ CoreObeys

CoreSpec == CoreInit /\ [][CoreNext]_coreMVars

---------------------------------------------------------------------------
\* The comparators of a unit, with the places of one type.
Exactly(type, comp, used) ==
    LET on == {i \in DOMAIN comp : comp[i] # Off}
    IN /\ {comp[i] : i \in on} = {p.addr : p \in {q \in inserted : q.type = type}}
       /\ \A i, j \in on : comp[i] = comp[j] => i = j
       /\ \A i \in DOMAIN comp : used[i] <=> i \in on

\* While a target is attached its comparators hold exactly the break- and
\* watchpoints that GDB has set in this session, each of them once, and a
\* comparator is free exactly if its record says so: also after sessions that
\* ended without removing theirs, whose entries are still on bw_list.
BreakpointsExact ==
    attached => Exactly("break", fpb, hw_breakpoint) /\ Exactly("watch", dwt, hw_watchpoint)

\* The reason that cortexm_halt_poll gives is one of this stop, not of an
\* earlier one, and a watchpoint is reported as one.
ReasonTrue ==
    /\ told.reason = "watchpoint" => "dwt" \in told.why
    /\ told.reason = "fault" => "vcatch" \in told.why
    /\ "dwt" \in told.why => told.reason = "watchpoint"

\* A core that runs at full speed takes its interrupts, and one that is
\* detached has debug disabled and nothing left in its comparators, after any
\* mix of steps, halts, stubs, resets and sessions.
RunsFree ==
    /\ ~halted /\ ~dhcsr.halt /\ ~dhcsr.step => ~dhcsr.maskints
    /\ ~attached => /\ ~halted /\ dhcsr = Bits(FALSE, FALSE, FALSE)
                    /\ fpb = Cleared("break") /\ dwt = Cleared("watch")

\* "Disable interrupts while single stepping" (cortexm.c:1122).
StepMasked == ~halted /\ ~dhcsr.halt /\ dhcsr.step => dhcsr.maskints

\* A driver's write that succeeds has run its stub to stub_exit: "The stub must
\* call stub_exit(code) provided by stub.h to return control to the debugger"
\* (target/flashstub/README.md:7).
StubFailureSeen == stub.ok => stub.exited

=============================================================================
