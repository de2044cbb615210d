------------------------------ MODULE CortexA ------------------------------
(***************************************************************************)
(* Run control of a Cortex-A target (target/cortexa.c).  The debugger has  *)
(* no access to the registers of this core: it feeds instructions to the   *)
(* halted core, and moves data through r0, r1 and sp, which are the user's *)
(* registers.  What they held is in reg_cache from the poll that finds the *)
(* core halted to the resume that writes it back.  Memory is read, written *)
(* and translated the same way.  The first of the hardware breakpoints     *)
(* does the single steps, too.                                             *)
(*                                                                         *)
(* The core is external.  A value is a pair of where it comes from and a   *)
(* number, so that a value in the wrong register is seen.                  *)
(***************************************************************************)
EXTENDS Integers, Sequences, FiniteSetsExt

CONSTANTS
    HwBreaks,       \* hw_breakpoint_max
    HwWatches,      \* hw_watchpoint_max
    Points,         \* what GDB sets: records of kind ("wide" is a watchpoint of an odd size) and address
    Physical,       \* the physical addresses that the MMU answers with
    MaxPoints       \* bound on the entries of the target's bw_list

ASSUME CortexAAssumption ==
    /\ {HwBreaks, HwWatches} \subseteq Nat \ {0} /\ MaxPoints \in Nat /\ Physical \subseteq Nat
    /\ Points \subseteq [kind : {"hard", "watch", "wide", "soft"}, addr : Nat]

VARIABLES
    a_attached,
    a_doing,        \* what the session does: "idle", "attaching" or "polling"
    reg_cache,      \* cortexa_priv_s
    break_mask, watch_mask, bcr0, mmu_fault,
    a_list,         \* bw_list of target_s, newest first
    regs, in_debug, halt_req, moe,      \* the core: registers, debug state and why it is there
    dbgbcr, dbgwcr,                     \* its comparators: an address (a physical one of a breakpoint), None or Step
    hdbgen,                             \* whether halting debug mode is on
    a_memory,       \* the instructions at the addresses of the points
    truth,          \* what the user's registers hold: as the core stopped, and as GDB wrote them
    a_inserted,     \* what GDB has set in this session
    translated,     \* the physical address of a hard breakpoint that is set, as the MMU answered
    forgotten       \* the soft points nobody will remove: of earlier sessions, or refused too late

a_probeVars == <<a_attached, a_doing, reg_cache, mmu_fault>>
a_pointVars == <<break_mask, watch_mask, bcr0, a_list, dbgbcr, dbgwcr, a_memory, a_inserted, translated, forgotten>>
a_coreVars == <<regs, in_debug, halt_req, moe, hdbgen, truth>>
cortexAVars == <<a_probeVars, a_pointVars, a_coreVars>>

None == -1
Step == -2
Breaks == 0..(HwBreaks - 1)
Watches == 0..(HwWatches - 1)
Soft(points) == {p \in points : p.kind = "soft"}
Registers == {"r0", "r1", "sp", "pc", "cpsr", "fpscr", "dhigh", "dlow"}
Scratch == <<"scratch", 0>>
\* Registers as a program leaves them; a cpsr of 1 is Thumb.
OfUser(thumb, at) == [r \in Registers |->
    <<r, CASE r = "pc" -> at [] r = "cpsr" -> IF thumb THEN 1 ELSE 0 [] OTHER -> 0>>]
Thumb(file) == file.cpsr[2] = 1
ReadAhead(file) == IF Thumb(file) THEN 4 ELSE 8

CortexAInit ==
    /\ a_attached = FALSE /\ a_doing = "idle"
    /\ reg_cache = [r \in Registers |-> Scratch] /\ mmu_fault = FALSE
    /\ break_mask = [i \in Breaks |-> FALSE] /\ watch_mask = [i \in Watches |-> FALSE]
    /\ bcr0 = None /\ a_list = <<>>
    /\ regs = OfUser(FALSE, 0) /\ truth = regs
    /\ in_debug = FALSE /\ halt_req = FALSE /\ moe = "none" /\ hdbgen = FALSE
    /\ dbgbcr = [i \in Breaks |-> None] /\ dbgwcr = [i \in Watches |-> None]
    /\ a_memory = [a \in {p.addr : p \in Points} |-> "code"]
    /\ a_inserted = {} /\ forgotten = {} /\ translated = [a \in DOMAIN a_memory |-> 0]

---------------------------------------------------------------------------
(* Instructions fed to the core. *)

\* write_gpreg: through DBGDTRRX.
write_gpreg(file, r, value) == [file EXCEPT ![r] = value]

\* cortexa_regs_read_internal: r0 to sp first, then what has to go through r0 and r1,
\* and the pc taken back to the instruction it is at.
cortexa_regs_read_internal(file) ==
    LET pc == write_gpreg(file, "r0", <<"pc", file.pc[2] + ReadAhead(file)>>)
        cpsr == write_gpreg(pc, "r0", file.cpsr)
        fpscr == write_gpreg(cpsr, "r0", file.fpscr)
        vfp == write_gpreg(write_gpreg(fpscr, "r0", file.dlow), "r1", file.dhigh)
    IN  [cache |-> [r0 |-> file.r0, r1 |-> file.r1, sp |-> file.sp,
                    pc |-> <<"pc", pc.r0[2] - (IF cpsr.r0[2] = 1 THEN 4 ELSE 8)>>,
                    cpsr |-> cpsr.r0, fpscr |-> fpscr.r0, dhigh |-> vfp.r1, dlow |-> vfp.r0],
         file |-> vfp]

GpFirst(file, cache) ==     \* mutant: the general purpose registers are written back first
    LET gp == [file EXCEPT !.r0 = cache.r0, !.r1 = cache.r1, !.sp = cache.sp]
    IN  [gp EXCEPT !.dhigh = cache.dhigh, !.dlow = cache.dlow, !.fpscr = cache.fpscr,
                   !.cpsr = cache.cpsr, !.pc = cache.pc, !.r1 = cache.dhigh, !.r0 = cache.pc]

\* cortexa_regs_write_internal: the registers that go through r0 and r1, then those.
\* Bit 0 of what is moved to the pc selects Thumb.
cortexa_regs_write_internal(file, cache) ==
    LET pair == write_gpreg(write_gpreg(file, "r1", cache.dhigh), "r0", cache.dlow)
        vfp == [pair EXCEPT !.dhigh = pair.r1, !.dlow = pair.r0]
        fpscr == write_gpreg(vfp, "r0", cache.fpscr)
        cpsr == write_gpreg([fpscr EXCEPT !.fpscr = fpscr.r0], "r0", cache.cpsr)
        pc == write_gpreg([cpsr EXCEPT !.cpsr = cpsr.r0], "r0",
                          <<"pc", cache.pc[2] + (IF Thumb(cache) THEN 1 ELSE 0)>>)
        gone == [pc EXCEPT !.pc = <<"pc", pc.r0[2] - (pc.r0[2] % 2)>>]
    IN  write_gpreg(write_gpreg(write_gpreg(gone, "r0", cache.r0), "r1", cache.r1), "sp", cache.sp)

\* What an access leaves in the registers: cortexa_slow_mem_read and the aligned
\* cortexa_slow_mem_write count r0 up, cortexa_slow_mem_write_bytes sp, with the
\* bytes in r0; va_to_pa translates in r0.
AfterMemRead(file) == write_gpreg(file, "r0", Scratch)
AfterMemWrite(file) == write_gpreg(file, "r0", Scratch)
AfterMemWriteBytes(file) == write_gpreg(write_gpreg(file, "sp", Scratch), "r0", Scratch)
va_to_pa(file) == write_gpreg(file, "r0", Scratch)

---------------------------------------------------------------------------
(* The session's operations. *)

\* cortexa_halt_poll, of a core in debug state: the registers are cached.
Polled ==
    LET read == cortexa_regs_read_internal(regs)
    IN  reg_cache' = read.cache /\ regs' = read.file

\* cortexa_attach.  The halt is requested, and waited for ten polls long; then the
\* breakpoints of the core are cleared, the watchpoints and the list are not.
cortexa_attach ==
    /\ ~a_attached /\ a_doing = "idle"
    /\ a_doing' = "attaching"
    /\ mmu_fault' = FALSE
    /\ hdbgen' = TRUE /\ halt_req' = ~in_debug
    /\ UNCHANGED <<a_attached, reg_cache, a_pointVars, regs, in_debug, moe, truth>>
AttachPolled ==
    /\ a_doing = "attaching" /\ in_debug
    /\ a_doing' = "idle" /\ a_attached' = TRUE
    /\ Polled
    /\ dbgbcr' = [i \in Breaks |-> None] /\ break_mask' = [i \in Breaks |-> FALSE]
    /\ bcr0' = None
    /\ forgotten' = forgotten \cup Soft(a_inserted) /\ a_inserted' = {}
    /\ UNCHANGED <<mmu_fault, watch_mask, a_list, dbgwcr, a_memory, translated, in_debug, halt_req, moe, hdbgen, truth>>
AttachFails ==
    /\ a_doing = "attaching" /\ ~in_debug
    /\ a_doing' = "idle"
    /\ UNCHANGED <<a_attached, reg_cache, mmu_fault, a_pointVars, a_coreVars>>

\* cortexa_detach.
cortexa_detach ==
    /\ a_attached /\ a_doing = "idle"
    /\ a_attached' = FALSE
    /\ dbgbcr' = [i \in Breaks |-> None]
    /\ regs' = cortexa_regs_write_internal(regs, reg_cache)
    /\ hdbgen' = FALSE /\ in_debug' = FALSE /\ moe' = "none"
    /\ translated' = [a \in DOMAIN a_memory |-> 0]
    /\ UNCHANGED <<a_doing, reg_cache, mmu_fault, break_mask, watch_mask, bcr0, a_list, dbgwcr,
                   a_memory, a_inserted, forgotten, halt_req, truth>>

\* GDB reads or writes memory; an access the MMU refuses is flagged, and
\* target_check_error takes the flag.
AccessMemory ==
    /\ a_attached /\ a_doing = "idle"
    /\ regs' \in {AfterMemRead(regs), AfterMemWrite(regs), AfterMemWriteBytes(regs)}
    /\ mmu_fault' = FALSE
    /\ UNCHANGED <<a_attached, a_doing, reg_cache, a_pointVars, in_debug, halt_req, moe, hdbgen, truth>>

\* GDB writes a register (cortexa_reg_write, cortexa_regs_write): into the cache.
WriteRegister(r) ==
    /\ a_attached /\ a_doing = "idle"
    /\ LET value == <<r, 1>>
       IN  reg_cache' = [reg_cache EXCEPT ![r] = value] /\ truth' = [truth EXCEPT ![r] = value]
    /\ UNCHANGED <<a_attached, a_doing, mmu_fault, a_pointVars, regs, in_debug, halt_req, moe, hdbgen>>

FreeBreaks == {i \in Breaks : ~break_mask[i]}
FreeWatches == {i \in Watches : ~watch_mask[i]}

SaveNothing(i, at) == UNCHANGED bcr0      \* mutant: bvr0 and bcr0 are not kept

\* The first breakpoint is kept for when the single steps are over.
SaveFirst(i, at) == bcr0' = IF i = 0 THEN at ELSE bcr0

\* cortexa_breakwatch_set: a comparator, or the instruction in memory.  A comparator
\* gets the physical address; a translation that is refused is flagged, and the page
\* is then whatever PAR holds: the breakpoint counts as set all the same.
HardSet(p) ==
    /\ FreeBreaks # {}
    /\ \E pa \in Physical :
          LET i == Min(FreeBreaks)
          IN /\ break_mask' = [break_mask EXCEPT ![i] = TRUE]
             /\ dbgbcr' = [dbgbcr EXCEPT ![i] = pa]
             /\ SaveFirst(i, pa)
             /\ a_list' = <<[place |-> p, reserved |-> i]>> \o a_list
             /\ translated' = [translated EXCEPT ![p.addr] = pa]
    /\ \E refused \in BOOLEAN : mmu_fault' = (mmu_fault \/ refused)
    /\ regs' = va_to_pa(regs)
    /\ UNCHANGED <<watch_mask, dbgwcr, a_memory, forgotten>>
WatchSet(p) ==
    /\ FreeWatches # {}
    /\ LET i == Min(FreeWatches)
       IN /\ watch_mask' = [watch_mask EXCEPT ![i] = TRUE]
          /\ dbgwcr' = [dbgwcr EXCEPT ![i] = p.addr]
          /\ a_list' = <<[place |-> p, reserved |-> i]>> \o a_list
    /\ UNCHANGED <<break_mask, bcr0, dbgbcr, a_memory, translated, forgotten, mmu_fault, regs>>
\* A size that is not 1, 2 or 4 is refused when the comparator has been taken already.
WideWatchSet ==
    /\ FreeWatches # {}
    /\ watch_mask' = [watch_mask EXCEPT ![Min(FreeWatches)] = TRUE]
    /\ UNCHANGED <<break_mask, bcr0, dbgbcr, dbgwcr, a_memory, translated, forgotten, mmu_fault, regs, a_list>>
\* What was there is kept in reserved.  An error of target_check_error is this access's,
\* or one that translating a hard breakpoint left: then the instruction stays in memory.
SoftSet(p) ==
    /\ \E refused \in BOOLEAN :
          LET failed == refused \/ mmu_fault
          IN /\ a_memory' = IF refused THEN a_memory ELSE [a_memory EXCEPT ![p.addr] = "bkpt"]
             /\ a_list' = IF failed THEN a_list ELSE <<[place |-> p, reserved |-> a_memory[p.addr]]>> \o a_list
             /\ forgotten' = IF failed /\ ~refused THEN forgotten \cup {p} ELSE forgotten
    /\ mmu_fault' = FALSE
    /\ regs' = AfterMemWriteBytes(regs)
    /\ UNCHANGED <<break_mask, bcr0, dbgbcr, watch_mask, dbgwcr, translated>>

\* A Z packet: target_breakwatch_set, which lists what was set.
SetPoint(p) ==
    /\ a_attached /\ a_doing = "idle"
    /\ p \notin a_inserted /\ Len(a_list) < MaxPoints
    /\ CASE p.kind = "hard" -> HardSet(p)
         [] p.kind = "watch" -> WatchSet(p)
         [] p.kind = "wide" -> WideWatchSet
         [] OTHER -> SoftSet(p)
    /\ a_inserted' = IF Len(a_list') > Len(a_list) THEN a_inserted \cup {p} ELSE a_inserted
    /\ UNCHANGED <<a_attached, a_doing, reg_cache, in_debug, halt_req, moe, hdbgen, truth>>

Newest(p) == Min({k \in DOMAIN a_list : a_list[k].place = p})
a_Unlinked(k) == SubSeq(a_list, 1, k - 1) \o SubSeq(a_list, k + 1, Len(a_list))

\* cortexa_breakwatch_clear, of an entry of the list.
HardClear(e) ==
    /\ break_mask' = [break_mask EXCEPT ![e.reserved] = FALSE]
    /\ dbgbcr' = [dbgbcr EXCEPT ![e.reserved] = None]
    /\ bcr0' = IF e.reserved = 0 THEN None ELSE bcr0
    /\ UNCHANGED <<watch_mask, dbgwcr, a_memory, mmu_fault, regs>>
WatchClear(e) ==
    /\ watch_mask' = [watch_mask EXCEPT ![e.reserved] = FALSE]
    /\ dbgwcr' = [dbgwcr EXCEPT ![e.reserved] = None]
    /\ UNCHANGED <<break_mask, bcr0, dbgbcr, a_memory, mmu_fault, regs>>
SoftClear(e, refused) ==
    /\ a_memory' = IF refused THEN a_memory ELSE [a_memory EXCEPT ![e.place.addr] = e.reserved]
    /\ mmu_fault' = FALSE
    /\ regs' = AfterMemWriteBytes(regs)
    /\ UNCHANGED <<break_mask, bcr0, dbgbcr, watch_mask, dbgwcr>>

\* A z packet: target_breakwatch_clear, with the newest entry that matches.  An error,
\* of this access or left by an earlier one, keeps the entry, and GDB its breakpoint.
ClearPoint(p) ==
    /\ a_attached /\ a_doing = "idle"
    /\ p \in a_inserted
    /\ \E refused \in BOOLEAN :
          LET n == Newest(p)
              failed == p.kind = "soft" /\ (refused \/ mmu_fault)
          IN /\ CASE p.kind = "hard" -> HardClear(a_list[n])
                  [] p.kind = "watch" -> WatchClear(a_list[n])
                  [] OTHER -> SoftClear(a_list[n], refused)
             /\ a_list' = IF failed THEN a_list ELSE a_Unlinked(n)
             /\ a_inserted' = IF failed THEN a_inserted ELSE a_inserted \ {p}
    /\ translated' = IF p.kind = "hard" THEN [translated EXCEPT ![p.addr] = 0] ELSE translated
    /\ UNCHANGED <<a_attached, a_doing, reg_cache, forgotten, in_debug, halt_req, moe, hdbgen, truth>>

\* cortexa_halt_resume.  A step lends the first comparator to the mismatch.
cortexa_halt_resume(step) ==
    /\ a_attached /\ a_doing = "idle" /\ in_debug
    /\ dbgbcr' = [dbgbcr EXCEPT ![0] = IF step THEN Step ELSE bcr0]
    /\ regs' = cortexa_regs_write_internal(regs, reg_cache)
    /\ in_debug' = FALSE /\ moe' = "none"
    /\ a_doing' = "polling"
    /\ UNCHANGED <<a_attached, reg_cache, mmu_fault, break_mask, watch_mask, bcr0, a_list, dbgwcr,
                   a_memory, a_inserted, translated, forgotten, halt_req, hdbgen, truth>>

\* cortexa_halt_request: Ctrl-C.  A core in WFI does not answer, and is not told.
cortexa_halt_request ==
    /\ a_attached /\ a_doing = "polling" /\ ~in_debug
    /\ halt_req' = TRUE
    /\ UNCHANGED <<a_probeVars, a_pointVars, regs, in_debug, moe, hdbgen, truth>>

\* cortexa_halt_poll finds the core in debug state; the session tells GDB why.
cortexa_halt_poll ==
    /\ a_attached /\ a_doing = "polling" /\ in_debug
    /\ Polled
    /\ a_doing' = "idle"
    /\ UNCHANGED <<a_attached, mmu_fault, a_pointVars, in_debug, halt_req, moe, hdbgen, truth>>

\* It finds no answer: the list of targets is freed, and what a scan then finds starts anew.
LinkError ==
    /\ a_attached /\ a_doing = "polling"
    /\ a_attached' = FALSE /\ a_doing' = "idle"
    /\ reg_cache' = [r \in Registers |-> Scratch] /\ mmu_fault' = FALSE
    /\ break_mask' = [i \in Breaks |-> FALSE] /\ watch_mask' = [i \in Watches |-> FALSE]
    /\ bcr0' = None /\ a_list' = <<>>
    /\ forgotten' = forgotten \cup Soft(a_inserted) /\ a_inserted' = {}
    /\ translated' = [a \in DOMAIN a_memory |-> 0]
    /\ UNCHANGED <<a_coreVars, dbgbcr, dbgwcr, a_memory>>

\* cortexa_reset, of a session with nothing inserted: two words are written, the core
\* starts again, and is attached to again.
cortexa_reset ==
    /\ a_attached /\ a_doing = "idle" /\ a_inserted = {}
    /\ dbgbcr' = [i \in Breaks |-> None] /\ break_mask' = [i \in Breaks |-> FALSE] /\ bcr0' = None
    /\ truth' = OfUser(FALSE, 0)
    /\ LET read == cortexa_regs_read_internal(OfUser(FALSE, 0))
       IN  reg_cache' = read.cache /\ regs' = read.file
    /\ mmu_fault' = FALSE /\ moe' = "request"
    /\ UNCHANGED <<a_attached, a_doing, watch_mask, a_list, dbgwcr, a_memory, a_inserted, translated, forgotten,
                   in_debug, halt_req, hdbgen>>

---------------------------------------------------------------------------
\* The core runs, and enters debug state for a reason: it was asked to, it met an
\* instruction or a comparator, or it has done its step.
CoreStops ==
    /\ ~in_debug /\ hdbgen
    /\ \/ halt_req /\ moe' = "request"
       \/ (\E i \in Breaks : dbgbcr[i] # None) /\ moe' = "breakpoint"
       \/ (\E a \in DOMAIN a_memory : a_memory[a] = "bkpt") /\ moe' = "breakpoint"
       \/ (\E i \in Watches : dbgwcr[i] # None) /\ moe' = "watchpoint"
    /\ in_debug' = TRUE /\ halt_req' = FALSE
    /\ \E thumb \in BOOLEAN : regs' = OfUser(thumb, 2)
    /\ truth' = regs'
    /\ UNCHANGED <<a_probeVars, a_pointVars, hdbgen>>

CortexANext ==
    \/ cortexa_attach \/ AttachPolled \/ AttachFails \/ cortexa_detach \/ AccessMemory
    \/ \E r \in {"r0", "cpsr"} : WriteRegister(r)
    \/ \E p \in Points : SetPoint(p) \/ ClearPoint(p)
    \/ \E step \in BOOLEAN : cortexa_halt_resume(step)
    \/ cortexa_halt_request \/ cortexa_halt_poll \/ LinkError \/ cortexa_reset \/ CoreStops

CortexASpec == CortexAInit /\ [][CortexANext]_cortexAVars

---------------------------------------------------------------------------
\* A core that leaves debug state, to run, to step or for good, has in every register
\* what it had when it stopped, or what GDB wrote since: whatever memory was read,
\* written or translated with its registers in between.
RegistersKept == [][in_debug /\ ~in_debug' => regs' = truth]_cortexAVars

\* When the core runs freely its breakpoint comparators are those of the breakpoints
\* GDB has set in this session, one each, with the physical address its translation
\* answered when it was set, the comparator that is lent to the single steps included;
\* a comparator is free exactly if break_mask says so; and the instructions replaced in
\* memory are those of the soft breakpoints set, or of those nobody will remove.
PointsExact ==
    a_attached =>
        /\ (~in_debug /\ dbgbcr[0] # Step) =>
              \E at \in Bijection({p \in a_inserted : p.kind = "hard"}, {i \in Breaks : dbgbcr[i] # None}) :
                 \A p \in DOMAIN at : dbgbcr[at[p]] = translated[p.addr]
        /\ \A i \in Breaks : dbgbcr[i] \in Nat => break_mask[i]
        /\ \A i \in Breaks : break_mask[i] /\ i # 0 => dbgbcr[i] \in Nat
        /\ \A a \in DOMAIN a_memory : a_memory[a] = "bkpt" =>
              \E p \in Soft(a_inserted) \cup forgotten : p.addr = a
=============================================================================
