---------------------------- MODULE TargetProbe ----------------------------
(***************************************************************************)
(* Finding out what a Cortex-M is, and coming to it and leaving it         *)
(* (cortexm_probe, target_attach, target_detach and target_list_free): the *)
(* probe functions of the maker are tried in their order, each sets fields *)
(* of the target before it knows whether the chip is one of its own, and   *)
(* the handlers of the one that accepts the chip are run with whatever is  *)
(* left in the target.  The probe, attach, detach and flash mode handlers  *)
(* are the instruction sequences of the modules this one extends.          *)
(***************************************************************************)
EXTENDS ProbeStm32, ProbeNxp, ProbeOthers, FiniteSets

\* A case: a chip, what may go wrong with it and be asked of it, and how
\* often the list of targets may be made.
CONSTANT Cases

VARIABLES
    case,       \* the case under way
    t,          \* the target
    op,         \* what is under way
    todo,       \* what is left of the handler under way
    probes,     \* the probe functions not yet tried
    hw,         \* who wrote the registers of the chip
    scans,      \* how often the list was made
    wrong       \* what must not happen and did

probeVars == <<case, t, op, todo, probes, hw, scans, wrong>>

c == case.chip
Has(what) == what \in case.may

Regs == {"dbgmcu_cr", "dbgmcu_cr_l5", "pwr_cr1", "C2BOOT", "rcc_apbenr1", "dbg_cr", "dbg_apb_fz1",
         "mpu_ctrl", "memmap", "iap_ram", "core_regs", "rgu_ctrl", "port_dir", "boot_pins", "spifi_mcmd",
         "clocks", "lut_ctrl", "lut", "smap_cr", "smap_hcr", "dsu_crstext", "qspi_pads", "qspi_mux",
         "ssi_baud", "ssi_ctrl", "xip_cache", "core", "syocdcr", "fwepror"}
        \cup {Pins[i] : i \in 1..6}
Fields == {"driver", "part_id", "attach", "detach", "mass_erase", "enter_flash_mode", "exit_flash_mode",
           "reset", "halt_resume", "extended_reset", "mem_write", "unsafe_enabled"}

\* A register that can be written only while another one lets it.
Gate(reg) == CASE reg \in {"dbg_cr", "dbg_apb_fz1"} -> "rcc_apbenr1"
               [] reg = "lut" -> "lut_ctrl"
               [] OTHER -> "none"
Writable(reg) == Gate(reg) # "none" => hw[Gate(reg)] = "debugger"

---------------------------------------------------------------------------
(* What is tried and run.                                                  *)

\* A Cortex-M4 of ARM may be one of many; the order matters.
Arm4c4 == <<"sam3x", "lmi", "lpc546xx", "lpc43xx", "lpc40xx", "kinetis", "at32fxx">>

\* The probe functions for a maker and, for a core of ARM, for its part.
ProbeList(chip) ==
    CASE chip.maker = "FREESCALE" -> <<"kinetis", "imxrt">>
      [] chip.maker = "GIGADEVICE" -> <<"gd32f1", "gd32f4">>
      [] chip.maker = "STM" -> <<"stm32f1", "stm32f4", "stm32h7", "stm32l0", "stm32l4", "stm32g0">>
      [] chip.maker = "NORDIC" -> <<"nrf51">>
      [] chip.maker = "ATMEL" -> <<"samx7x", "sam4l", "samd", "samx5x">>
      [] chip.maker = "ENERGY_MICRO" -> <<"efm32">>
      [] chip.maker = "TEXAS" -> <<"msp432">>
      [] chip.maker = "SPECULAR" -> <<"lpc11xx">>
      [] chip.maker = "RASPBERRY" -> <<"rp">>
      [] chip.maker = "RENESAS" -> <<"renesas">>
      [] chip.maker = "NXP" /\ chip.core = "M33" -> <<"lpc55xx">>
      [] chip.maker = "ARM_CHINA" -> <<"mm32f3xx">>
      [] chip.maker = "ARM" /\ chip.part \in {"4c0", "4c1"} -> <<"lpc11xx">>
      [] chip.maker = "ARM" /\ chip.part = "4c3" -> <<"lmi", "ch32f1", "stm32f1", "lpc15xx", "mm32f3xx">>
      [] chip.maker = "ARM" /\ chip.part = "471" -> <<"lpc11xx", "lpc43xx", "mm32l0xx">>
      [] chip.maker = "ARM" /\ chip.part = "4c4" -> Arm4c4
      [] chip.maker = "ARM" /\ chip.part = "4cb" -> <<"gd32f1">>
      [] chip.maker = "ASCII" -> <<"sam3x", "ke04", "lpc17xx", "lpc11xx">>
      [] chip.maker = "AP" -> <<"kinetis_mdm", "nrf51_mdm", "efm32_aap", "lpc55_dmap", "rp_rescue">>
      [] OTHER -> <<>>

Probe(name) ==
    CASE name = "kinetis" -> kinetis_probe(c)   [] name = "imxrt" -> imxrt_probe(c)
      [] name = "gd32f1" -> gd32f1_probe(c)     [] name = "gd32f4" -> gd32f4_probe(c)
      [] name = "stm32f1" -> stm32f1_probe(c)   [] name = "stm32f4" -> stm32f4_probe(c)
      [] name = "stm32h7" -> stm32h7_probe(c)   [] name = "stm32l0" -> stm32l0_probe(c)
      [] name = "stm32l4" -> stm32l4_probe(c)   [] name = "stm32g0" -> stm32g0_probe(c)
      [] name = "nrf51" -> nrf51_probe(c)       [] name = "samx7x" -> samx7x_probe(c)
      [] name = "sam4l" -> sam4l_probe(c)       [] name = "samd" -> samd_probe(c)
      [] name = "samx5x" -> samx5x_probe(c)     [] name = "efm32" -> efm32_probe(c)
      [] name = "msp432" -> msp432_probe(c)     [] name = "lpc11xx" -> lpc11xx_probe(c)
      [] name = "rp" -> rp_probe(c)             [] name = "renesas" -> renesas_probe(c)
      [] name = "lpc55xx" -> lpc55xx_probe(c)   [] name = "mm32f3xx" -> mm32f3xx_probe(c)
      [] name = "lmi" -> lmi_probe(c)           [] name = "ch32f1" -> ch32f1_probe(c)
      [] name = "lpc15xx" -> lpc15xx_probe(c)   [] name = "lpc43xx" -> lpc43xx_probe(c)
      [] name = "mm32l0xx" -> mm32l0xx_probe(c) [] name = "sam3x" -> sam3x_probe(c)
      [] name = "lpc546xx" -> lpc546xx_probe(c) [] name = "lpc40xx" -> lpc40xx_probe(c)
      [] name = "at32fxx" -> at32fxx_probe(c)   [] name = "ke04" -> ke04_probe(c)
      [] name = "lpc17xx" -> lpc17xx_probe(c)   [] name = "kinetis_mdm" -> kinetis_mdm_probe(c)
      [] name = "nrf51_mdm" -> nrf51_mdm_probe(c) [] name = "efm32_aap" -> efm32_aap_probe(c)
      [] name = "lpc55_dmap" -> lpc55_dmap_probe(c) [] name = "rp_rescue" -> rp_rescue_probe(c)

AttachWith(name) ==
    LET part == t.set["part_id"] IN
    CASE name = "cortexm" -> <<Call("cortexm_attach")>> \o Accept
      [] name = "stm32f4" -> stm32f4_attach(c, part)
      [] name = "stm32h7" -> stm32h7_attach(c, part)
      [] name = "stm32l4" -> stm32l4_attach(c, part)
      [] name = "stm32g0" -> stm32g0_attach(c, part)
      [] name = "stm32lx_protected" -> stm32lx_protected_attach(c, part)
      [] name = "lpc43x0" -> lpc43x0_attach(c, part)
      [] name = "samd11" -> samd11_attach(c, part)
      [] name = "samd_protected" -> samd_protected_attach(c, part)
      [] name = "rp" -> rp_attach(c, part)
      [] name = "rp_rescue" -> rp_rescue_do_reset(c, part)
      [] name = "none" -> Accept

DetachWith(name) ==
    LET part == t.set["part_id"] IN
    CASE name = "cortexm" -> <<Does("cortexm_detach")>> \o Accept
      [] name = "stm32f4" -> stm32f4_detach(c, part)
      [] name = "stm32h7" -> stm32h7_detach(c, part)
      [] name = "stm32l4" -> stm32l4_detach(c, part)
      [] name = "stm32g0" -> stm32g0_detach(c, part)
      [] name = "lpc43x0" -> lpc43x0_detach(c, part)
      [] name = "samd20_revB" -> samd20_revB_detach(c, part)
      [] name = "none" -> Accept

\* Without a handler the target is reset.
EnterWith(name) ==
    (CASE name \in {"lpc17xx", "lpc40xx"} -> EnterIap(name)
       [] name = "lpc43x0" -> lpc43x0_enter(c)
       [] name = "lpc55xx" -> lpc55xx_enter_flash_mode
       [] name = "imxrt" -> imxrt_enter
       [] name = "rp" -> rp_flash_prepare
       [] name = "renesas" -> renesas_enter_flash_mode
       [] name \in {"lpc8xx", "lpc43xx"} -> <<>>
       [] name = "none" -> Reset) \o Accept
ExitWith(name) ==
    (CASE name \in {"lpc17xx", "lpc40xx"} -> ExitIap(name)
       [] name = "lpc43x0" -> lpc43x0_exit(c)
       [] name = "imxrt" -> imxrt_exit
       [] name = "rp" -> rp_flash_resume
       [] name = "lpc8xx" -> <<>>
       [] name = "none" -> Reset) \o Accept

\* The mass erase handlers that enter and leave the flash mode themselves.
MassEraseWith(name) ==
    CASE name \in {"lpc17xx", "lpc40xx"} -> IapMassErase(name)
      [] name = "lpc43x0" -> lpc43x0_spi_mass_erase(c)
      [] name = "imxrt" -> imxrt_spi_mass_erase
      [] name = "rp" -> rp_mass_erase
      [] OTHER -> <<>>

---------------------------------------------------------------------------
(* The list of targets.                                                    *)

\* target_new, and what cortexm_probe sets before it asks the drivers.
NewTarget(handlers) ==
    [set |-> [f \in Fields |->
                CASE f = "part_id" -> c.part
                  [] f \in {"driver", "attach", "detach"} /\ handlers -> "cortexm"
                  [] OTHER -> "none"],
     ram |-> <<>>, flash |-> <<>>, options |-> {}, commands |-> {},
     storage |-> "none", saved |-> [r \in Regs |-> "zero"],
     attached |-> FALSE, flash_mode |-> FALSE, known |-> FALSE, left |-> FALSE]

\* A target that there is no memory for the rest of stays in the list.
MakeTarget ==
    /\ scans' = scans + 1
    /\ todo' = <<>>
    /\ \/ /\ t' = NewTarget(c.maker # "AP")
          /\ op' = "probe"
          /\ probes' = ProbeList(c)
       \/ /\ Has("priv")
          /\ t' = NewTarget(FALSE)
          /\ op' = "idle"
          /\ probes' = <<>>

\* target_list_free detaches from the target it is attached to, by its
\* handler.  (It calls one that is not there when that is a recovery port: no
\* case has "rescan" with one.)
target_list_free ==
    /\ op = "idle"
    /\ scans < case.scans
    /\ ~t.flash_mode
    /\ t.attached => Has("rescan")
    /\ IF t.attached
       THEN /\ op' = "free"
            /\ todo' = DetachWith(t.set["detach"])
            /\ UNCHANGED <<t, probes, scans>>
       ELSE MakeTarget
    /\ UNCHANGED <<case, hw, wrong>>

Free ==
    /\ op = "free"
    /\ todo = <<>>
    /\ MakeTarget
    /\ UNCHANGED <<case, hw, wrong>>

\* The next probe function, or none of them knew the chip.
NextProbe ==
    /\ op = "probe"
    /\ todo = <<>>
    /\ IF probes = <<>> THEN op' = "idle" /\ UNCHANGED <<todo, probes>>
       ELSE /\ todo' = Probe(Head(probes))
            /\ probes' = Tail(probes)
            /\ UNCHANGED op
    /\ UNCHANGED <<case, t, hw, scans, wrong>>

---------------------------------------------------------------------------
(* What GDB asks of the target.  It ends its work on the flash before it   *)
(* asks for anything else.                                                 *)

Ask(what, handler) ==
    /\ op = "idle"
    /\ scans > 0
    /\ op' = what
    /\ todo' = handler
    /\ UNCHANGED <<case, t, probes, hw, scans, wrong>>

Attach == ~t.attached /\ Ask("attach", AttachWith(t.set["attach"]))
target_detach == t.attached /\ ~t.flash_mode /\ Ask("detach", DetachWith(t.set["detach"]))
EnterFlashMode ==
    t.attached /\ ~t.flash_mode /\ Ask("enter", EnterWith(t.set["enter_flash_mode"]))
ExitFlashMode == t.attached /\ t.flash_mode /\ Ask("exit", ExitWith(t.set["exit_flash_mode"]))
MassErase ==
    /\ t.attached /\ ~t.flash_mode
    /\ MassEraseWith(t.set["mass_erase"]) # <<>>
    /\ Ask("erase", MassEraseWith(t.set["mass_erase"]))

\* monitor gpnvm set gives a SAM x7x another division of its RAM.
SetGpnvm(config) ==
    /\ t.attached
    /\ t.storage = "samx7x"
    /\ config # c.boot
    /\ op = "idle"
    /\ op' = "gpnvm"
    /\ case' = [case EXCEPT !.chip.boot = config]
    /\ todo' = sam_cmd_gpnvm(config, KiB(c.ram)) \o Reset \o Accept
    /\ UNCHANGED <<t, probes, hw, scans, wrong>>

---------------------------------------------------------------------------
(* The instructions.                                                       *)

i == Head(todo)
Next1(target) == t' = target /\ todo' = Tail(todo)
\* malloc and calloc may fail; a call of the target may.
NoMemory == Has("memory")
Keep == UNCHANGED <<case, op, probes, scans>>

AddMemory ==
    /\ i.do \in {"ram", "flash"}
    /\ \/ Next1([t EXCEPT ![i.do] = <<i>> \o @])
       \/ NoMemory /\ UNCHANGED t /\ todo' = IF i.to = "or decline" THEN Decline ELSE Tail(todo)
    /\ UNCHANGED <<hw, wrong>> /\ Keep

FreeMemory ==
    /\ i.do \in {"free_map", "free_ram", "free_flash"}
    /\ Next1([t EXCEPT !.ram = IF i.do = "free_flash" THEN @ ELSE <<>>,
                       !.flash = IF i.do = "free_ram" THEN @ ELSE <<>>])
    /\ UNCHANGED <<hw, wrong>> /\ Keep

SetTarget ==
    /\ i.do \in {"set", "commands", "option"}
    /\ \/ Next1(CASE i.do = "set" -> [t EXCEPT !.set[i.what] = i.to]
                  [] i.do = "commands" -> [t EXCEPT !.commands = @ \cup {i.what}]
                  [] i.do = "option" -> [t EXCEPT !.options = @ \cup {i.what}])
       \/ NoMemory /\ i.do = "commands" /\ Next1(t)
    /\ UNCHANGED <<hw, wrong>> /\ Keep

\* A storage of zeros in place of the one there was.
Allocate ==
    /\ i.do = "storage"
    /\ \/ Next1([t EXCEPT !.storage = i.what, !.saved = [r \in Regs |-> "zero"]])
       \/ NoMemory /\ i.to = "checked" /\ UNCHANGED t /\ todo' = Decline
    /\ UNCHANGED <<hw, wrong>> /\ Keep

UseStorage ==
    /\ i.do \in {"stored", "free_storage", "uses"}
    /\ t' = IF i.do = "free_storage" THEN [t EXCEPT !.storage = "none"] ELSE t
    /\ todo' = IF i.do = "stored" /\ t.storage # "none" THEN SubSeq(todo, i.len + 2, Len(todo)) ELSE Tail(todo)
    /\ wrong' = IF i.do = "uses" /\ t.storage # i.what THEN wrong \cup {"storage"} ELSE wrong
    /\ UNCHANGED hw /\ Keep

TouchRegister ==
    /\ i.do \in {"save", "put", "restore", "give"}
    /\ Next1(IF i.do = "save" THEN [t EXCEPT !.saved[i.what] = hw[i.what]] ELSE t)
    /\ hw' = IF i.do = "save" \/ ~Writable(i.what) THEN hw
             ELSE [hw EXCEPT ![i.what] = CASE i.do = "put" -> "debugger"
                                           [] i.do = "restore" -> t.saved[i.what]
                                           [] i.do = "give" -> "boot"]
    /\ UNCHANGED wrong /\ Keep

\* A read of an LPC546xx at the place of the identification of an LPC43xx
\* locks it up.
CallTarget ==
    /\ i.do \in {"call", "tried", "does", "reads"}
    /\ UNCHANGED t
    /\ \/ todo' = IF i.do = "tried" THEN SubSeq(todo, i.len + 2, Len(todo)) ELSE Tail(todo)
       \/ Has("call") /\ i.do = "call" /\ todo' = Decline
       \/ Has("call") /\ i.do = "tried" /\ todo' = Tail(todo)
    /\ wrong' = IF i.do = "reads" /\ c.reg = "40000ff8" THEN wrong \cup {"lockup"} ELSE wrong
    /\ UNCHANGED hw /\ Keep

\* The end of a handler and what its caller does then.
Return ==
    /\ i.do = "return"
    /\ todo' = <<>>
    /\ t' = CASE op = "probe" -> [t EXCEPT !.known = i.to = "true"]
              [] op = "attach" -> [t EXCEPT !.attached = i.to = "true"]
              [] op = "detach" -> [t EXCEPT !.attached = FALSE, !.left = TRUE]
              [] op = "enter" -> [t EXCEPT !.flash_mode = TRUE]
              [] op = "exit" -> [t EXCEPT !.flash_mode = FALSE]
              [] OTHER -> t
    /\ op' = CASE op = "free" -> op
               [] op = "probe" /\ i.to = "false" -> op
               [] OTHER -> "idle"
    /\ UNCHANGED <<case, probes, hw, scans, wrong>>

Execute ==
    /\ todo # <<>>
    /\ AddMemory \/ FreeMemory \/ SetTarget \/ Allocate \/ UseStorage \/ TouchRegister \/ CallTarget \/ Return

ProbeInit ==
    /\ case \in Cases
    /\ t = NewTarget(FALSE)
    /\ op = "idle"
    /\ todo = <<>>
    /\ probes = <<>>
    /\ hw = [r \in Regs |-> "firmware"]
    /\ scans = 0
    /\ wrong = {}

ProbeNext ==
    \/ target_list_free \/ Free \/ NextProbe \/ Execute
    \/ Attach \/ target_detach \/ EnterFlashMode \/ ExitFlashMode \/ MassErase
    \/ \E config \in 0..3 : SetGpnvm(config)

ProbeSpec == ProbeInit /\ [][ProbeNext]_probeVars

---------------------------------------------------------------------------
(* Properties.                                                             *)

\* Addresses are 32-bit and signed here: an end is measured from a start.
Apart(r, s) == r = s \/ r.at + r.len <= s.at \/ s.at + s.len <= r.at
Regions == {t.ram[k] : k \in 1..Len(t.ram)} \cup {t.flash[k] : k \in 1..Len(t.flash)}

\* The memory map that GDB is given (target_mem_map) describes every place
\* once, however often the target was attached and detached, whichever probe
\* declined the chip before and whatever there was no memory for: no region
\* is listed twice or overlaps another, and a flash consists of whole blocks
\* of whole write units, which is how target_flash_erase and
\* target_flash_write walk it.
MapSound ==
    op = "idle" =>
        /\ Cardinality(Regions) = Len(t.ram) + Len(t.flash)
        /\ \A r, s \in Regions : Apart(r, s)
        /\ \A k \in 1..Len(t.flash) :
               LET f == t.flash[k] IN
               f.len % f.block = 0 /\ (f.unit > 0 => f.block % f.unit = 0 \/ f.unit % f.block = 0)

\* A handler finds in t->target_storage the structure of its own driver, also
\* after a probe that declined the chip has left its own there, after a
\* handler was replaced and after a chip was attached to again.  And the
\* identification of an LPC43xx is never read on an LPC546xx, whose core locks up
\* on it (cortexm_probe: the comment on the order of its probes).
HandlersFit == wrong = {}

\* What a driver keeps of the chip's registers to work on it (the freeze of
\* the watchdogs, the MPU, the memory mapping, the pins and the controller of
\* the SPI flash) is back as the firmware had it, or as the boot ROM starts
\* it, when the debugger has left the chip: the handlers that keep and give
\* back are paired on every path, failed erases, second scans and registers
\* that can be written only while another one allows it included.  (Known not
\* to, and marked "keeps": the STM32L5 and a twice found STM32H7, which freeze
\* their watchdogs for good, and an LPC43x0 found in its boot ROM.)
GivenBack ==
    op = "idle" /\ t.left /\ ~t.attached /\ ~Has("keeps") =>
        \A r \in Regs : t.saved[r] # "zero" => hw[r] \in {"firmware", "boot"}

=============================================================================
