----------------------------- MODULE ProbeStm32 -----------------------------
(***************************************************************************)
(* How the STM32 drivers and those of the parts made alike (GigaDevice,    *)
(* Artery, MindMotion, WCH) recognise a chip, describe its memory and      *)
(* attach to it, as sequences of instructions that TargetProbe executes.   *)
(*                                                                         *)
(* A chip c is a record: the core, the part number in its debug or access  *)
(* port, the register reg that identifies it and the id in it, the sizes   *)
(* flash and ram in KiB that it announces and the set has of what else it  *)
(* can be asked about.  An address is a 32-bit number.                     *)
(***************************************************************************)
EXTENDS ProbeInstructions

DBGMCU_IDCODE == "e0042000"
DBGMCU_IDCODE_F0 == "40015800"
DBGMCU_IDCODE_MM32L0 == "40013400"
DBGMCU_IDCODE_MM32F3 == "40007080"

stm32f1_read_idcode(c) ==
    Id(c, IF c.core \in {"M0", "M23"} THEN DBGMCU_IDCODE_F0 ELSE DBGMCU_IDCODE)
stm32f1_add_flash(start, len, block) == Flash("stm32f1", start, len, block, block)

gd32f1_probe(c) ==
    LET device_id == stm32f1_read_idcode(c) IN
    IF device_id \notin {"414", "430", "410"} THEN Decline
    ELSE <<Set("driver", IF device_id # "410" \/ c.core = "M4" THEN "GD32F3"
                         ELSE IF c.core = "M23" THEN "GD32E230" ELSE "GD32F1"),
           Set("part_id", device_id), Set("mass_erase", "stm32f1"),
           Ram(\h20000000, KiB(c.ram)), stm32f1_add_flash(\h8000000, KiB(c.flash), \h400),
           Commands("stm32f1")>> \o Accept

at32f40_detect(c) ==
    IF "at32f40" \notin c.has THEN Decline
    ELSE <<stm32f1_add_flash(\h8000000, KiB(256), KiB(2)), Ram(\h20000000, KiB(96)),
           Set("driver", "AT32F403A/407"), Set("mass_erase", "stm32f1")>> \o Accept
at32f41_detect(c) ==
    IF c.flash \notin {256, 128, 64} THEN Decline
    ELSE <<stm32f1_add_flash(\h8000000, KiB(c.flash), KiB(2)), Ram(\h20000000, KiB(32)),
           Set("driver", "AT32F415"), Set("mass_erase", "stm32f1")>> \o Accept
at32fxx_probe(c) ==
    LET series == IF c.core = "M4" THEN Id(c, DBGMCU_IDCODE) ELSE "none" IN
    CASE series = "70050" -> at32f40_detect(c)
      [] series = "70030" -> at32f41_detect(c)
      [] OTHER -> Decline

mm32l0xx_probe(c) ==
    LET mm32_id == Id(c, DBGMCU_IDCODE_MM32L0) IN
    IF mm32_id \notin {"cc568091", "cc56a097"} THEN Decline
    ELSE <<Set("part_id", IF mm32_id = "cc568091" THEN "091" ELSE "097"), Set("driver", "MM32"),
           Set("mass_erase", "stm32f1"), Ram(\h20000000, KiB(IF mm32_id = "cc568091" THEN 8 ELSE 12)),
           stm32f1_add_flash(\h8000000, KiB(128), \h400), Commands("stm32f1"),
           Set("mem_write", "mm32l0")>> \o Accept

mm32f3xx_probe(c) ==
    LET mm32_id == Id(c, DBGMCU_IDCODE_MM32F3)
        F3 == mm32_id = "cc9aa0e7"
    IN
    IF mm32_id \notin {"cc9aa0e7", "4d4d0800"} THEN Decline
    ELSE <<Set("part_id", IF F3 THEN "0e7" ELSE "800"), Set("driver", "MM32"),
           Set("mass_erase", "stm32f1"), Ram(\h20000000, KiB(IF F3 THEN 128 ELSE 32))>>
         \o (IF F3 THEN <<>> ELSE <<Ram(\h30000000, KiB(128))>>)
         \o <<stm32f1_add_flash(\h8000000, KiB(IF F3 THEN 512 ELSE 256), \h400),
              Commands("stm32f1")>> \o Accept

\* mass_erase is set before the part is known.
stm32f1_probe(c) ==
    LET device_id == stm32f1_read_idcode(c)
        Part(driver) == <<Set("driver", driver), Set("part_id", device_id)>>
        F0(driver, flash_size, block_size) ==
            Part(driver) \o <<Ram(\h20000000, \h5000),
                              stm32f1_add_flash(\h8000000, flash_size, block_size),
                              Commands("stm32f1")>> \o Accept
        F3 == Part("STM32F3") \o <<Ram(\h20000000, \h10000),
                                   stm32f1_add_flash(\h8000000, \h80000, \h800),
                                   Commands("stm32f1")>> \o Accept
    IN
    <<Set("mass_erase", "stm32f1")>> \o
    CASE device_id \in {"29b", "410", "412", "420"} ->
           <<Ram(\h20000000, \h5000), stm32f1_add_flash(\h8000000, \h20000, \h400),
             Commands("stm32f1")>>
           \o Part("STM32F1 medium density") \o Accept
      [] device_id \in {"414", "418", "428"} ->
           Part("STM32F1 VL density")
           \o <<Ram(\h20000000, \h10000), stm32f1_add_flash(\h8000000, \h80000, \h800),
                Commands("stm32f1")>> \o Accept
      [] device_id = "430" ->
           Part("STM32F1 XL density")
           \o <<Ram(\h20000000, \h18000), stm32f1_add_flash(\h8000000, \h80000, \h800),
                stm32f1_add_flash(\h8080000, \h80000, \h800), Commands("stm32f1")>> \o Accept
      [] device_id \in {"438", "422", "446"} -> <<Ram(\h10000000, \h4000)>> \o F3
      [] device_id \in {"432", "439"} -> F3
      [] device_id = "444" -> F0("STM32F03", \h8000, \h400)
      [] device_id = "445" -> F0("STM32F04/F070x6", \h8000, \h400)
      [] device_id = "440" -> F0("STM32F05/F030x8", \h10000, \h400)
      [] device_id = "448" -> F0("STM32F07", \h20000, \h800)
      [] device_id = "442" -> F0("STM32F09/F030xc", \h40000, \h800)
      [] OTHER -> Decline

\* The fast unlock that tells a CH32F1 from the others also unlocks the
\* flash of a chip that the probe then declines.
ch32f1_add_flash(start, len, block) == Flash("ch32f1", start, len, block, block)
ch32f1_probe(c) ==
    IF c.core # "M3" \/ Id(c, DBGMCU_IDCODE) # "410" \/ "rev 2000" \notin c.has THEN Decline
    ELSE IF "fast unlock" \notin c.has THEN Decline
    ELSE <<Set("part_id", "410"), Ram(\h20000000, \h5000),
           ch32f1_add_flash(\h8000000, KiB(IF c.flash = 0 THEN 64 ELSE c.flash), 128),
           Commands("stm32f1"), Set("driver", "CH32F1")>> \o Accept

---------------------------------------------------------------------------
(* STM32F2, F4 and F7.  The memory map is built by attach.                 *)

F4Parts == {"449", "451", "452", "419", "434", "411", "413", "421", "423", "431", "441",
            "433", "463"}

\* An F405 of revision A announces itself as an F205.
stm32f4_read_idcode(c) ==
    LET idcode == Id(c, DBGMCU_IDCODE) IN
    IF idcode = "411" /\ c.core = "M4" THEN "413" ELSE idcode

stm32f4_probe(c) ==
    LET device_id == stm32f4_read_idcode(c) IN
    IF device_id \notin F4Parts THEN Decline
    ELSE <<Set("attach", "stm32f4"), Set("detach", "stm32f4"), Set("mass_erase", "stm32f4"),
           Set("driver", "STM32F4"), Set("part_id", device_id), Commands("stm32f4")>> \o Accept

\* A region of no length is not added.
stm32f4_add_flash(start, len, block) ==
    IF len = 0 THEN <<>> ELSE <<Flash("stm32f4", start, len, block, 1024)>>

gd32f4_probe(c) ==
    IF c.part \notin {"2b3", "a2e"} THEN Decline
    ELSE <<Set("attach", "cortexm"), Set("detach", "cortexm"), Set("mass_erase", "stm32f4"),
           Set("driver", "GD32F4"), Commands("stm32f4"), FreeMap,
           Ram(\h10000000, \h10000), Ram(\h20000000, \h50000)>>
         \o stm32f4_add_flash(\h8000000, \h10000, \h4000)
         \o stm32f4_add_flash(\h8010000, \h10000, \h10000)
         \o stm32f4_add_flash(\h8020000, \he0000, \h20000)
         \o stm32f4_add_flash(\h8100000, \h10000, \h4000)
         \o stm32f4_add_flash(\h8110000, \h10000, \h10000)
         \o stm32f4_add_flash(\h8120000, \he0000, \h20000)
         \o stm32f4_add_flash(\h8200000, \h100000, \h40000) \o Accept

stm32f4_device_is_f7(part) == part \in {"449", "451", "452"}
stm32f4_device_is_dual_bank(part) == part \in {"419", "434", "451"}
stm32f4_device_has_ccm_ram(part) == part \in {"413", "419", "434"}
stm32f4_device_has_large_sectors(part) == part \in {"449", "451"}
stm32f4_remaining_bank_length(bank, small) == IF bank > small THEN bank - small ELSE 0

\* In KiB; 0 for a part that attach refuses.
max_flashsize(part) ==
    CASE part \in {"433", "431", "421", "434", "452"} -> 512
      [] part = "423" -> 256
      [] part \in {"413", "411", "441", "449"} -> 1024
      [] part = "463" -> 1536
      [] part \in {"419", "451"} -> 2048
      [] OTHER -> 0

\* The flash of a part with sectors of 32 KiB or more, and of the others.
LargeSectors(bank) ==
    LET rest == stm32f4_remaining_bank_length(bank, \h40000) IN
    stm32f4_add_flash(\h200000, \h20000, \h8000) \o stm32f4_add_flash(\h220000, \h20000, \h20000)
    \o stm32f4_add_flash(\h240000, rest, \h40000)
    \o stm32f4_add_flash(\h8000000, \h20000, \h8000)
    \o stm32f4_add_flash(\h8020000, \h20000, \h20000)
    \o stm32f4_add_flash(\h8040000, rest, \h40000)

SmallSectors(bank, is_f7, use_dual_bank) ==
    LET rest == stm32f4_remaining_bank_length(bank, \h20000)
        Bank(base) == stm32f4_add_flash(base, \h10000, \h4000)
                      \o stm32f4_add_flash(base + \h10000, \h10000, \h10000)
                      \o stm32f4_add_flash(base + \h20000, rest, \h20000)
    IN
    (IF is_f7 THEN stm32f4_add_flash(\h200000, \h10000, \h4000) ELSE <<>>)
    \o (IF bank > \h10000 THEN Bank(\h8000000) ELSE stm32f4_add_flash(\h8000000, \h10000, \h4000))
    \o (IF use_dual_bank /\ is_f7 THEN Bank(\h200000 + bank) ELSE <<>>)
    \o (IF use_dual_bank THEN Bank(\h8000000 + bank) ELSE <<>>)

stm32f4_attach(c, part) ==
    LET size == max_flashsize(part)
        is_f7 == stm32f4_device_is_f7(part)
        dual_bank == stm32f4_device_is_dual_bank(part)
        use_dual_bank == /\ dual_bank
                         /\ is_f7 => "nDBANK" \notin c.has
                         /\ ~is_f7 /\ size < 2048 => "DB1M" \notin c.has
        bank == KiB(size) \div (IF use_dual_bank THEN 2 ELSE 1)
    IN
    IF size = 0 THEN Decline
    ELSE <<Call("cortexm_attach"), Storage("stm32f4"), Save("dbgmcu_cr"), Put("dbgmcu_cr"), FreeMap>>
         \o (IF is_f7 THEN <<Ram(0, \h4000), Ram(\h20000000, \h20000), Ram(\h20020000, \h60000)>>
             ELSE (IF stm32f4_device_has_ccm_ram(part) THEN <<Ram(\h10000000, \h10000)>> ELSE <<>>)
                  \o <<Ram(\h20000000, \h50000)>>)
         \o (IF stm32f4_device_has_large_sectors(part) THEN LargeSectors(bank)
             ELSE SmallSectors(bank, is_f7, use_dual_bank))
         \o Accept
stm32f4_detach(c, part) == <<Uses("stm32f4"), Restore("dbgmcu_cr"), Does("cortexm_detach")>> \o Accept

---------------------------------------------------------------------------
(* STM32H7: the debug register is saved and changed by the probe.          *)

stm32h7_add_flash(start, len, block) == Flash("stm32h7", start, len, block, 2048)
stm32h7_probe(c) ==
    IF c.part \notin {"4500", "4800", "4830"} THEN Decline
    ELSE <<Set("driver", "STM32H7"), Set("attach", "stm32h7"), Set("detach", "stm32h7"),
           Set("mass_erase", "stm32h7"), Commands("stm32h7"),
           Unchecked("stm32h7"), Save("dbgmcu_cr"),
           Ram(0, \h10000), Ram(\h20000000, \h20000), Ram(\h24000000, \h80000),
           Ram(\h30000000, \h20000), Ram(\h30020000, \h20000), Ram(\h30040000, \h8000),
           Ram(\h38000000, \h10000),
           stm32h7_add_flash(\h8000000, \h100000, \h20000),
           stm32h7_add_flash(\h8100000, \h100000, \h20000), Put("dbgmcu_cr")>> \o Accept
stm32h7_attach(c, part) == <<Call("cortexm_attach")>> \o Accept
stm32h7_detach(c, part) == <<Uses("stm32h7"), Restore("dbgmcu_cr"), Does("cortexm_detach")>> \o Accept

---------------------------------------------------------------------------
(* STM32L0 and L1.                                                         *)

stm32l_add_flash(start, len, block) == Flash("stm32lx", start, len, block, block \div 2)
stm32l_add_eeprom(start, len) == Flash("stm32lx_data", start, len, 4, 4)
stm32l0_probe(c) ==
    LET L1 == c.part \in {"416", "429", "427", "436", "437"} IN
    IF ~L1 /\ c.part \notin {"457", "425", "417", "447"} THEN Decline
    ELSE (IF L1 THEN <<Set("driver", "STM32L1x"), Ram(\h20000000, \h14000),
                       stm32l_add_flash(\h8000000, \h80000, \h100), Commands("stm32lx")>>
          ELSE <<Set("driver", "STM32L0x"), Ram(\h20000000, \h5000),
                 stm32l_add_flash(\h8000000, \h10000, \h80),
                 stm32l_add_flash(\h8010000, \h10000, \h80),
                 stm32l_add_flash(\h8020000, \h10000, \h80),
                 stm32l_add_eeprom(\h8080000, \h1800), Commands("stm32lx")>>)
         \o <<Storage("stm32l0"), Set("driver", "variant")>>
         \o (IF "protected" \in c.has
             THEN <<Set("attach", "stm32lx_protected"), Set("mass_erase", "stm32lx_protected")>>
             ELSE <<Set("mass_erase", "stm32lx")>>)
         \o Accept

\* Attaches to nothing, but for once.
stm32lx_protected_attach(c, part) == <<Set("attach", "cortexm")>> \o Accept

---------------------------------------------------------------------------
(* STM32L4, L5, G4, WB and WL.                                             *)

\* The sizes are in KiB.
Device(family, sram1, sram2, sram3) ==
    [family |-> family, sram1 |-> sram1, sram2 |-> sram2, sram3 |-> sram3]
stm32l4_device_info(id) ==
    CASE id = "464" -> Device("L4xx", 32, 8, 0)
      [] id = "435" -> Device("L4xx", 48, 16, 0)
      [] id = "462" -> Device("L4xx", 128, 32, 0)
      [] id = "415" -> Device("L4xx dual", 96, 32, 0)
      [] id = "461" -> Device("L4xx dual", 256, 64, 0)
      [] id = "470" -> Device("L4Rx", 192, 64, 384)
      [] id = "468" -> Device("G4xx", 22, 10, 0)
      [] id = "469" -> Device("G4xx", 96, 32, 0)
      [] id = "479" -> Device("G4xx", 96, 16, 0)
      [] id = "472" -> Device("L55x", 192, 64, 0)
      [] id = "4970" -> Device("WLxx", 32, 32, 0)
      [] id = "4950" -> Device("WBxx", 192, 64, 0)
      [] id = "4940" -> Device("WBxx", 12, 36, 0)
      [] OTHER -> Device("none", 0, 0, 0)

stm32l4_add_flash(start, len, block) == <<Flash("stm32l4", start, len, block, 2048)>>
stm32l4_main_sram_length(device, part) ==
    KiB(IF part = "415" THEN device.sram1 ELSE device.sram1 + device.sram2 + device.sram3)

\* The second core of a WL or WB is started from the first.
stm32l4_probe(c) ==
    LET device_id == IF "DPv2" \in c.has \/ c.part = "472" THEN c.part ELSE Id(c, DBGMCU_IDCODE)
        device == stm32l4_device_info(device_id)
    IN
    IF device.family = "none" THEN Decline
    ELSE <<Unchecked("stm32l4"), Set("driver", "STM32L4")>>
         \o (IF device.family \in {"WLxx", "WBxx"} /\ "AP0" \in c.has THEN <<Put("C2BOOT")>> ELSE <<>>)
         \o <<Set("mass_erase", "stm32l4"), Set("attach", "stm32l4"), Set("detach", "stm32l4"),
              Commands("stm32l4")>> \o Accept

\* The flash of the parts that can work as one bank or as two.
Banks(dual, start, len, dual_block, single_block) ==
    IF dual THEN stm32l4_add_flash(start, len \div 2, dual_block)
                 \o stm32l4_add_flash(start + len \div 2, len \div 2, dual_block)
    ELSE stm32l4_add_flash(start, len, single_block)

\* The register that attach saves is that of the family, the one that detach
\* gives back is that of the STM32L4.
stm32l4_dbgmcu(device) == IF device.family = "L55x" THEN "dbgmcu_cr_l5" ELSE "dbgmcu_cr"
stm32l4_attach(c, part) ==
    LET device == stm32l4_device_info(part)
        dbgmcu == stm32l4_dbgmcu(device)
        flash_len == KiB(c.flash)
        dual == "dual" \in c.has
    IN
    <<Call("cortexm_attach"), Uses("stm32l4")>>
    \o (IF device.family = "L55x" THEN <<Put("pwr_cr1")>> ELSE <<>>)
    \o <<Save(dbgmcu), Put(dbgmcu), FreeMap,
         IF device.family = "L55x" THEN Ram(\ha000000, device.sram1 + device.sram2)
         ELSE Ram(\h10000000, device.sram2),
         Ram(\h20000000, stm32l4_main_sram_length(device, part))>>
    \o (CASE device.family = "WBxx" ->
               stm32l4_add_flash(\h8000000, flash_len, IF part = "4940" THEN \h800 ELSE \h1000)
          [] device.family = "L4Rx" -> Banks(dual, \h8000000, \h200000, \h1000, \h2000)
          [] device.family = "L55x" -> Banks(dual, \h8000000, \h80000, \h800, \h800)
          [] device.family = "G4xx" /\ part = "468" -> stm32l4_add_flash(\h8000000, flash_len, \h800)
          [] device.family = "G4xx" /\ part = "479" -> stm32l4_add_flash(\h8000000, KiB(512), \h800)
          [] device.family = "G4xx" /\ part = "469" -> Banks(dual, \h8000000, flash_len, \h800, \h1000)
          [] device.family = "L4xx dual" -> Banks(dual, \h8000000, flash_len, \h800, \h800)
          [] OTHER -> stm32l4_add_flash(\h8000000, flash_len, \h800))
    \o Accept
stm32l4_detach(c, part) ==
    <<Uses("stm32l4"), Restore("dbgmcu_cr"), Does("cortexm_detach")>> \o Accept

---------------------------------------------------------------------------
(* STM32G0 and C0.                                                         *)

stm32g0_add_flash(start, len, block) == Flash("stm32g0", start, len, block, block)
stm32g0_probe(c) ==
    LET dev_id == IF c.part = "466" THEN Id(c, DBGMCU_IDCODE_F0) ELSE c.part
        Sizes == CASE dev_id = "466" -> <<8, 64>>
                   [] dev_id = "443" -> <<6, 32>>
                   [] dev_id = "453" -> <<12, 32>>
                   [] dev_id = "456" -> <<18, 64>>
                   [] dev_id = "460" -> <<36, 128>>
                   [] dev_id = "467" -> <<144, c.flash>>
    IN
    IF \/ c.part \notin {"466", "456", "460", "467"}
       \/ c.part = "466" /\ dev_id \notin {"466", "443", "453"}
    THEN Decline
    ELSE <<Set("driver", "STM32G0"), Set("part_id", dev_id),
           Ram(\h20000000, KiB(Sizes[1])), stm32g0_add_flash(\h8000000, KiB(Sizes[2]), \h800),
           Set("attach", "stm32g0"), Set("detach", "stm32g0"), Set("mass_erase", "stm32g0"),
           Commands("stm32g0"), Unchecked("stm32g0"),
           stm32g0_add_flash(\h1fff7000, \h400, 8)>> \o Accept

\* The debug registers can be written while their clock runs.
stm32g0_attach(c, part) ==
    <<Call("cortexm_attach"), Uses("stm32g0"),
      Save("rcc_apbenr1"), Put("rcc_apbenr1"), Save("dbg_cr"), Put("dbg_cr"),
      Save("dbg_apb_fz1"), Put("dbg_apb_fz1")>> \o Accept

\* Mutant: the clock is given back before what it lets be written.
ClockFirst(c, part) ==
    <<Uses("stm32g0"), Restore("rcc_apbenr1"), Restore("dbg_apb_fz1"), Restore("dbg_cr"),
      Does("cortexm_detach")>> \o Accept

stm32g0_detach(c, part) ==
    <<Uses("stm32g0"), Put("rcc_apbenr1"), Restore("dbg_apb_fz1"), Restore("dbg_cr"),
      Restore("rcc_apbenr1"), Does("cortexm_detach")>> \o Accept
=============================================================================
