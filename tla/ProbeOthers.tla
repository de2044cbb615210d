---------------------------- MODULE ProbeOthers ----------------------------
(***************************************************************************)
(* How the drivers of the parts of Atmel, Silicon Labs, Texas Instruments, *)
(* Nordic, Raspberry Pi and Renesas recognise a chip, describe its memory, *)
(* attach to it and prepare it for work on its flash.  A chip is a record  *)
(* as in ProbeStm32.                                                       *)
(***************************************************************************)
EXTENDS ProbeInstructions

---------------------------------------------------------------------------
(* SAM3, SAM4S and SAM x7x: one flash controller or two of the same kind.  *)

sam3_add_flash(start, len) == Flash("sam3", start, len, 256, 256)
sam_add_flash(start, len) == Flash("sam4s", start, len, 4096, 512)

\* The tightly coupled memories are cut from the RAM, half each.
TCM(config) == CASE config = 1 -> 32 [] config = 2 -> 64 [] config = 3 -> 128 [] OTHER -> 0
samx7x_add_ram(config, ram) ==
    LET tcm == KiB(TCM(config)) IN
    (IF tcm > 0 THEN <<Ram(\h20000000, tcm), Ram(0, tcm)>> ELSE <<>>)
    \o (IF ram # 2 * tcm THEN <<Ram(\h20400000, ram - 2 * tcm)>> ELSE <<>>)

\* In KiB: what the codes of a chip identification stand for, 0 for others.
sam_flash_size(c) == IF c.flash \in {8, 16, 32, 64, 128, 256, 512, 1024, 2048} THEN c.flash ELSE 0
sam_sram_size(c) == IF c.ram \in {256, 384} THEN c.ram ELSE 0

\* The storage stays when the configuration of the memories is not readable.
samx7x_probe(c) ==
    IF Id(c, "400e0940") \notin {"SAME70", "SAMS70", "SAMV70", "SAMV71"} THEN Decline
    ELSE <<Storage("samx7x"), Call("gpnvm_get")>>
         \o samx7x_add_ram(c.boot, KiB(sam_sram_size(c)))
         \o <<sam_add_flash(\h400000, KiB(sam_flash_size(c))), Commands("sam"), Set("driver", "variant")>>
         \o Accept

sam3x_probe(c) ==
    LET cidr == Id(c, "400e0940")
        nsu == Id(c, "400e0740")
        size == KiB(sam_flash_size(c))
        half == size \div 2
    IN
    CASE cidr = "SAM3X" ->
           <<Set("driver", "Atmel SAM3X"), Option("INHIBIT_NRST"), Ram(\h20000000, \h200000),
             sam3_add_flash(\h80000, half), sam3_add_flash(\h80000 + half, half), Commands("sam")>> \o Accept
      [] cidr # "SAM3X" /\ nsu = "SAM3N/S" ->
           <<Set("driver", "Atmel SAM3N/S"), Ram(\h20000000, \h200000), sam3_add_flash(\h400000, size),
             Commands("sam")>> \o Accept
      [] cidr # "SAM3X" /\ nsu = "SAM3U" ->
           <<Set("driver", "Atmel SAM3U"), Ram(\h20000000, \h200000)>>
           \o (IF size >= \h80000
               THEN <<sam3_add_flash(\h80000, \h80000), sam3_add_flash(\h100000, \h80000)>>
               ELSE <<sam3_add_flash(\h80000, size)>>)
           \o <<Commands("sam")>> \o Accept
      [] cidr # "SAM3X" /\ nsu = "SAM4S" ->
           <<Set("driver", "Atmel SAM4S"), Ram(\h20000000, \h400000)>>
           \o (IF size <= \h80000 THEN <<sam_add_flash(\h400000, size)>>
               ELSE <<sam_add_flash(\h400000, half), sam_add_flash(\h400000 + half, half)>>)
           \o <<Commands("sam")>> \o Accept
      [] OTHER -> Decline

\* monitor gpnvm set on the configuration of the memories of a SAM x7x.
sam_cmd_gpnvm(config, ram) ==
    <<Uses("samx7x"), Step("free_ram", "", "")>> \o samx7x_add_ram(config, ram)

---------------------------------------------------------------------------
(* SAM4L: the reset that the chip holds its core in is undone by the probe.*)

sam4l_extended_reset == <<Put("smap_cr"), Give("smap_hcr")>>
sam4l_probe(c) ==
    IF Id(c, "400e0740") # "SAM4L" THEN Decline
    ELSE <<Set("driver", "Atmel SAM4L"), Set("extended_reset", "sam4l"), Ram(\h20000000, KiB(c.ram)),
           Flash("sam4l", 0, KiB(c.flash), 512, 512)>>
         \o sam4l_extended_reset \o Accept

---------------------------------------------------------------------------
(* SAM D and L, and SAM D5x and E5x.                                       *)

samd_add_flash(len) == Flash("samd", 0, len, 256, 64)
\* The extension of the reset holds the core unless the pin still does.
ReleaseReset(c) == IF "nRST" \in c.has THEN <<>> ELSE <<Give("dsu_crstext")>>
samd_probe(c) ==
    LET series == Id(c, "41002018")
        D09 == series = "D09"
    IN
    IF series \notin {"D09", "D10", "D11", "D20", "D20 rev B", "D21", "L21", "L22"} THEN Decline
    ELSE <<Unchecked("samd"), Set("driver", "variant"), Set("reset", "samd"), Set("mass_erase", "samd")>>
         \o (IF series = "D20 rev B" THEN <<Set("detach", "samd20_revB"), Set("halt_resume", "samd20_revB")>>
             ELSE <<>>)
         \o (IF series = "D11" THEN <<Set("attach", "samd11")>> ELSE <<>>)
         \o (IF "protected" \in c.has THEN <<Set("attach", "samd_protected")>> ELSE <<>>)
         \o <<Ram(\h20000000, IF D09 THEN \h1000 ELSE \h8000),
              samd_add_flash(IF D09 THEN KiB(c.flash) ELSE \h40000), Commands("samd")>>
         \o ReleaseReset(c) \o Accept

samd11_attach(c, part) == <<Give("dsu_crstext"), Call("cortexm_attach")>> \o Accept
\* Attaches to nothing, but for once.
samd_protected_attach(c, part) == <<Set("attach", "cortexm")>> \o Accept
samd20_revB_detach(c, part) == <<Does("cortexm_detach"), Give("dsu_crstext")>> \o Accept

samx5x_add_flash(len) == Flash("samx5x", 0, len, 8192, 512)
samx5x_probe(c) ==
    IF Id(c, "41002018") \notin {"D51", "E51", "E53", "E54"} THEN Decline
    ELSE <<Unchecked("samx5x"), Set("driver", "variant"), Set("reset", "samx5x"), Set("mass_erase", "samx5x")>>
         \o (IF "protected" \in c.has THEN <<Set("attach", "samd_protected")>> ELSE <<>>)
         \o (CASE c.boot = 19 -> <<Ram(\h20000000, \h30000), samx5x_add_flash(\h80000)>>
               [] c.boot = 20 -> <<Ram(\h20000000, \h40000), samx5x_add_flash(\h100000)>>
               [] OTHER -> <<Ram(\h20000000, \h20000), samx5x_add_flash(\h40000)>>)
         \o (IF "protected" \in c.has THEN <<>> ELSE <<Commands("samx5x")>>)
         \o ReleaseReset(c) \o Accept

---------------------------------------------------------------------------
(* EFM32, EZR32 and EFR32: the sizes of a page, of the user data and of    *)
(* the bootloader by the number of the family.                             *)

efm32_devices(family) ==
    CASE family \in {71, 73} -> <<512, 512, 0>>
      [] family = 72 -> <<2048, 4096, 0>>
      [] family \in {74, 75, 120, 121} -> <<2048, 2048, 0>>
      [] family \in {76, 77, 122} -> <<1024, 1024, 0>>
      [] family \in {81, 83} \cup 16..21 \cup 25..27 -> <<2048, 2048, 10240>>
      [] family \in {85, 87} \cup 28..33 \cup 37..39 -> <<2048, 2048, 32768>>
      [] family = 100 -> <<4096, 4096, 32768>>
      [] family = 103 -> <<2048, 2048, 18432>>
      [] family = 106 -> <<2048, 2048, 32768>>
      [] family \in 40..45 \cup 49..57 \cup 61..63 -> <<2048, 2048, 16384>>
      [] OTHER -> <<0, 0, 0>>

efm32_add_flash(start, len, page) == <<Flash("efm32", start, len, page, page)>>
efm32_probe(c) ==
    LET device == efm32_devices(c.boot) IN
    IF Id(c, "0fe081fc") = "none" \/ device[1] = 0 THEN Decline
    ELSE <<Set("mass_erase", "efm32"), Unchecked("efm32"), Option("INHIBIT_NRST"), Set("driver", "variant"),
           Ram(\h20000000, KiB(c.ram))>>
         \o efm32_add_flash(0, KiB(c.flash), device[1])
         \o (IF device[2] > 0 THEN efm32_add_flash(\hfe00000, device[2], device[1]) ELSE <<>>)
         \o (IF device[3] > 0 THEN efm32_add_flash(\hfe10000, device[3], device[1]) ELSE <<>>)
         \o <<Commands("efm32")>> \o Accept

\* The authentication port of an EFM32, a target of its own.
efm32_aap_probe(c) ==
    IF c.ap # "efm32 aap" THEN Decline
    ELSE <<Set("mass_erase", "efm32_aap"), Set("driver", "EFM32 Authentication Access Port")>> \o Accept

---------------------------------------------------------------------------
(* Stellaris and Tiva, MSP432.                                             *)

lmi_add_flash(len) == Flash("lmi", 0, len, \h400, 0)
\* The RAM of an LM3S8962 is looked for at 2000000.
lm3s_probe(did1) ==
    CASE did1 \in {"LM3S3748", "LM3S5732"} ->
           <<Set("driver", "TI Stellaris/Tiva"), Ram(\h20000000, \h10000), lmi_add_flash(\h20000),
             Set("mass_erase", "lmi")>> \o Accept
      [] did1 = "LM3S8962" ->
           <<Set("driver", "TI Stellaris/Tiva"), Ram(\h2000000, \h10000), lmi_add_flash(\h40000),
             Set("mass_erase", "lmi")>> \o Accept
      [] OTHER -> Decline
tm4c_probe(did1) ==
    LET Tiva(ram, flash) == <<Set("driver", "TI Stellaris/Tiva"), Ram(\h20000000, ram), lmi_add_flash(flash),
                              Option("INHIBIT_NRST"), Set("mass_erase", "lmi")>> \o Accept
    IN
    CASE did1 = "TM4C123GH6PM" -> Tiva(\h10000, \h80000)
      [] did1 = "TM4C1230C3PM" -> Tiva(\h6000, \h10000)
      [] did1 = "TM4C1294NCPDT" -> Tiva(\h40000, \h100000)
      [] OTHER -> Decline
lmi_probe(c) ==
    LET did1 == Id(c, "400fe004") IN
    IF "Tiva" \in c.has THEN tm4c_probe(did1)
    ELSE IF "Stellaris" \in c.has THEN lm3s_probe(did1)
    ELSE Decline

msp432_add_flash(start, len) == Flash("msp432", start, len, \h1000, \h400)
msp432_probe(c) ==
    LET banksize == KiB(c.flash) \div 2 IN
    IF Id(c, "201004") \notin {"MSP432P401R", "MSP432P401M"} \/ "rev B" \in c.has THEN Decline
    ELSE <<Set("driver", c.id), Ram(\h20000000, KiB(c.ram)),
           msp432_add_flash(0, banksize), msp432_add_flash(banksize, banksize),
           msp432_add_flash(\h200000, \h2000), msp432_add_flash(\h202000, \h2000),
           Commands("msp432")>> \o Accept

---------------------------------------------------------------------------
(* nRF51 and nRF52: the page size is announced by the chip.                *)

nrf51_add_flash(start, len, erasesize) ==
    Flash("nrf51", start, len, erasesize, IF erasesize < 1024 THEN erasesize ELSE 1024)
nrf51_probe(c) ==
    LET page_size == IF "small pages" \in c.has THEN 1024 ELSE 4096 IN
    IF Id(c, "10000060") = "none" THEN Decline
    ELSE <<Set("driver", c.id), Option("INHIBIT_NRST"),
           Ram(\h20000000, IF c.id = "nRF52" THEN KiB(c.ram) ELSE \h8000),
           nrf51_add_flash(0, KiB(c.flash), page_size), nrf51_add_flash(\h10001000, page_size, page_size),
           Commands("nrf51"), Set("mass_erase", "nrf51")>> \o Accept
nrf51_mdm_probe(c) ==
    IF c.ap # "nrf52 mdm" THEN Decline
    ELSE <<Set("mass_erase", "nrf51_mdm"), Set("driver", "Nordic nRF52 Access Port")>> \o Accept

---------------------------------------------------------------------------
(* RP2040: what the driver does to read the flash chip leaves the flash    *)
(* interface the way the boot ROM starts it.                               *)

rp_flash_connect_internal == <<Put("qspi_pads"), Give("qspi_mux")>>
rp_flash_exit_xip == <<Put("ssi_baud"), Put("ssi_ctrl"), Put("qspi_pads"), Give("qspi_pads")>>
rp_spi_config == <<Uses("rp"), Save("ssi_ctrl"), Put("ssi_ctrl")>>
rp_spi_restore == <<Uses("rp"), Restore("ssi_ctrl")>>
rp_flash_flush_cache == <<Give("xip_cache")>>
rp_flash_enter_xip == <<Give("ssi_ctrl")>>

rp_flash_in_por_state(c) == "por" \in c.has
rp_add_flash(c) ==
    (IF rp_flash_in_por_state(c) THEN <<Give("clocks")>> \o rp_flash_connect_internal ELSE <<>>)
    \o rp_flash_exit_xip \o rp_spi_config \o rp_spi_restore
    \o (IF rp_flash_in_por_state(c) THEN rp_flash_flush_cache ELSE <<>>)
    \o rp_flash_enter_xip
    \o <<Flash("rp", \h10000000, KiB(c.flash), 4096, \h1000)>>

rp_probe(c) ==
    IF Id(c, "10") # "RP2040" THEN Decline
    ELSE <<Storage("rp"), Set("mass_erase", "rp"), Set("driver", "Raspberry RP2040"), Option("INHIBIT_NRST"),
           Set("attach", "rp"), Set("enter_flash_mode", "rp"), Set("exit_flash_mode", "rp"), Commands("rp")>>
         \o Accept
rp_attach(c, part) ==
    <<Call("cortexm_attach"), Uses("rp"), Call("rp_read_rom_func_table"), FreeMap>>
    \o rp_add_flash(c) \o <<Ram(\h20000000, \h42000)>> \o Accept
rp_flash_prepare == rp_flash_connect_internal \o rp_flash_exit_xip \o rp_spi_config
\* The chip is reset at the end.
rp_flash_resume == rp_spi_restore \o rp_flash_flush_cache \o rp_flash_enter_xip \o Reset

rp_mass_erase == rp_flash_prepare \o Tried(rp_flash_resume) \o rp_flash_resume \o Accept

\* The rescue port: to attach to it resets the chip and always fails.
rp_rescue_probe(c) ==
    IF c.ap # "rp rescue" THEN Decline
    ELSE <<Set("attach", "rp_rescue"), Set("driver", "Raspberry RP2040 Rescue")>> \o Accept
rp_rescue_do_reset(c, part) == Reset \o Decline

---------------------------------------------------------------------------
(* Renesas RA.  Only the parts with an RV40 flash are given any.           *)

MF34 == {"RA2L1", "RA2E1", "RA2E2", "RA2A1", "RA4M1", "RA4W1"}
renesas_flash_size(c) ==
    IF c.flash \in {16, 32, 64, 128, 256, 384, 512, 768, 1024, 1536, 2048} THEN KiB(c.flash) ELSE 0
renesas_add_rv40_flash(start, len) ==
    IF start < \h300000 THEN Flash("renesas", start, len, \h8000, \h80)
    ELSE Flash("renesas", start, len, \h40, 4)
renesas_add_flash(series, start, len) ==
    IF series \in MF34 THEN <<>>
    ELSE <<Set("enter_flash_mode", "renesas"), renesas_add_rv40_flash(start, len)>>

\* The data flash and the RAM of a series, or how it is declined.
renesas_memory(series) ==
    LET Old(kib) == renesas_add_flash(series, \h40100000, KiB(kib))
        New(kib) == renesas_add_flash(series, \h8000000, KiB(kib))
        Sram(kib) == <<Ram(\h20000000, KiB(kib))>>
        Standby == <<Ram(\h28000000, 1024)>>
        SramHs(kib) == <<Ram(\h1ffe0000, KiB(kib))>>
        StandbyHs == <<Ram(\h200fe000, KiB(8))>>
    IN
    CASE series \in {"RA2L1", "RA2A1", "RA4M1"} -> Old(8) \o Sram(32)
      [] series = "RA2E1" -> Old(4) \o <<Ram(\h20004000, KiB(16))>>
      [] series = "RA2E2" -> Old(2) \o <<Ram(\h20004000, KiB(8))>>
      [] series \in {"RA4M2", "RA4M3", "RA4E1"} -> New(8) \o Sram(128) \o Standby
      [] series \in {"RA4E2", "RA6E2"} -> New(4) \o Sram(40) \o Standby
      [] series = "RA4W1" -> Old(8) \o Sram(96)
      [] series = "RA6M1" -> Old(8) \o Sram(128) \o SramHs(128) \o StandbyHs
      [] series = "RA6M2" -> Old(32) \o Sram(256) \o SramHs(128) \o StandbyHs
      [] series = "RA6M3" -> Old(64) \o Sram(256) \o <<Ram(\h20040000, KiB(256))>> \o SramHs(128) \o StandbyHs
      [] series \in {"RA6M4", "RA6E1"} -> New(8) \o Sram(256) \o Standby
      [] series = "RA6M5" -> New(8) \o Sram(512) \o Standby
      [] series = "RA6T1" -> Old(8) \o SramHs(64)
      [] series = "RA6T2" -> New(16) \o Sram(64) \o Standby
      [] OTHER -> Decline

\* Where the part number of a chip is looked for, by its part.
renesas_pnr_at(part) ==
    CASE part \in {"RA4M2", "RA4M3"} -> {"10080f0"}
      [] part \in {"RA2A1", "RA6M2"} -> {"root table"}
      [] OTHER -> {"10080f0", "1001c10", "root table"}
\* Debugging is enabled before the chip is known to be one of these.
renesas_probe(c) ==
    <<Put("syocdcr")>>
    \o (IF c.reg \notin renesas_pnr_at(c.part) THEN Decline
        ELSE <<Storage("renesas"), Set("driver", c.id)>> \o renesas_memory(c.id)
             \o renesas_add_flash(c.id, 0, renesas_flash_size(c)) \o <<Commands("renesas")>> \o Accept)
renesas_enter_flash_mode == Reset \o <<Put("fwepror")>>
=============================================================================
