------------------------------ MODULE ProbeNxp ------------------------------
(***************************************************************************)
(* How the drivers of the NXP and Freescale parts (LPC, Kinetis, S32K,     *)
(* KE04 and i.MXRT) recognise a chip, describe its memory, attach to it    *)
(* and prepare it for work on its flash.                                   *)
(***************************************************************************)
EXTENDS ProbeInstructions

lpc_add_flash(start, len, block, writesize) == Flash("lpc", start, len, block, writesize)

---------------------------------------------------------------------------
(* LPC11xx, LPC13xx and LPC8xx.  A row names the part and gives the sizes  *)
(* of its RAM and flash and of a block.                                    *)

Part(driver, ram, flash, block) ==
    <<Set("driver", driver), Ram(\h10000000, ram), lpc_add_flash(0, flash, block, 512)>>

lpc11xx_detect(c) ==
    LET device_id == Id(c, "400483f4") IN
    CASE device_id = "LPC11xx" -> Part("LPC11xx", \h2000, \h20000, \h1000)
      [] device_id = "LPC1112" -> Part("LPC1112", \h1000, \h10000, \h1000)
      [] device_id = "LPC11U6" -> Part("LPC11U6", \h8000, \h40000, \h1000)
      [] device_id = "LPC1343" -> Part("LPC1343", \h2000, \h8000, \h1000)
      [] device_id = "LPC8N04" -> Part("LPC8N04", \h2000, \h7800, \h400)
      [] OTHER -> <<>>

lpc8xx_detect(c) ==
    LET device_id == Id(c, "400483f8") IN
    CASE device_id = "LPC802" -> Part("LPC802", \h800, \h4000, \h400)
      [] device_id = "LPC804" -> Part("LPC804", \h1000, \h8000, \h400)
      [] device_id = "LPC81x" -> Part("LPC81x", \h1000, \h4000, \h400)
      [] device_id = "LPC82x" -> Part("LPC82x", \h2000, \h8000, \h400)
      [] device_id = "LPC832" -> Part("LPC832", \h1000, \h4000, \h400)
      [] device_id = "LPC834" -> Part("LPC834", \h1000, \h8000, \h400)
      [] device_id = "LPC844" -> Part("LPC844", \h2000, \h10000, \h400)
      [] device_id = "LPC845" -> Part("LPC845", \h4000, \h10000, \h400)
      [] device_id = "LPC11U3x" -> Part("LPC11U3x", \h2000, \h20000, \h1000)
      [] device_id = "LPC11xx-XL" -> Part("LPC11xx-XL", \h2000, \h20000, \h1000)
      [] device_id = "LPC1124" -> Part("LPC112x", \h2000, \h8000, \h1000)
      [] device_id = "LPC1125" -> Part("LPC112x", \h2000, \h10000, \h1000)
      [] OTHER -> <<>>

\* The flash mode of an LPC8xx is set before the part is known.
lpc11xx_probe(c) ==
    IF lpc11xx_detect(c) # <<>> THEN lpc11xx_detect(c) \o <<Commands("lpc11xx")>> \o Accept
    ELSE <<Set("enter_flash_mode", "lpc8xx"), Set("exit_flash_mode", "lpc8xx")>>
         \o (IF lpc8xx_detect(c) # <<>> THEN lpc8xx_detect(c) \o <<Commands("lpc11xx")>> \o Accept
             ELSE Decline)

---------------------------------------------------------------------------
(* LPC15xx.                                                                *)

lpc15xx_probe(c) ==
    LET device_id == Id(c, "400743f8")
        ram_size == CASE device_id \in {"1549", "1519"} -> \h9000
                      [] device_id \in {"1548", "1518"} -> \h5000
                      [] device_id \in {"1547", "1517"} -> \h3000
                      [] OTHER -> 0
    IN
    IF ram_size = 0 THEN Decline
    ELSE <<Set("driver", "LPC15xx"), Ram(\h2000000, ram_size), lpc_add_flash(0, \h40000, \h1000, 512),
           Commands("lpc15xx")>> \o Accept

---------------------------------------------------------------------------
(* LPC17xx and LPC40xx: the part is read by a call of the boot ROM, for    *)
(* which the target is halted.  A chip without that ROM gives an error.    *)

EnterIap(driver) == <<Uses(driver), Save("mpu_ctrl"), Put("mpu_ctrl"), Save("memmap")>>
ExitIap(driver) == <<Uses(driver), Restore("memmap"), Restore("mpu_ctrl")>>
IapPart(c, driver, core, ram_size) ==
    IF c.core # core THEN Decline
    ELSE <<Does("halt_request"), Storage(driver)>> \o EnterIap(driver) \o <<Put("iap_ram")>> \o ExitIap(driver)
         \o <<Does("halt_resume")>>
         \o (IF Id(c, "iap") = "none" THEN <<FreeStorage>> \o Decline
             ELSE IF Id(c, "iap") # driver THEN Decline
             ELSE <<Set("driver", driver), Set("extended_reset", driver), Set("mass_erase", driver),
                    Set("enter_flash_mode", driver), Set("exit_flash_mode", driver),
                    Ram(\h10000000, ram_size), Ram(\h2007c000, \h4000), Ram(\h20080000, \h4000),
                    lpc_add_flash(0, \h10000, \h1000, 4096),
                    lpc_add_flash(\h10000, \h70000, \h8000, 4096)>> \o Accept)

lpc17xx_probe(c) == IapPart(c, "lpc17xx", "M3", \h8000)
lpc40xx_probe(c) == IapPart(c, "lpc40xx", "M4", \h10000)
\* Prepare, erase and blank check, each of which may fail.
IapMassErase(driver) ==
    EnterIap(driver) \o Tried(ExitIap(driver)) \o Tried(ExitIap(driver)) \o Tried(ExitIap(driver))
    \o ExitIap(driver) \o Accept

---------------------------------------------------------------------------
(* LPC43xx, with flash on the chip and without.                            *)

lpc43xx_detect(c) ==
    LET small == c.id \in {"4312", "4322"}
        Bank(base, len) == <<lpc_add_flash(base + KiB(64), len, KiB(64), 4096)>>
        A == \h1a000000
        B == \h1b000000
        First(base) == <<lpc_add_flash(base, KiB(64), KiB(8), 4096)>>
    IN
    <<Set("driver", c.id), Ram(\h20000000, KiB(IF small THEN 16 ELSE 48)),
      Ram(0, \h10000000), Ram(\h10000000, KiB(32)), Ram(\h10080000, KiB(40)),
      Ram(\h2000c000, KiB(16))>>
    \o First(A)
    \o (CASE "43x2" \in c.has -> Bank(A, KiB(448))
          [] "43x3" \in c.has -> First(B) \o Bank(A, KiB(192)) \o Bank(B, KiB(192))
          [] "43x5" \in c.has -> First(B) \o Bank(A, KiB(320)) \o Bank(B, KiB(320))
          [] "43x7" \in c.has -> First(B) \o Bank(A, KiB(448)) \o Bank(B, KiB(448))
          [] OTHER -> First(B))
    \o <<Commands("lpc43xx")>>

lpc43x0_detect(c) ==
    LET Rams(sram1, sram2, ahb) == <<Set("driver", c.id), Ram(\h10000000, KiB(sram1)),
                                     Ram(\h10080000, KiB(sram2)), Ram(\h20000000, KiB(ahb))>>
    IN
    <<Ram(0, \h10000000)>>
    \o (CASE c.id = "4310" -> Rams(96, 40, 16)
          [] c.id = "4320" -> Rams(96, 40, 48)
          [] c.id \in {"4330", "4350"} -> Rams(128, 72, 48)
          [] c.id = "4370" -> Rams(128, 72, 48) \o <<Ram(\h18000000, KiB(18))>>
          [] OTHER -> <<>>)
    \o <<Set("attach", "lpc43x0"), Set("detach", "lpc43x0")>>

\* The location of the identification is not for an LPC546xx to be read.
lpc43xx_probe(c) ==
    LET family == Id(c, "40043200") IN
    <<Reads("40043200")>> \o
    IF family = "none" THEN Decline
    ELSE <<Option("INHIBIT_NRST")>> \o (IF c.core = "M4" THEN <<Put("rgu_ctrl")>> ELSE <<>>) \o
         CASE "flash" \in c.has ->
                <<Storage("lpc43xx")>>
                \o (IF family = "invalid" THEN <<FreeStorage>> \o Decline
                    ELSE <<Set("mass_erase", "lpc43xx"), Set("enter_flash_mode", "lpc43xx")>>
                         \o lpc43xx_detect(c) \o Accept)
           [] "flashless" \in c.has ->
                IF family = "invalid" THEN Decline
                ELSE <<Set("mass_erase", "lpc43x0"), Set("enter_flash_mode", "lpc43x0"),
                       Set("exit_flash_mode", "lpc43x0")>> \o lpc43x0_detect(c) \o Accept
           [] OTHER -> Decline

\* A chip that runs from its SRAM or from the boot ROM has the pins of the
\* flash set up for it, and given back when it runs from the SRAM.  The
\* abort that ends the entry resets the SPIFI controller.
Pins == <<"pin3", "pin4", "pin5", "pin6", "pin7", "pin8">>
OverPins(do) == [i \in 1..6 |-> Step(do, Pins[i], "")]
lpc43x0_enter(c) ==
    <<Uses("lpc43x0")>>
    \o (IF c.has \cap {"sram", "boot rom"} = {} THEN <<>>
        ELSE OverPins("save")
             \o (CASE "spifi" \in c.has -> OverPins("put")
                   [] "spi" \in c.has -> <<Put("pin3"), Put("pin6"), Put("pin7"), Put("pin8")>>
                   [] OTHER -> <<>>))
    \o (IF "spifi" \in c.has THEN <<Put("spifi_mcmd")>> ELSE <<>>)
lpc43x0_exit(c) ==
    <<Uses("lpc43x0")>>
    \o (IF "spifi" \in c.has THEN <<Restore("spifi_mcmd")>> ELSE <<>>)
    \o (IF "sram" \in c.has THEN OverPins("restore") ELSE <<>>)
lpc43x0_spi_mass_erase(c) == lpc43x0_enter(c) \o Tried(lpc43x0_exit(c)) \o lpc43x0_exit(c) \o Accept

\* The source of a boot that the pins decide is read at the pins, made
\* inputs for that moment.
lpc43x0_read_boot_src ==
    <<Save("port_dir"), Put("port_dir"), Save("boot_pins"), Put("boot_pins"),
      Restore("port_dir"), Restore("boot_pins")>>
lpc43x0_determine_flash_interface(c) ==
    (IF c.has \cap {"sram", "boot rom"} # {} /\ "otp" \notin c.has THEN lpc43x0_read_boot_src ELSE <<>>)
    \o (IF "spifi" \in c.has THEN <<Save("spifi_mcmd")>> ELSE <<>>)

\* The two windows on the SPI flash; 80000000 is the least 32-bit number.
lpc43x0_add_spi_flash(capacity) ==
    LET Least(a, b) == IF a < b THEN a ELSE b IN
    <<Flash("lpc43x0", -2147483647 - 1, Least(capacity, \h8000000), 4096, 4096),
      Flash("lpc43x0", \h14000000, Least(capacity, \h4000000), 4096, 4096)>>

lpc43x0_attach(c, part) ==
    <<Call("cortexm_attach")>> \o IfNoStorage(<<Storage("lpc43x0")>> \o lpc43x0_determine_flash_interface(c))
    \o lpc43x0_enter(c)
    \o (IF c.has \cap {"spifi", "spi"} = {} \/ "no spi flash" \in c.has THEN <<>>
        ELSE lpc43x0_add_spi_flash(KiB(c.flash)))
    \o lpc43x0_exit(c) \o Accept
lpc43x0_detach(c, part) == <<Uses("lpc43x0"), FreeFlash, Does("cortexm_detach")>> \o Accept

---------------------------------------------------------------------------
(* LPC546xx and LPC55xx.                                                   *)

lpc546xx_probe(c) ==
    IF Id(c, "40000ff8") \notin {"J256", "J512"} THEN Decline
    ELSE <<Set("driver", "LPC546xx"), Set("mass_erase", "lpc546xx"),
           lpc_add_flash(0, IF c.id = "J256" THEN \h40000 ELSE \h80000, \h8000, 4096),
           Ram(\h20000000, \h28000), Commands("lpc546xx"), Option("INHIBIT_NRST")>> \o Accept

\* The call of the ROM that measures the flash leaves the registers and the
\* memory it works in as they were.
lpc55xx_add_flash(c) ==
    <<Save("core_regs"), Save("iap_ram"), Put("iap_ram"), Put("core_regs"),
      Restore("iap_ram"), Restore("core_regs")>>
    \o (IF "no iap" \in c.has THEN <<>>
        ELSE <<Set("enter_flash_mode", "lpc55xx"), Flash("lpc55xx", 0, KiB(c.flash), 4096, 4096)>>)
lpc55xx_probe(c) ==
    LET chipid == Id(c, "50000ff8")
        Srams(n) == SubSeq(<<Ram(\h4000000, \h4000), Ram(\h20000000, \h8000), Ram(\h20008000, \h4000),
                             Ram(\h2000c000, \h4000), Ram(\h20010000, \h4000)>>, 1, n)
    IN
    IF "AP1" \in c.has THEN Decline
    ELSE <<Option("INHIBIT_NRST"), Set("driver", "LPC55xx")>>
         \o (IF chipid \notin {"55x2", "55x4", "55x6"} THEN Decline
             ELSE Srams(CASE chipid = "55x2" -> 2 [] chipid = "55x4" -> 4 [] chipid = "55x6" -> 5)
                  \o lpc55xx_add_flash(c) \o <<Commands("lpc55xx")>> \o Accept)
lpc55xx_enter_flash_mode == <<Put("iap_ram"), Put("core_regs")>>

\* The debug mailbox, a target of its own.
lpc55_dmap_probe(c) ==
    IF c.ap # "lpc55 dmap" THEN Decline
    ELSE <<Set("driver", "LPC55 Debug Mailbox"), Set("mass_erase", "lpc55_dmap")>> \o Accept

---------------------------------------------------------------------------
(* Kinetis K, KL and S32K, KE04.                                           *)

kinetis_add_flash(start, len, block) == Flash("kinetis", start, len, block, block)
\* RAM in two parts that meet at 20000000.
SplitRam(low, high) == <<Ram(\h20000000 - low, low), Ram(\h20000000, high)>>
KL(low, high, flash) == SplitRam(low, high) \o <<kinetis_add_flash(0, flash, \h400)>>
kl_s32k14_setup(sram_l, sram_h, flash, flexmem) ==
    SplitRam(\h20000000 - sram_l, sram_h)
    \o <<kinetis_add_flash(0, flash, \h1000), kinetis_add_flash(\h10000000, flexmem, \h1000)>>

\* A KL16 announces RAM and flash in two registers: one with a flash of an
\* unknown size has been given its RAM when it is declined.
KL16(c) ==
    LET quarter == KiB(c.ram) \div 4 IN
    IF c.ram \notin {4, 8, 16, 32} THEN Decline
    ELSE SplitRam(quarter, 3 * quarter)
         \o (IF c.flash \notin {32, 64, 128, 256} THEN Decline
             ELSE <<kinetis_add_flash(0, KiB(c.flash), \h400)>>)

\* The memory of a part, or how it is declined.
KinetisMemory(c) ==
    LET sdid == Id(c, "40048024") IN
    CASE sdid = "161" -> KL16(c)
      [] sdid = "251" -> KL(\h1000, \h3000, \h20000)
      [] sdid = "231" -> KL(\h2000, \h6000, \h40000)
      [] sdid = "271" /\ c.ram = 8 -> KL(\h800, \h1800, \h8000)
      [] sdid = "271" /\ c.ram = 16 -> KL(\h1000, \h3000, \h10000)
      [] sdid = "021" /\ c.ram = 4 -> KL(\h400, \hc00, \h7fff)
      [] sdid = "021" /\ c.ram = 2 -> KL(\h200, \h600, \h3fff)
      [] sdid = "021" /\ c.ram = 1 -> KL(\h100, \h300, \h1fff)
      [] sdid = "031" -> KL(\h200, \h600, \h8000)
      [] sdid = "220" -> <<Ram(\h1c000000, \h4000000), Ram(\h20000000, \h100000),
                           kinetis_add_flash(0, \h40000, \h800), kinetis_add_flash(\h40000, \h40000, \h800)>>
      [] sdid = "620" -> SplitRam(\h10000, \h30000)
                         \o <<kinetis_add_flash(0, \h80000, \h1000), kinetis_add_flash(\h80000, \h80000, \h1000)>>
      [] sdid = "K12" /\ c.flash \in {128, 256} ->
           SplitRam(\h4000, \h4000)
           \o <<kinetis_add_flash(0, KiB(c.flash), \h800), kinetis_add_flash(\h10000000, \h10000, \h800)>>
      [] sdid = "K12" /\ c.flash = 512 ->
           SplitRam(\h8000, \h8000)
           \o <<kinetis_add_flash(0, \h40000, \h800), kinetis_add_flash(\h40000, \h40000, \h800)>>
      [] sdid = "118" -> SplitRam(\h400, \h5800)
                         \o <<kinetis_add_flash(0, \h40000, \h800), kinetis_add_flash(\h10000000, \h8000, \h800)>>
      [] sdid \in {"142", "143"} -> kl_s32k14_setup(\h1fffc000, \h3000, \h40000, \h10000)
      [] sdid \in {"144", "145"} -> kl_s32k14_setup(\h1fff8000, \h7000, \h80000, \h10000)
      [] sdid = "146" -> kl_s32k14_setup(\h1fff0000, \hf000, \h100000, \h10000)
      [] sdid = "148" -> kl_s32k14_setup(\h1ffe0000, \h1f000, \h180000, \h80000)
      [] OTHER -> Decline

\* What follows a Decline is not executed.
kinetis_probe(c) ==
    KinetisMemory(c) \o <<Set("driver", "Kinetis"), Set("unsafe_enabled", "no"), Commands("kinetis")>> \o Accept

\* The recovery port of a Kinetis, a target of its own.
kinetis_mdm_probe(c) ==
    IF c.ap # "kinetis mdm" THEN Decline
    ELSE <<Set("mass_erase", "kinetis_mdm"), Set("driver", "Kinetis Recovery (MDM-AP)"),
           Commands("kinetis_mdm")>> \o Accept

\* The flash is looked for where only the larger part has any.
ke04_probe(c) ==
    LET flash == CASE Id(c, "40048000") = "KE04 16-24 pins" -> 8
                   [] Id(c, "40048000") = "KE04 44-80 pins" -> IF c.flash = 128 THEN 128 ELSE 64
                   [] OTHER -> 0
        quarter == KiB(flash) \div 32
    IN
    IF flash = 0 THEN Decline
    ELSE <<Set("driver", "KE04"), Set("mass_erase", "ke04")>> \o SplitRam(quarter, 3 * quarter)
         \o <<FlashOrDecline("ke04", 0, KiB(flash), \h200, \h200), Commands("ke04")>> \o Accept

---------------------------------------------------------------------------
(* i.MXRT: the flash is found by asking it in flash mode.                  *)

imxrt_enter ==
    <<Uses("imxrt"), Save("mpu_ctrl"), Put("mpu_ctrl"), Put("clocks"), Save("lut_ctrl"), Put("lut_ctrl"),
      Save("lut")>>
imxrt_exit == <<Uses("imxrt"), Restore("lut"), Restore("lut_ctrl"), Restore("mpu_ctrl")>>
imxrt_spi_mass_erase == imxrt_enter \o <<Put("lut")>> \o Tried(imxrt_exit) \o imxrt_exit \o Accept

\* Bits 7 to 4 of the boot configuration.
imxrt_boot_source(boot_src) ==
    CASE boot_src = 0 -> "flexspi"
      [] boot_src \div 4 = 1 -> "sd_card"
      [] boot_src \div 4 = 2 -> "emmc"
      [] boot_src \div 2 = 1 -> "slc_nand"
      [] boot_src = 1 -> "parallel_nor"
      [] OTHER -> "flexspi"

imxrt_add_flash(c) == <<Flash("imxrt", \h60000000, KiB(c.flash), 4096, 4096)>>
imxrt_probe(c) ==
    IF c.part # "88c" THEN Decline
    ELSE <<Storage("imxrt"), Option("INHIBIT_NRST"), Set("driver", "i.MXRT10xx"),
           Ram(\h20280000, \h80000), Ram(\h20200000, \h80000)>>
         \o (IF imxrt_boot_source(c.boot) # "flexspi" THEN <<>>
             ELSE imxrt_enter
                  \o <<Put("lut"), Set("mass_erase", "imxrt"), Set("enter_flash_mode", "imxrt"),
                       Set("exit_flash_mode", "imxrt")>>
                  \o (IF "no spi flash" \in c.has THEN <<>> ELSE imxrt_add_flash(c))
                  \o imxrt_exit)
         \o Accept
=============================================================================
