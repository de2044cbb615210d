----------------------------- MODULE MCSessions -----------------------------
(***************************************************************************)
(* Two targets for the sessions, and the cases of TargetProbe: the chips   *)
(* that the drivers know, one or more of each branch of each probe         *)
(* function, chips that are declined, and what may go wrong with them.     *)
(***************************************************************************)
EXTENDS Sessions

LinkFaults == {"raise", "attach"}

Chip(maker, cpu, part, reg, id, flash, ram, has) ==
    [maker |-> maker, core |-> cpu, part |-> part, reg |-> reg, id |-> id,
     flash |-> flash, ram |-> ram, has |-> has, boot |-> 0, ap |-> "none"]
Boot(chip, boot) == [chip EXCEPT !.boot = boot]
Ap(ap) == [Chip("AP", "none", "none", "none", "none", 0, 0, {}) EXCEPT !.ap = ap]

Stm(cpu, reg, id) == Chip("STM", cpu, id, reg, id, 512, 64, {})
StmF1 == {Stm("M3", DBGMCU_IDCODE, id) : id \in {"410", "414", "430", "422", "432", "29b", "418"}}
         \cup {Stm("M0", DBGMCU_IDCODE_F0, id) : id \in {"444", "445", "440", "448", "442"}}
StmF4 == {Stm("M4", DBGMCU_IDCODE, id) : id \in {"411", "413", "419", "421", "423", "431", "433",
                                                "434", "441", "463"}}
         \cup {[Stm("M7", DBGMCU_IDCODE, id) EXCEPT !.has = has] :
                  id \in {"449", "451", "452"}, has \in {{}, {"nDBANK"}}}
StmL4 == {[Stm("M4", DBGMCU_IDCODE, id) EXCEPT !.has = has] :
            id \in {"435", "415", "461", "470", "468", "469", "479"}, has \in {{}, {"dual"}}}
         \cup {Chip("STM", "M4", id, "none", "none", 1024, 0, {"DPv2", "AP0"}) : id \in {"4970", "4950", "4940"}}
StmL5 == {Chip("STM", "M33", "472", "none", "none", 512, 0, has) : has \in {{}, {"dual"}}}
StmL0 == {[Stm("M0", "none", id) EXCEPT !.has = has] : id \in {"416", "417"}, has \in {{}, {"protected"}}}
StmG0 == {Stm("M0", "none", id) : id \in {"456", "460", "467"}}
         \cup {[Stm("M0", DBGMCU_IDCODE_F0, id) EXCEPT !.part = "466"] : id \in {"466", "443", "453", "999"}}
StmH7 == {Stm("M7", "none", "4500")}

Alike == {Chip("GIGADEVICE", cpu, "none", DBGMCU_IDCODE, "410", 128, 20, {}) : cpu \in {"M3", "M4"}}
         \cup {Chip("ARM", "M23", "4cb", DBGMCU_IDCODE_F0, "410", 64, 8, {}),
               Chip("GIGADEVICE", "M4", "2b3", "none", "none", 3072, 256, {}),
               Chip("ARM", "M4", "4c4", DBGMCU_IDCODE, "70050", 256, 96, {"at32f40"}),
               Chip("ARM", "M4", "4c4", DBGMCU_IDCODE, "70030", 128, 32, {}),
               Chip("ARM", "M0", "471", DBGMCU_IDCODE_MM32L0, "cc568091", 128, 8, {}),
               Chip("ARM", "M3", "4c3", DBGMCU_IDCODE_MM32F3, "cc9aa0e7", 512, 128, {}),
               Chip("ARM_CHINA", "M33", "none", DBGMCU_IDCODE_MM32F3, "4d4d0800", 256, 32, {}),
               Chip("ARM", "M3", "4c3", DBGMCU_IDCODE, "410", 64, 20, {"rev 2000", "fast unlock"}),
               Chip("ARM", "M3", "4c3", DBGMCU_IDCODE, "410", 64, 20, {"rev 2000"})}

Lpc == {Chip("ARM", "M0", "471", "400483f4", id, 0, 0, {}) : id \in {"LPC11xx", "LPC1112", "LPC8N04"}}
       \cup {Chip("ARM", "M0", "4c0", "400483f8", id, 0, 0, {}) : id \in {"LPC802", "LPC845", "LPC1124"}}
       \cup {Chip("ASCII", "M3", "none", "400483f4", "LPC1343", 0, 0, {}),
             Chip("ASCII", "M3", "none", "iap", "lpc17xx", 0, 0, {}),
             Chip("ASCII", "M3", "none", "iap", "other", 0, 0, {}),
             Chip("ARM", "M4", "4c4", "iap", "lpc40xx", 0, 0, {}),
             Chip("ARM", "M4", "4c4", "40000ff8", "J512", 0, 0, {}),
             Chip("ARM", "M4", "4c4", "40000ff8", "J256", 0, 0, {}),
             Chip("ARM", "M4", "4c4", "40043200", "invalid", 0, 0, {"flash"})}
       \cup {Chip("ARM", cpu, part, "40043200", "4337", 0, 0, {"flash", size}) :
               cpu \in {"M4"}, part \in {"4c4"}, size \in {"43x2", "43x3", "43x5", "43x7", "43x1"}}
       \cup {Chip("ARM", "M0", "471", "40043200", "4330", 4096, 0, {"flashless", "sram", "spifi"}),
             Chip("ARM", "M4", "4c4", "40043200", "4370", 4096, 0, {"flashless", "sram", "spi", "otp"}),
             Chip("ARM", "M4", "4c4", "40043200", "4310", 4096, 0, {"flashless", "spifi"}),
             Chip("ARM", "M4", "4c4", "40043200", "4320", 4096, 0, {"flashless"})}
Lpc15 == {Chip("ARM", "M3", "4c3", "400743f8", id, 0, 0, {}) : id \in {"1549", "1547"}}
Lpc55 == {Chip("NXP", "M33", "none", "50000ff8", "55x6", 512, 0, has) : has \in {{}, {"AP1"}, {"no iap"}}}
BootRom == {Chip("ARM", "M4", "4c4", "40043200", "4350", 4096, 0, {"flashless", "boot rom", "spifi"})}

Sdid(id, flash, ram) == Chip("FREESCALE", "M0", "none", "40048024", id, flash, ram, {})
Kinetis == {Sdid(id, 0, 0) : id \in {"251", "231", "031", "220", "620", "118", "142", "148", "999"}}
           \cup {Sdid("161", 64, 16), Sdid("161", 0, 16), Sdid("271", 0, 8), Sdid("K12", 256, 0), Sdid("K12", 512, 0)}
           \cup {Chip("ASCII", "M0", "none", "40048000", "KE04 44-80 pins", flash, 0, {}) : flash \in {64, 128}}
           \cup {Boot(Chip("FREESCALE", "M7", "88c", "none", "none", 8192, 0, has), boot) :
                   has \in {{}, {"no spi flash"}}, boot \in {0, 4}}

Sam == {Chip("ATMEL", "M4", "none", "400e0740", "SAM4L", 256, 32, {})}
       \cup {Chip("ARM", "M4", "4c4", "400e0740", "SAM4S", flash, 0, {}) : flash \in {512, 1024}}
       \cup {Chip("ASCII", "M3", "none", "400e0740", id, flash, 0, {}) :
               id \in {"SAM3N/S", "SAM3U"}, flash \in {128, 512}}
       \cup {Chip("ASCII", "M3", "none", "400e0940", "SAM3X", 512, 0, {})}
       \cup {Chip("ATMEL", "M0", "none", "41002018", id, 16, 0, has) :
               id \in {"D09", "D11", "D20 rev B", "D21"}, has \in {{}, {"protected"}, {"nRST"}}}
       \cup {Boot(Chip("ATMEL", "M7", "none", "400e0940", "SAME70", 2048, 384, {}), 2)}
Samx5x == {Boot(Chip("ATMEL", "M4", "none", "41002018", "D51", 0, 0, {}), 19)}

Others == {Boot(Chip("ENERGY_MICRO", "M3", "none", "0fe081fc", "EFM32", 128, 32, {}), family) :
             family \in {71, 72, 76, 81, 85, 100, 103, 40, 99}}
          \cup {Chip("ARM", "M3", "4c3", "400fe004", id, 0, 0, {"Stellaris"}) : id \in {"LM3S3748", "LM3S8962", "other"}}
          \cup {Chip("ARM", "M4", "4c4", "400fe004", id, 0, 0, {"Tiva"}) :
                  id \in {"TM4C123GH6PM", "TM4C1230C3PM", "TM4C1294NCPDT"}}
          \cup {Chip("TEXAS", "M4", "none", "201004", "MSP432P401R", 256, 64, {}),
                Chip("NORDIC", "M4", "none", "10000060", "nRF52", 512, 64, {}),
                Chip("NORDIC", "M0", "none", "10000060", "nRF51", 256, 16, {"small pages"})}
          \cup {Chip("RASPBERRY", "M0", "none", "10", "RP2040", 2048, 0, has) : has \in {{}, {"por"}}}
          \cup {Chip("RENESAS", "M33", id, "10080f0", id, 512, 0, {}) : id \in {"RA4M2", "RA4E2", "RA6M4", "RA6M5", "RA6T2"}}
          \cup {Chip("RENESAS", "M4", id, "root table", id, 1024, 0, {}) :
                  id \in {"RA2A1", "RA6M1", "RA6M2", "RA6M3", "RA6T1", "RA4W1", "RA9X9"}}

Unknown == {Chip("CYPRESS", "M4", "none", "none", "none", 0, 0, {})}
Ports == {Ap(port) : port \in {"kinetis mdm", "nrf52 mdm", "efm32 aap", "lpc55 dmap", "rp rescue", "other"}}

Case(chips, may, n) == {[chip |-> chip, may |-> may, scans |-> n] : chip \in chips}
\* The chips that are tried with a heap that runs out.
Short == {chip \in StmF1 \cup StmF4 \cup StmL0 : chip.id \in {"410", "411", "417"}}
         \cup {chip \in Lpc \cup Kinetis : chip.id \in {"lpc17xx", "KE04 44-80 pins", "4330"}}
         \cup {chip \in Kinetis : chip.part = "88c"} \cup {chip \in Others : chip.id \in {"RP2040", "RA6M2"}}
         \cup {chip \in Sam : chip.id = "SAME70"}
MCCases ==
    Case(StmF1 \cup StmF4 \cup StmL4 \cup StmL0 \cup StmG0 \cup Alike \cup Lpc \cup Lpc15 \cup Lpc55 \cup Kinetis
         \cup Sam \cup Samx5x \cup Others \cup Unknown, {"rescan", "call"}, 2)
    \cup Case(Short, {"memory"}, 1)
    \cup Case(Unknown, {"priv"}, 1) \cup Case(StmH7, {"call"}, 1) \cup Case(Ports, {}, 2)
    \cup Case(StmH7 \cup StmL5 \cup BootRom, {"keeps"}, 2)
=============================================================================
