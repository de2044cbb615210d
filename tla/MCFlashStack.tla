---------------------------- MODULE MCFlashStack ----------------------------
(***************************************************************************)
(* Two adjacent regions: the first has a write size above the ceiling, so  *)
(* that its buffer is one write; the second has buffers of two writes.     *)
(* Every driver with the faults under which what it returns can be relied  *)
(* on.                                                                     *)
(***************************************************************************)
EXTENDS FlashStack

MCFlash ==
    << [start |-> 4, length |-> 4, blocksize |-> 4, writesize |-> 4],
       [start |-> 0, length |-> 4, blocksize |-> 2, writesize |-> 1] >>

MCRequests ==
    { [addr |-> 0, len |-> 1], [addr |-> 1, len |-> 2], [addr |-> 1, len |-> 5],
      [addr |-> 6, len |-> 2], [addr |-> 4, len |-> 5] }

MCFaults == {"enter", "erase", "write", "done", "alloc"}

Of(drivers, operations, faults) ==
    [driver : drivers, ops : {operations}, faults : {faults}]

MCOptionCases ==
    Of({"stm32f1_option"}, {"option", "unprotect"}, {"link"})
    \cup Of({"stm32lx_option"}, {"option", "check"}, {"link", "page"})
    \cup Of({"stm32lx_eeprom", "sam_gpnvm"}, {"option"}, {"link", "page"})
    \cup Of({"stm32l4_bank"}, {"sector"}, {"link", "page"})
    \cup Of({"stm32h7_all", "samd_dsu", "samx5x_dsu"}, {"check"}, {"link", "page"})
    \cup Of({"samx5x_option"}, {"option", "check"}, {"link"})
    \cup Of({"nrf51_uicr"}, {"option", "sector"}, {"link"})
    \cup Of({"msp432_main"}, {"sector", "mass"}, {"page"})
    \cup Of({"lpc546xx"}, {"erase", "write"}, {"page"})
    \cup Of({"lpc55xx"}, {"erase", "write", "check"}, {"page"})
    \cup Of({"lpc17xx", "lpc40xx"}, {"mass"}, {"page"})
    \cup Of({"lpc546xx_sector"}, {"option", "sector"}, {"page"})
    \cup Of({"lpc43xx_boot"}, {"option"}, {"page"})
    \cup Of({"sam4l"}, {"erase", "write"}, {"slow"})
    \cup Of({"stm32f4_option"}, {"defaults"}, {})
    \cup Of({"stm32l4_option"}, {"option", "defaults"}, {})
    \cup Of({"stm32g0_option"}, {"option", "defaults", "sector"}, {})
    \cup Of({"samd_option"}, {"option", "check"}, {})
    \cup Of({"samx5x_boot", "efm32_clw0"}, {"option"}, {})
    \cup Of({"ke04_sector", "rp_sector"}, {"sector"}, {})
    \cup Of({"efm32_aap", "nrf51_mdm"}, {"mass"}, {})
    \cup Of({"lmi_stub"}, {"erase", "write"}, {})
    \cup Of({"stm32h7_all", "stm32lx_all", "lpc546xx_all"}, {"mass"}, {})

MCCases ==
    Of({"stm32f4", "stm32l4"}, {"erase", "write", "mass"}, {"link", "page"})
    \cup Of({"stm32lx", "stm32lx_data", "stm32h7", "samx5x", "sam4s"},
            {"erase", "write"}, {"link", "page"})
    \cup Of({"renesas"}, {"erase", "write"}, {"link", "page", "slow"})
    \cup Of({"stm32f1"}, {"erase", "mass"}, {"link", "page"})
    \cup Of({"samd_dsu"}, {"mass"}, {"link", "page"})
    \cup Of({"nrf51"}, {"erase", "write", "mass"}, {"link"})
    \cup Of({"samd"}, {"erase", "write"}, {"link"})
    \cup Of({"lmi"}, {"erase", "mass"}, {"link"})
    \cup Of({"stm32g0"}, {"erase", "write", "mass"}, {"page"})
    \cup Of({"kinetis", "ke04", "msp432", "lpc"}, {"erase", "write"}, {"page"})
    \cup Of({"lpc43xx"}, {"erase", "mass", "write"}, {"page"})
    \cup Of({"rp", "imxrt", "lpc43x0"}, {"erase", "write", "mass"}, {})
    \cup Of({"ke04"}, {"mass", "write"}, {})
    \cup Of({"ch32f1"}, {"erase", "write"}, {})
    \cup Of({"efm32"}, {"erase", "write", "mass"}, {})
    \cup MCOptionCases

=============================================================================
