---------------------------- MODULE FlashDriver ----------------------------
(***************************************************************************)
(* A flash driver at work: a call of its erase, write or mass erase, or of *)
(* a monitor command, executes a program of FlashPrograms or               *)
(* OptionPrograms over a debug link that may fail.  The flash controller   *)
(* of the target, which is not under src/ and is modelled from how the     *)
(* drivers use it, meanwhile carries out what it was told.                 *)
(*                                                                         *)
(* After a link failure every access is lost and every read gives zero,    *)
(* until target_check_error reports and clears it (see AdiMem).            *)
(***************************************************************************)
EXTENDS OptionPrograms

\* [driver, ops, faults]: a driver, some of its operations, and the faults
\* that a session with it may meet: "link" (the debug link fails), "page"
\* (the controller fails a page), "slow" (a timeout of the driver expires).
CONSTANT Cases

VARIABLES
    case,    \* the driver of this behaviour
    op,      \* the operation in progress, or the last one
    todo,    \* the instructions left
    running, \* a call is in progress
    says,    \* what the call returns if it ends here
    result,  \* "none", or what the last call of the session returned
    ctl,     \* the controller: locked, mode, doing, pages, err, eop
    link,    \* TRUE while the debug link is sound
    cells,   \* contents of each page
    kept,    \* the words read back before an erase: "none", "held", "garbage"
    hit,     \* something failed in this session
    fresh    \* nothing was erased in this session yet

driverVars == <<case, op, todo, running, says, result, ctl, link, cells, kept, hit, fresh>>

Programs ==
    [stm32f1 |-> [erase |-> stm32f1_flash_erase, write |-> stm32f1_flash_write,
                  mass |-> stm32f1_mass_erase],
     stm32f4 |-> [erase |-> stm32f4_flash_erase, write |-> stm32f4_flash_write,
                  mass |-> stm32f4_mass_erase],
     stm32l4 |-> [erase |-> stm32l4_flash_erase, write |-> stm32l4_flash_write,
                  mass |-> stm32l4_mass_erase],
     stm32g0 |-> [erase |-> stm32g0_flash_erase, write |-> stm32g0_flash_write,
                  mass |-> stm32g0_mass_erase],
     stm32lx |-> [erase |-> stm32lx_nvm_prog_erase, write |-> stm32lx_nvm_prog_write],
     stm32lx_data |-> [erase |-> stm32lx_nvm_data_erase, write |-> stm32lx_nvm_data_write],
     stm32h7 |-> [erase |-> stm32h7_flash_erase, write |-> stm32h7_flash_write],
     ch32f1 |-> [erase |-> ch32f1_flash_erase, write |-> ch32f1_flash_write],
     nrf51 |-> [erase |-> nrf51_flash_erase, write |-> nrf51_flash_write,
                mass |-> nrf51_mass_erase],
     samd |-> [erase |-> samd_flash_erase, write |-> samd_flash_write],
     samd_dsu |-> [mass |-> samd_mass_erase, check |-> samd_cmd_mbist],
     samx5x |-> [erase |-> samx5x_flash_erase, write |-> samx5x_flash_write],
     sam4s |-> [erase |-> sam_flash_erase, write |-> sam_flash_write],
     kinetis |-> [erase |-> kinetis_flash_cmd_erase, write |-> kinetis_flash_cmd_write],
     ke04 |-> [erase |-> ke04_flash_erase, write |-> ke04_flash_write,
               mass |-> ke04_mass_erase],
     efm32 |-> [erase |-> efm32_flash_erase, write |-> efm32_flash_write,
                mass |-> efm32_mass_erase],
     lmi |-> [erase |-> lmi_flash_erase, mass |-> lmi_flash_erase],
     msp432 |-> [erase |-> msp432_flash_erase, write |-> msp432_flash_write],
     lpc |-> [erase |-> lpc_flash_erase, write |-> lpc_flash_write],
     lpc43xx |-> [erase |-> lpc43xx_iap_flash_erase, write |-> lpc_flash_write,
                  mass |-> lpc43xx_iap_init \o lpc43xx_iap_mass_erase],
     rp |-> [erase |-> rp_flash_erase, write |-> rp_flash_write, mass |-> rp_mass_erase],
     imxrt |-> [erase |-> imxrt_spi_flash_erase, write |-> imxrt_spi_flash_write,
                mass |-> imxrt_spi_mass_erase],
     lpc43x0 |-> [erase |-> lpc43x0_spi_flash_erase, write |-> lpc43x0_spi_flash_write,
                  mass |-> lpc43x0_spi_mass_erase],
     renesas |-> [erase |-> renesas_rv40_flash_erase, write |-> renesas_rv40_flash_write],
     lmi_stub |-> [erase |-> lmi_flash_erase, write |-> lmi_flash_write],
     lpc546xx |-> [erase |-> lpc546xx_flash_erase, write |-> lpc_flash_write],
     lpc55xx |-> [erase |-> lpc55xx_flash_erase, write |-> lpc55xx_flash_write,
                  check |-> lpc55xx_get_uuid],
     sam4l |-> [erase |-> sam4l_flash_erase, write |-> sam4l_flash_write],
     lpc17xx |-> [mass |-> lpc17xx_mass_erase],
     lpc40xx |-> [mass |-> lpc40xx_mass_erase],
     efm32_aap |-> [mass |-> efm32_aap_mass_erase],
     nrf51_mdm |-> [mass |-> nrf51_mdm_mass_erase],
     kinetis_mdm |-> [mass |-> kinetis_mdm_mass_erase],
     stm32lx_all |-> [mass |-> stm32lx_mass_erase],
     stm32h7_all |-> [mass |-> stm32h7_mass_erase, check |-> stm32h7_crc],
     lpc546xx_all |-> [mass |-> lpc546xx_mass_erase],
     stm32f1_option |-> [option |-> stm32f1_cmd_option_write,
                         unprotect |-> stm32f1_cmd_option_erase],
     stm32f4_option |-> [option |-> stm32f4_cmd_option,
                         defaults |-> stm32f4_option_write_default],
     stm32lx_option |-> [option |-> stm32lx_cmd_option, check |-> stm32lx_cmd_option_launch],
     stm32lx_eeprom |-> [option |-> stm32lx_cmd_eeprom],
     stm32l4_option |-> [option |-> stm32l4_cmd_option, defaults |-> stm32l4_cmd_option_erase],
     stm32l4_bank |-> [sector |-> stm32l4_cmd_erase_bank1],
     stm32g0_option |-> [option |-> stm32g0_cmd_option, defaults |-> stm32g0_cmd_option_erase,
                         sector |-> stm32g0_cmd_erase_bank],
     samd_option |-> [option |-> samd_set_user_row, check |-> samd_cmd_ssb],
     samx5x_option |-> [option |-> samx5x_set_flashlock, check |-> samx5x_cmd_ssb],
     samx5x_boot |-> [option |-> samx5x_set_bootprot],
     samx5x_dsu |-> [check |-> samx5x_cmd_mbist],
     sam_gpnvm |-> [option |-> sam_cmd_gpnvm],
     nrf51_uicr |-> [sector |-> nrf51_cmd_erase_uicr, option |-> nrf51_cmd_protect_flash],
     efm32_clw0 |-> [option |-> efm32_cmd_bootloader],
     ke04_sector |-> [sector |-> ke04_cmd_sector_erase],
     msp432_main |-> [sector |-> msp432_cmd_sector_erase, mass |-> msp432_cmd_erase_main],
     lpc546xx_sector |-> [sector |-> lpc546xx_cmd_erase_sector,
                          option |-> lpc546xx_cmd_write_sector],
     lpc43xx_boot |-> [option |-> lpc43xx_cmd_mkboot],
     rp_sector |-> [sector |-> rp_cmd_erase_sector]]

---------------------------------------------------------------------------
(* The flash controller.                                                   *)

\* Those that lock again after every operation, and those that come out of
\* reset locked.
OneShot ==
    {"lpc", "lpc43xx", "rp", "imxrt", "lpc43x0", "lpc546xx", "lpc17xx", "lpc40xx",
     "lpc546xx_all", "lpc546xx_sector", "lpc43xx_boot", "rp_sector"}
Lockable == OneShot \cup
    {"stm32f1", "stm32f4", "stm32l4", "stm32g0", "stm32lx", "stm32lx_data", "stm32h7",
     "ch32f1", "samd", "samx5x", "efm32", "msp432", "renesas", "stm32lx_all", "stm32h7_all",
     "stm32f1_option", "stm32f4_option", "stm32lx_option", "stm32lx_eeprom",
     "stm32l4_option", "stm32l4_bank", "stm32g0_option", "efm32_clw0", "msp432_main"}

\* Commands that need no unlocking, and operations that leave junk behind
\* when they fail.
Unguarded == {"init", "identify", "activate"}
Changing == {"erase", "program", "rewrite", "store", "store zero", "defaults", "overwrite"}

\* Drivers that return while their last command is in progress.
Unawaited == {"samd_option", "sam4l"}

\* Mass erases that take the success of what they call for a failure.
Inverted == {"stm32h7_all", "stm32lx_all", "lpc546xx_all"}

OutOfReset(driver) ==
    [locked |-> driver \in Lockable, mode |-> "read", doing |-> "none", pages |-> {},
     err |-> FALSE, eop |-> FALSE]

Covers(page) == IF page = All THEN 1..Pages ELSE {page}

\* A write to a control register.
Written(c, what) ==
    CASE what = "unlock" -> [c EXCEPT !.locked = FALSE]
      [] what = "lock" -> [c EXCEPT !.locked = TRUE]
      [] what = "clear" -> [c EXCEPT !.err = FALSE, !.eop = FALSE]
      [] what = "clear_eop" -> [c EXCEPT !.eop = FALSE]
      [] OTHER -> [c EXCEPT !.mode = what]

\* An operation begins, or is refused.
Started(c, what, page) ==
    IF (c.locked /\ what \notin Unguarded) \/ c.doing # "none" \/ what = "read" THEN [c EXCEPT !.err = TRUE]
    ELSE [c EXCEPT !.doing = what, !.pages = Covers(page)]

\* What a read of the status, or of a page, shows; a lost read shows zero.
Shows(page, lost) ==
    {"any"} \cup
    IF lost THEN {"idle", "zero", "link", "disabled", "not erase", "not blank", "no err"}
    ELSE (IF ctl.doing = "none" THEN {"idle", "ready"} ELSE {"busy"})
         \cup (IF ctl.err THEN {"err"} ELSE {"no err"})
         \cup (IF ctl.eop THEN {"eop"} ELSE {})
         \cup (IF ctl.locked THEN {"locked", "disabled"} ELSE {})
         \cup (IF ctl.mode = "read" THEN {} ELSE {"not read"})
         \cup (IF ctl.mode = "erase" THEN {} ELSE {"not erase"})
         \cup (IF \A p \in Covers(page) : cells[p] = "blank" THEN {} ELSE {"not blank"})

\* What an operation makes of a page.  A store writes the new value to page
\* 1 and the words that were read to the others.
Stored(p) ==
    CASE p = 1 -> "data"
      [] p # 1 /\ kept = "none" -> cells[p]
      [] p # 1 /\ kept = "held" -> "old"
      [] p # 1 /\ kept = "garbage" -> "garbage"
Outcome(p, doing) ==
    CASE doing = "erase" -> "blank"
      [] doing = "program" -> IF cells[p] = "blank" THEN "data" ELSE "junk"
      [] doing = "rewrite" -> IF cells[p] = "blank" THEN Stored(p) ELSE "junk"
      [] doing = "store" -> Stored(p)
      [] doing = "store zero" -> IF p = 1 THEN "data" ELSE "garbage"
      [] doing \in {"defaults", "overwrite", "activate"} -> "data"
      [] OTHER -> cells[p]
After(p) == IF p \in ctl.pages THEN Outcome(p, ctl.doing) ELSE cells[p]

\* The operation ends; a page may fail.
Finish ==
    /\ ctl.doing # "none"
    /\ \E ok \in {TRUE} \cup (IF "page" \in case.faults /\ ~hit THEN {FALSE} ELSE {}) :
          /\ cells' = [p \in 1..Pages |->
                         IF p \notin ctl.pages THEN cells[p]
                         ELSE IF ok THEN After(p)
                         ELSE IF ctl.doing \in Changing THEN "junk" ELSE cells[p]]
          /\ ctl' = IF ctl.doing = "launch" THEN OutOfReset(case.driver) ELSE
                    [ctl EXCEPT !.doing = "none", !.pages = {},
                       !.err = @ \/ ~ok, !.eop = @ \/ (ok /\ ctl.doing # "buffer_reset"),
                       !.locked = @ \/ case.driver \in OneShot]
          /\ hit' = (hit \/ ~ok)
    /\ UNCHANGED <<case, op, todo, running, says, result, link, kept, fresh>>

---------------------------------------------------------------------------
(* The driver.                                                             *)

Holds(what) == \A p \in 1..Pages : After(p) = what

DriverInit ==
    /\ case \in Cases
    /\ op = "none" /\ todo = <<>> /\ running = FALSE /\ says = TRUE /\ result = "none"
    /\ ctl = OutOfReset(case.driver)
    /\ link = TRUE
    /\ cells = [p \in 1..Pages |-> "old"] /\ kept = "none"
    /\ hit = FALSE /\ fresh = TRUE

\* A request of GDB, or a monitor command on pages that are as they were;
\* after a failure the session ends.  A reload of the options is over by then.
Begin(o) ==
    /\ ~running
    /\ result # "failed"
    /\ ctl.doing # "launch"
    /\ CASE o = "write" -> Holds("blank")
         [] o \in {"erase", "mass"} -> TRUE
         [] OTHER -> Holds("old")
    /\ op' = o
    /\ todo' = Programs[case.driver][o]
    /\ running' = TRUE
    /\ says' = TRUE
    /\ result' = "none"
    /\ kept' = "none"
    /\ fresh' = (fresh /\ o = "write")
    /\ UNCHANGED <<case, ctl, link, cells, hit>>

\* Whether an access is lost: the link failed before, or fails now.
Losses == {~link} \cup (IF "link" \in case.faults /\ ~hit THEN {TRUE} ELSE {})

GoOn == todo' = Tail(todo) /\ UNCHANGED says
FailCall(i) == todo' = i.then /\ says' = (says /\ i.says)

\* A write of a register, of the array or of a command, or a read of the
\* array.  The bus holds an access to the array back while the controller is
\* busy.
Put ==
    /\ todo # <<>>
    /\ LET i == Head(todo) IN
       /\ i.do \in {"write", "data", "command", "fetch"}
       /\ \E lost \in Losses :
             /\ i.do \in {"data", "fetch"} /\ ~lost => ctl.doing = "none"
             /\ link' = ~lost
             /\ hit' = (hit \/ lost)
             /\ kept' = IF i.do # "fetch" THEN kept ELSE IF lost THEN "garbage" ELSE "held"
             /\ ctl' = IF lost \/ i.do = "fetch" THEN ctl
                       ELSE IF i.do = "write" THEN Written(ctl, i.what)
                       ELSE Started(ctl, IF i.do = "data" THEN ctl.mode ELSE i.what, i.page)
    /\ GoOn
    /\ UNCHANGED <<case, op, running, result, cells, fresh>>

\* One read of a polling loop.
PollStep ==
    /\ todo # <<>>
    /\ LET i == Head(todo) IN
       /\ i.do = "poll"
       /\ \E lost \in Losses :
             LET seen == Shows(i.page, lost)
                 over == i.until \cap seen # {}
                 checks == i.each \cup (IF over THEN i.last ELSE i.loop)
                 fails == checks \cap seen # {}
                 late == ~over /\ "timeout" \in checks /\ "slow" \in case.faults
             IN
             /\ link' = (~lost \/ "link" \in checks)
             /\ \/ /\ fails
                   /\ FailCall(i)
                   /\ hit' = (hit \/ lost)
                \/ /\ ~fails
                   /\ over
                   /\ GoOn
                   /\ hit' = (hit \/ lost)
                \/ /\ ~fails
                   /\ ~over
                   /\ UNCHANGED <<todo, says>>
                   /\ hit' = (hit \/ lost)
                \/ /\ ~fails
                   /\ late
                   /\ ~hit
                   /\ FailCall(i)
                   /\ hit' = TRUE
    /\ UNCHANGED <<case, op, running, result, ctl, cells, kept, fresh>>

\* target_check_error outside a loop.
CheckLink ==
    /\ todo # <<>>
    /\ Head(todo).do \in {"check", "forget"}
    /\ IF ~link /\ Head(todo).do = "check" THEN FailCall(Head(todo)) ELSE GoOn
    /\ link' = TRUE
    /\ UNCHANGED <<case, op, running, result, ctl, cells, kept, hit, fresh>>

\* A choice that depends on data: nothing left to do, or the rest.
Choose ==
    /\ todo # <<>>
    /\ Head(todo).do = "maybe"
    /\ todo' \in {<<>>, Tail(todo)}
    /\ UNCHANGED <<case, op, running, says, result, ctl, link, cells, kept, hit, fresh>>

ReturnCall ==
    /\ running
    /\ todo = <<>>
    /\ running' = FALSE
    /\ result' = IF says THEN "ok" ELSE "failed"
    /\ UNCHANGED <<case, op, todo, says, ctl, link, cells, kept, hit, fresh>>

\* The reset of the target ends what its flash controller is doing, and
\* cortexm_reset ends with target_check_error.
Resets ==
    /\ cells' = [p \in 1..Pages |->
                   IF p \in ctl.pages /\ ctl.doing \in Changing THEN "junk" ELSE cells[p]]
    /\ ctl' = OutOfReset(case.driver)
    /\ link' = TRUE

\* target_reset within a command.
ResetTarget ==
    /\ todo # <<>>
    /\ Head(todo).do = "reset"
    /\ Resets
    /\ GoOn
    /\ UNCHANGED <<case, op, running, result, kept, hit, fresh>>

\* target_exit_flash_mode.
EndSession ==
    /\ ~running
    /\ result # "none"
    /\ Resets
    /\ result' = "none"
    /\ hit' = FALSE
    /\ fresh' = TRUE
    /\ UNCHANGED <<case, op, todo, running, says, kept>>

DriverStep == Put \/ PollStep \/ CheckLink \/ Choose \/ ResetTarget \/ ReturnCall

DriverNext ==
    \/ \E o \in case.ops : Begin(o)
    \/ Put
    \/ PollStep
    \/ CheckLink
    \/ Choose
    \/ ResetTarget
    \/ ReturnCall
    \/ Finish
    \/ EndSession

DriverSpec ==
    DriverInit /\ [][DriverNext]_driverVars /\ WF_driverVars(DriverStep) /\ WF_driverVars(Finish)

---------------------------------------------------------------------------
(* Properties.                                                             *)

\* What a call asks for.
Wanted(p) ==
    CASE op \in {"erase", "mass"} -> "blank"
      [] op \in {"write", "defaults"} -> "data"
      [] op = "sector" -> IF p = 1 THEN "blank" ELSE "old"
      [] op = "option" -> IF p = 1 THEN "data" ELSE "old"
      [] op = "unprotect" -> IF p = 1 THEN "data" ELSE "blank"
      [] op = "check" -> "old"

\* What a driver or a monitor command tells its user is true.  When it
\* reports success, the controller has finished, so that the reset that ends
\* the session interrupts nothing, and every page holds what was asked for:
\* a command for one word, bank or sector leaves the others as they were.
\* It reports failure only if something failed in the session, or if a write
\* came without the erase that unlocks the controller, or where the code
\* takes success for failure (Inverted).  Words that a lost
\* read made up are never written back.
Truthful ==
    /\ result = "ok" =>
         /\ ctl.doing \in {"none", "launch"} \/ case.driver \in Unawaited
         /\ \A p \in 1..Pages : After(p) = Wanted(p)
    /\ result = "failed" => hit \/ (op = "write" /\ fresh) \/ (op = "mass" /\ case.driver \in Inverted)
    /\ \A p \in 1..Pages : cells[p] # "garbage"

\* Every call of a driver returns: no wait loop outlives the operation it
\* waits for, the failure of a page or, where the driver checks it, of the
\* debug link.
DriverReturns == running ~> ~running

=============================================================================
