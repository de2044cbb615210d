--------------------------- MODULE FlashPrograms ---------------------------
(***************************************************************************)
(* What the flash drivers (src/target/stm32*.c, samd.c, kinetis.c, ...) do *)
(* to a flash controller, as sequences of instructions: writes to its      *)
(* registers, commands, writes to the array and reads of its status.       *)
(* FlashDriver executes them.  A call covers the pages 1..Pages.           *)
(*                                                                         *)
(* The callbacks prepare and done of a region, which target_flash.c calls  *)
(* around erase and write, are part of the programs.                       *)
(***************************************************************************)
EXTENDS Integers, Sequences, SequencesExt

CONSTANT Pages   \* pages (or units of programming) of a call

ASSUME PagesAssumption == Pages \in Nat \ {0}

All == 0         \* a command for every page at once

Instr(do, what, page) ==
    [do |-> do, what |-> what, page |-> page, until |-> {"any"},
     each |-> {}, loop |-> {}, last |-> {}, then |-> <<>>, says |-> FALSE]

Write(what) == Instr("write", what, All)        \* a control register
Data(page) == Instr("data", "data", page)       \* a page of the array
Command(what, page) == Instr("command", what, page)
Check == Instr("check", "link", All)            \* return false if target_check_error
Forget == Instr("forget", "link", All)          \* target_check_error, result unused
Maybe == Instr("maybe", "none", All)            \* return early, or go on

\* Read the status until it shows one of until.  A read that shows one of
\* each fails the call, whatever else it shows; one of loop, if it is not
\* the last read; one of last, if it is.
Poll(until, each, loop, last) ==
    [Instr("poll", "status", All) EXCEPT
       !.until = until, !.each = each, !.loop = loop, !.last = last]
Read(last) == Poll({"any"}, {}, {}, last)
NotBlank(page) == [Read({"not blank"}) EXCEPT !.page = page]   \* fail unless it reads as erased

\* What a failure of one of the instructions leads to: more instructions
\* before the return; a return of true.
OnFail(seq, cleanup) == [i \in DOMAIN seq |-> [seq[i] EXCEPT !.then = cleanup]]
Unnoticed(seq) == [i \in DOMAIN seq |-> [seq[i] EXCEPT !.says = TRUE]]

EachPage(body(_)) == FlattenSeq([p \in 1..Pages |-> body(p)])
EachData == [p \in 1..Pages |-> Data(p)]

---------------------------------------------------------------------------
(* STM32F1.  The wait ends on EOP even if BSY is still set.                *)

stm32f1_flash_unlock == <<Write("unlock"), Read({"locked"})>>
stm32f1_flash_clear_eop == <<Write("clear")>>

BusyWaitEopOnly == <<Poll({"eop"}, {"link"}, {}, {"err"})>>   \* mutant: BSY is not looked at

stm32f1_flash_busy_wait == <<Poll({"eop", "idle"}, {"link"}, {}, {"err"})>>

stm32f1_flash_erase ==
    stm32f1_flash_unlock \o
    EachPage(LAMBDA p : stm32f1_flash_clear_eop \o <<Command("erase", p)>>
                        \o stm32f1_flash_busy_wait)
stm32f1_flash_write ==
    stm32f1_flash_clear_eop \o <<Write("program")>> \o EachData \o stm32f1_flash_busy_wait
stm32f1_mass_erase ==
    stm32f1_flash_unlock \o stm32f1_flash_unlock \o stm32f1_flash_clear_eop
    \o <<Command("erase", All)>> \o stm32f1_flash_busy_wait

(* STM32F4 and F7. *)

stm32f4_flash_unlock == <<Write("unlock")>>
stm32f4_flash_busy_wait == <<Poll({"idle"}, {"err", "link"}, {}, {})>>

stm32f4_flash_erase ==
    stm32f4_flash_unlock \o
    EachPage(LAMBDA p : <<Command("erase", p)>> \o stm32f4_flash_busy_wait)
stm32f4_flash_write ==
    <<Write("program")>> \o EachData \o stm32f4_flash_busy_wait
stm32f4_mass_erase ==
    stm32f4_flash_unlock \o <<Command("erase", All)>> \o stm32f4_flash_busy_wait

(* STM32L4, L5, U5, G4 and WB. *)

stm32l4_flash_unlock == <<Write("unlock")>>

BusyWaitNoStatus == <<Poll({"idle"}, {"link"}, {}, {})>>   \* mutant: the errors are not looked at

stm32l4_flash_busy_wait == <<Poll({"idle"}, {"err", "link"}, {}, {})>>

stm32l4_flash_erase ==
    <<Write("clear")>> \o stm32l4_flash_unlock \o stm32l4_flash_busy_wait \o
    EachPage(LAMBDA p : <<Command("erase", p)>> \o stm32l4_flash_busy_wait)
stm32l4_flash_write ==
    <<Write("program")>> \o EachData \o stm32l4_flash_busy_wait
stm32l4_mass_erase ==
    stm32l4_flash_unlock \o <<Command("erase", All)>> \o stm32l4_flash_busy_wait

(* STM32G0.  Every return finishes the operation, which locks. *)

stm32g0_flash_op_finish == <<Write("clear_eop"), Write("read"), Write("lock")>>
stm32g0_wait_busy ==
    OnFail(<<Poll({"idle"}, {}, {"link"}, {})>>, stm32g0_flash_op_finish)
stm32g0_check_error == OnFail(<<Read({"err"})>>, stm32g0_flash_op_finish)

stm32g0_flash_erase ==
    stm32g0_wait_busy \o <<Write("clear"), Write("unlock")>> \o
    EachPage(LAMBDA p : <<Command("erase", p)>> \o stm32g0_wait_busy)
    \o stm32g0_check_error \o stm32g0_flash_op_finish
stm32g0_flash_write ==
    <<Write("unlock"), Write("program")>> \o EachData \o stm32g0_wait_busy
    \o stm32g0_check_error \o stm32g0_flash_op_finish
stm32g0_mass_erase ==
    <<Write("unlock"), Command("erase", All)>> \o stm32g0_wait_busy
    \o stm32g0_check_error \o stm32g0_flash_op_finish

(* STM32L0 and L1.  A write to the array starts the erase of a page. *)

stm32lx_nvm_lock == <<Write("lock")>>
stm32lx_nvm_prog_data_unlock == <<Write("lock"), Write("unlock"), Read({"locked"})>>
stm32lx_nvm_busy_wait ==
    <<Poll({"idle"}, {}, {"link"}, {}), Poll({"any"}, {"link"}, {}, {"err"})>>

stm32lx_nvm_prog_erase ==
    stm32lx_nvm_prog_data_unlock
    \o <<Write("erase"), Read({"not erase"}), Write("clear")>> \o EachData
    \o stm32lx_nvm_lock \o stm32lx_nvm_busy_wait
stm32lx_nvm_prog_write ==
    stm32lx_nvm_prog_data_unlock \o stm32lx_nvm_busy_wait
    \o <<Write("program")>> \o EachData \o stm32lx_nvm_lock \o stm32lx_nvm_busy_wait
stm32lx_nvm_data_erase ==
    stm32lx_nvm_prog_data_unlock
    \o <<Write("erase"), Read({"not erase"})>> \o EachData
    \o stm32lx_nvm_lock \o stm32lx_nvm_busy_wait
\* The word that is stored is not modelled: the code takes it from
\* data[offset], where offset counts bytes.
stm32lx_nvm_data_write ==
    stm32lx_nvm_prog_data_unlock \o <<Write("program")>>
    \o EachPage(LAMBDA p : <<Data(p), Check>>) \o stm32lx_nvm_lock \o stm32lx_nvm_busy_wait

(* STM32H7. *)

stm32h7_flash_busy_wait ==
    OnFail(<<Poll({"idle"}, {"err", "link"}, {}, {})>>, <<Write("clear")>>)
stm32h7_flash_unlock ==
    stm32h7_flash_busy_wait \o <<Write("unlock"), Read({"locked"})>>

stm32h7_flash_erase ==
    stm32h7_flash_unlock \o
    EachPage(LAMBDA p : <<Command("erase", p)>> \o stm32h7_flash_busy_wait)
stm32h7_flash_write ==
    stm32h7_flash_unlock \o <<Write("program")>> \o EachData
    \o stm32h7_flash_busy_wait \o <<Write("read")>>

(* CH32F1.  The wait macros return -1, which is true, when the link fails. *)

ch32f1_flash_unlock == <<Write("unlock"), Read({"locked"})>>
ch32f1_flash_lock == <<Write("lock")>>
ch32f1_wait_eop == Unnoticed(<<Poll({"eop"}, {"link"}, {}, {})>>)
ch32f1_wait_busy == Unnoticed(<<Poll({"idle"}, {"link"}, {}, {})>>)
ch32f1_buffer_clear == <<Write("program"), Command("buffer_reset", All)>> \o ch32f1_wait_busy
ch32f1_upload == <<Command("buffer", All), Poll({"eop"}, {"link"}, {}, {}), Write("clear_eop")>>
ch32f1_status == OnFail(<<Read({"err"})>>, ch32f1_flash_lock) \o ch32f1_flash_lock

ch32f1_flash_erase ==
    ch32f1_flash_unlock \o
    EachPage(LAMBDA p : <<Command("erase", p)>> \o ch32f1_wait_eop \o <<Write("clear_eop")>>)
    \o ch32f1_status
ch32f1_flash_write ==
    EachPage(LAMBDA p : ch32f1_flash_unlock \o ch32f1_wait_busy \o ch32f1_buffer_clear
                        \o <<NotBlank(p)>> \o ch32f1_upload
                        \o <<Command("program", p)>> \o ch32f1_wait_eop
                        \o <<Write("clear_eop")>> \o ch32f1_status)

---------------------------------------------------------------------------
(* nRF51.  flash_done runs after a failed erase or write too.              *)

nrf51_wait_ready == <<Poll({"ready"}, {}, {"link"}, {})>>
nrf51_flash_prepare(mode) == <<Write(mode)>> \o nrf51_wait_ready
nrf51_flash_done == <<Write("read")>> \o nrf51_wait_ready

nrf51_flash_erase ==
    nrf51_flash_prepare("erase") \o
    OnFail(EachPage(LAMBDA p : <<Command("erase", p)>> \o nrf51_wait_ready), nrf51_flash_done)
    \o nrf51_flash_done
nrf51_flash_write ==
    nrf51_flash_prepare("program") \o
    OnFail(EachData \o nrf51_wait_ready, nrf51_flash_done) \o nrf51_flash_done
nrf51_mass_erase ==
    nrf51_flash_prepare("erase") \o <<Command("erase", All)>> \o nrf51_wait_ready

(* SAM D.  The write is one page; the chip erase belongs to the DSU. *)

samd_wait_nvm_ready == <<Poll({"ready"}, {}, {"link"}, {})>>

samd_flash_erase ==
    EachPage(LAMBDA p : <<Write("unlock"), Command("erase", p)>>
                        \o samd_wait_nvm_ready \o <<Write("lock")>>)
samd_flash_write ==
    <<Write("unlock"), Command("program", All)>> \o samd_wait_nvm_ready \o <<Write("lock")>>
samd_wait_dsu_ready == <<Poll({"ready"}, {"link"}, {}, {"err"})>>
samd_mass_erase ==
    <<Write("clear"), Command("erase", All)>> \o samd_wait_dsu_ready

(* SAM D5x and E5x.  The lock settings that a lost link reads as zero say  *)
(* that the region is locked.                                              *)

samx5x_clear_nvm_error == <<Write("clear")>>
samx5x_wait == <<Poll({"ready"}, {}, {"link", "err"}, {}), Check, Read({"err"})>>

samx5x_flash_erase ==
    samx5x_clear_nvm_error \o <<Read({"zero"})>> \o
    EachPage(LAMBDA p : <<Write("unlock"), Command("erase", p)>>
                        \o samx5x_wait \o <<Write("lock")>>)
samx5x_flash_write ==
    samx5x_clear_nvm_error \o <<Write("unlock"), Command("program", All)>>
    \o samx5x_wait \o <<Write("lock")>>

(* SAM 4S (the others of sam3x.c erase a page when they write it). *)

sam_flash_cmd(what, page) ==
    <<Command(what, page), Poll({"ready"}, {"link"}, {}, {"err"})>>

sam_flash_erase == EachPage(LAMBDA p : sam_flash_cmd("erase", p))
sam_flash_write == sam_flash_cmd("program", All)

(* Kinetis.  done programs the phrase with the security byte unless it is  *)
(* in order already; kinetis.c does not look at the result.                *)

kinetis_fccob_cmd(what, page) ==
    <<Write("clear"), Poll({"ready"}, {}, {}, {}), Command(what, page),
      Poll({"ready"}, {"err"}, {}, {})>>
kinetis_flash_done == <<Maybe>> \o Unnoticed(kinetis_fccob_cmd("security", All))

kinetis_flash_cmd_erase ==
    OnFail(EachPage(LAMBDA p : kinetis_fccob_cmd("erase", p)), kinetis_flash_done)
    \o kinetis_flash_done
kinetis_flash_cmd_write ==
    OnFail(EachPage(LAMBDA p : kinetis_fccob_cmd("program", p)), kinetis_flash_done)
    \o kinetis_flash_done

(* Kinetis KE04.  mass_erase looks at no result. *)

ke04_wait_complete == <<Poll({"ready"}, {"link"}, {}, {})>>
ke04_command(what, page) ==
    <<Write("clear")>> \o ke04_wait_complete \o
    <<Command(what, page), Poll({"ready"}, {"err"}, {}, {})>>
ke04_flash_done == <<Maybe>> \o ke04_command("security", All)

ke04_flash_erase ==
    OnFail(EachPage(LAMBDA p : ke04_command("erase", p)), ke04_flash_done) \o ke04_flash_done
ke04_flash_write ==
    OnFail(EachPage(LAMBDA p : ke04_command("program", p)), ke04_flash_done) \o ke04_flash_done
ke04_mass_erase ==
    Unnoticed(OnFail(ke04_command("erase", All), Unnoticed(ke04_flash_done)))
    \o Unnoticed(ke04_flash_done)

(* EFM32 and Stellaris/Tiva: no error flag is read. *)

efm32_wait == <<Poll({"idle"}, {}, {"link"}, {})>>
efm32_flash_erase ==
    <<Write("unlock")>> \o EachPage(LAMBDA p : <<Command("erase", p)>> \o efm32_wait)
efm32_mass_erase ==
    <<Write("unlock"), Command("erase", All)>> \o efm32_wait \o <<Write("lock")>>

lmi_flash_erase ==
    <<Forget>> \o
    EachPage(LAMBDA p : <<Command("erase", p), Poll({"idle"}, {}, {}, {}), Check>>)

---------------------------------------------------------------------------
(* Routines in the ROM of the target: MSP432 and the LPC IAP.              *)

msp432_call_rom(what, page) ==
    <<Write("unlock"), Command(what, page)>>
    \o OnFail(<<Poll({"ready"}, {}, {}, {"err"})>>, <<Write("lock")>>) \o <<Write("lock")>>
msp432_flash_erase == msp432_call_rom("erase", All)
msp432_flash_write == msp432_call_rom("program", All)

lpc_iap_prepare == <<Write("unlock"), Read({"locked"})>>
lpc_iap_call(what, page) == <<Command(what, page), Poll({"ready"}, {}, {}, {"err"})>>

lpc_flash_erase == lpc_iap_prepare \o lpc_iap_call("erase", All) \o <<NotBlank(All)>>
lpc_flash_write == lpc_iap_prepare \o lpc_iap_call("program", All)
lpc43xx_iap_mass_erase ==
    EachPage(LAMBDA p : lpc_iap_prepare \o lpc_iap_call("erase", p))

(* SPI flash: enable writing, see that it is enabled, command, wait. *)

SpiOperation(what, page) ==
    <<Write("unlock"), Read({"disabled"}), Command(what, page), Poll({"idle"}, {}, {}, {})>>

rp_flash_erase == EachPage(LAMBDA p : SpiOperation("erase", p))
rp_flash_write == EachPage(LAMBDA p : SpiOperation("program", p))
rp_mass_erase == SpiOperation("erase", All)
imxrt_spi_flash_erase == EachPage(LAMBDA p : SpiOperation("erase", p))
imxrt_spi_flash_write == EachPage(LAMBDA p : SpiOperation("program", p))
imxrt_spi_mass_erase == SpiOperation("erase", All)
lpc43x0_spi_flash_erase == EachPage(LAMBDA p : SpiOperation("erase", p))
lpc43x0_spi_flash_write == EachPage(LAMBDA p : SpiOperation("program", p))
lpc43x0_spi_mass_erase == SpiOperation("erase", All)

(* Renesas RV40.  done runs after a failed erase or write too. *)

renesas_ready == <<Poll({"ready"}, {}, {"link", "timeout"}, {})>>
renesas_rv40_error_check == OnFail(<<Read({"err"})>>, <<Write("clear")>> \o renesas_ready)
renesas_rv40_prepare ==
    <<Read({"zero", "busy", "not read"}), Write("unlock"), Write("program")>>
    \o renesas_ready \o renesas_rv40_error_check
renesas_rv40_done == <<Write("read")>> \o renesas_ready \o <<Write("lock")>>

\* The recovery from an error comes before done.
WithDone(seq) ==
    [i \in DOMAIN seq |-> [seq[i] EXCEPT !.then = @ \o renesas_rv40_done]] \o renesas_rv40_done
renesas_rv40_flash_erase ==
    renesas_rv40_prepare \o
    WithDone(EachPage(LAMBDA p : <<Command("erase", p)>> \o renesas_ready
                                 \o renesas_rv40_error_check))
renesas_rv40_flash_write ==
    renesas_rv40_prepare \o
    WithDone(EachPage(LAMBDA p : <<Command("program", p)>> \o renesas_ready)
             \o renesas_rv40_error_check)

=============================================================================
