--------------------------- MODULE OptionPrograms ---------------------------
(***************************************************************************)
(* The monitor commands of the flash drivers, as programs in the sense of  *)
(* FlashPrograms: option bytes and user rows, which are read, erased and   *)
(* written back; the erase of one bank or sector; security bits, self      *)
(* tests and checksums; the mass erases through an access port or a        *)
(* routine in ROM.                                                         *)
(*                                                                         *)
(* Here the pages are the words of an option area, or the banks of a       *)
(* device.  A command is about page 1; the others keep what they hold.     *)
(* What a command tells its user counts as what it returns.                *)
(***************************************************************************)
EXTENDS FlashPrograms

FetchOld == Instr("fetch", "old", All)     \* read the old words; nothing is checked
Restart == Instr("reset", "none", All)  \* target_reset
Launch == Command("launch", All)        \* reload the option bytes, which resets
Refuse == Read({"any"})                 \* return false

\* The rest of a command, which a failure does not stop but does not hide.
AndThen(first, rest) ==
    [i \in DOMAIN first |-> [first[i] EXCEPT !.then = @ \o rest]] \o rest

---------------------------------------------------------------------------
(* STM32F1, for a word that is not blank.  The word with the read          *)
(* protection comes first: a program error there counts as success.        *)

stm32f1_option_erase ==
    stm32f1_flash_clear_eop \o <<Command("erase", All)>> \o stm32f1_flash_busy_wait
stm32f1_option_word(what, page) ==
    stm32f1_flash_clear_eop \o <<Command(what, page)>> \o stm32f1_flash_busy_wait
stm32f1_option_write_erased(rest) ==
    LET word == stm32f1_option_word("program", 1)
        refused == <<Read({"no err"})>> \o rest
    IN Unnoticed(OnFail(word, refused)) \o rest

stm32f1_option_write ==
    <<FetchOld>> \o stm32f1_option_erase \o
    stm32f1_option_write_erased(
        FlattenSeq([i \in 1..Pages - 1 |-> stm32f1_option_word("rewrite", i + 1)]))
stm32f1_cmd_option(body) == stm32f1_flash_unlock \o <<Write("unlock")>> \o body
stm32f1_cmd_option_write == stm32f1_cmd_option(stm32f1_option_write)
stm32f1_cmd_option_erase ==
    stm32f1_cmd_option(stm32f1_option_erase \o stm32f1_option_write_erased(<<>>))

(* STM32F4.  The command does not look at what option_write returns, and   *)
(* writes zero to the second register if it is given one value.            *)

stm32f4_option_write(what) ==
    <<Write("unlock")>> \o stm32f4_flash_busy_wait \o <<Command(what, All)>>
    \o stm32f4_flash_busy_wait \o <<Write("lock"), Restart>>
stm32f4_option_write_default == Unnoticed(stm32f4_option_write("defaults"))
stm32f4_cmd_option == Unnoticed(stm32f4_option_write("store zero"))

(* STM32L0 and L1. *)

stm32lx_nvm_opt_unlock == <<Write("lock"), Write("unlock"), Read({"locked"})>>
stm32lx_option_write == <<Write("overwrite"), Data(1)>> \o stm32lx_nvm_busy_wait
stm32lx_eeprom_write == <<Write("clear")>> \o stm32lx_option_write
stm32lx_cmd_option ==
    stm32lx_nvm_opt_unlock \o AndThen(stm32lx_option_write, stm32lx_nvm_lock)
stm32lx_cmd_option_launch == stm32lx_nvm_opt_unlock \o <<Launch>> \o stm32lx_nvm_lock
stm32lx_cmd_eeprom ==
    stm32lx_nvm_prog_data_unlock \o AndThen(stm32lx_eeprom_write, stm32lx_nvm_lock)
\* nvm_prog_erase returns true for success, which is taken for an error.
stm32lx_mass_erase == Unnoticed(stm32lx_nvm_prog_erase) \o <<Refuse>>

(* STM32L4.  option_write returns true for failure, and false when its     *)
(* second wait fails.                                                      *)

stm32l4_cmd_erase_bank1 ==
    stm32l4_flash_unlock \o <<Command("erase", 1)>> \o stm32l4_flash_busy_wait
stm32l4_option_write(what) ==
    stm32l4_flash_unlock \o stm32l4_flash_busy_wait \o <<Command(what, All)>>
    \o Unnoticed(stm32l4_flash_busy_wait)
    \o <<Launch, Poll({"idle"}, {}, {"link"}, {}), Write("lock")>>
stm32l4_cmd_option == <<FetchOld>> \o stm32l4_option_write("store")
stm32l4_cmd_option_erase == stm32l4_option_write("defaults")

(* STM32G0.  The words that are not named stay as they are. *)

stm32g0_cmd_erase_bank ==
    <<Write("unlock"), Command("erase", 1)>>
    \o OnFail(<<Poll({"idle"}, {}, {"link"}, {})>>, <<Write("lock")>>)
    \o stm32g0_check_error \o stm32g0_flash_op_finish
stm32g0_option_write(what) ==
    <<Write("unlock")>> \o stm32g0_wait_busy \o <<Command(what, All)>>
    \o stm32g0_wait_busy \o <<Launch>>
stm32g0_cmd_option == stm32g0_option_write("store")
stm32g0_cmd_option_erase == stm32g0_option_write("defaults")

(* STM32H7.  A second bank whose erase has begun ends the mass erase.  The *)
(* banks have a controller each; here the second waits for the first.      *)

stm32h7_erase_bank(page) == stm32h7_flash_unlock \o <<Command("erase", page)>>
stm32h7_wait_erase_bank == <<Poll({"idle"}, {}, {"link"}, {})>>
stm32h7_check_bank == <<Read({"err"})>>
stm32h7_mass_erase ==
    stm32h7_erase_bank(1)
    \o Unnoticed(AndThen(stm32h7_erase_bank(2), stm32h7_wait_erase_bank \o stm32h7_check_bank))
    \o <<Refuse>>
stm32h7_crc_bank(page) ==
    stm32h7_flash_unlock
    \o <<Write("crc"), Command("crc", page), Poll({"idle"}, {"link", "err"}, {}, {})>>
stm32h7_crc == stm32h7_crc_bank(1) \o stm32h7_crc_bank(2)

---------------------------------------------------------------------------
(* SAM D.  The write of the user row is not awaited.                       *)

samd_set_user_row ==
    <<FetchOld, Command("erase", All)>> \o samd_wait_nvm_ready \o <<Command("rewrite", All)>>
samd_cmd_ssb == <<Command("security", All)>> \o samd_wait_nvm_ready \o <<Restart>>
samd_cmd_mbist == <<Write("clear"), Command("test", All)>> \o samd_wait_dsu_ready

(* SAM D5x and E5x.  A word that would not change is not written; one that *)
(* a lost link reads as zero may be taken for a zero to be written.        *)

samx5x_check_nvm_error == <<Poll({"ready"}, {}, {"link", "err"}, {})>>
samx5x_write_user_page ==
    samx5x_clear_nvm_error \o <<Command("erase", All)>> \o samx5x_check_nvm_error
    \o EachPage(LAMBDA p : <<Command("rewrite", p)>> \o samx5x_check_nvm_error)
samx5x_update_user_word == <<FetchOld>> \o samx5x_write_user_page
samx5x_set_flashlock == <<FetchOld>> \o samx5x_update_user_word
samx5x_set_bootprot == Unnoticed(<<Read({"zero"})>>) \o samx5x_update_user_word
samx5x_cmd_ssb == <<Command("security", All), Poll({"ready"}, {}, {"link"}, {})>>
samx5x_cmd_mbist ==
    <<Write("clear"), Command("test", All), Poll({"ready"}, {"link"}, {}, {"err"})>>

(* SAM 3 and SAM 4S: bits of the controller.  SAM 4L: a command waits for  *)
(* the one before it, and for no more than FLASH_TIMEOUT.                  *)

sam_cmd_gpnvm == sam_flash_cmd("overwrite", 1) \o sam_flash_cmd("get", All)

sam4l_flash_command(what, page) ==
    <<Poll({"ready"}, {}, {"timeout"}, {}), Command(what, page)>>
sam4l_flash_erase == EachPage(LAMBDA p : sam4l_flash_command("erase", p))
sam4l_flash_write ==
    EachPage(LAMBDA p : sam4l_flash_command("buffer_reset", All)
                        \o sam4l_flash_command("program", p))

(* nRF51. *)

nrf51_cmd_erase_uicr ==
    nrf51_flash_prepare("erase") \o <<Command("erase", 1)>> \o nrf51_wait_ready
nrf51_cmd_protect_flash ==
    nrf51_flash_prepare("overwrite") \o <<Data(1)>> \o nrf51_wait_ready

(* EFM32 and Stellaris: a stub in the RAM of the target writes the pages.  *)
(* The bootloader bit of the EFM32 can only be cleared.                    *)

RunStub == <<Command("program", All), Poll({"ready"}, {}, {}, {})>>
efm32_flash_write == <<Write("unlock")>> \o RunStub
efm32_cmd_bootloader == <<FetchOld, Write("unlock"), Command("overwrite", 1)>> \o efm32_wait
lmi_flash_write == <<Forget, Write("stub"), Check>> \o RunStub

(* Kinetis KE04 and MSP432: one sector.  The KE04 looks at no result. *)

ke04_cmd_sector_erase ==
    Unnoticed(OnFail(ke04_command("erase", 1), Unnoticed(ke04_flash_done)))
    \o Unnoticed(ke04_flash_done)
msp432_cmd_sector_erase == msp432_call_rom("erase", 1)
msp432_cmd_erase_main == AndThen(msp432_call_rom("erase", 1), msp432_call_rom("erase", 2))

(* Routines in the ROM of the LPC devices. *)

lpc17xx_mass_erase ==
    <<Write("map")>> \o
    AndThen(lpc_iap_prepare \o lpc_iap_call("erase", All) \o <<NotBlank(All)>>, <<Write("read")>>)
lpc40xx_mass_erase == lpc17xx_mass_erase

lpc546xx_flash_init == <<Restart, Write("clock")>>
lpc546xx_flash_erase == lpc546xx_flash_init \o lpc_flash_erase
lpc546xx_cmd_erase_sector ==
    lpc546xx_flash_init \o lpc_iap_prepare \o lpc_iap_call("erase", 1) \o <<NotBlank(1)>>
lpc546xx_cmd_write_sector ==
    lpc546xx_cmd_erase_sector \o lpc_iap_prepare \o lpc_iap_call("program", 1)
\* lpc546xx_flash_erase returns true for success, which is taken for an error.
lpc546xx_mass_erase == Unnoticed(lpc546xx_flash_erase) \o <<Refuse>>

\* A session enters flash mode before its first erase.
lpc55xx_enter_flash_mode == <<Write("patch"), Poll({"ready"}, {}, {}, {})>>
iap_call_raw(what, page) == <<Command(what, page), Poll({"ready"}, {}, {}, {"err"})>>
lpc55xx_flash_prepare == iap_call_raw("init", All)
lpc55xx_flash_erase ==
    lpc55xx_enter_flash_mode \o lpc55xx_flash_prepare \o iap_call_raw("erase", All)
lpc55xx_flash_write == lpc55xx_flash_prepare \o iap_call_raw("program", All)
lpc55xx_get_uuid ==
    iap_call_raw("init", All) \o iap_call_raw("init", All) \o iap_call_raw("identify", All)

lpc43xx_iap_init ==
    <<Write("map"), Write("clock"), Command("init", All), Poll({"ready"}, {}, {}, {})>>
lpc43xx_iap_flash_erase == lpc43xx_iap_init \o lpc_flash_erase
lpc43xx_cmd_mkboot == lpc43xx_iap_init \o lpc_iap_call("activate", 1)

---------------------------------------------------------------------------
(* Mass erases through an access port of a protected device: EFM32, nRF52  *)
(* and Kinetis.  The second loop of the Kinetis waits for the flag of the  *)
(* erase in progress to be set, not to be cleared.                         *)

efm32_aap_mass_erase ==
    <<Read({"busy"}), Command("erase", All), Poll({"idle"}, {}, {}, {})>>
nrf51_mdm_mass_erase == <<Command("erase", All), Poll({"idle"}, {}, {}, {})>>
kinetis_mdm_mass_erase ==
    <<Read({"busy", "zero"}), Command("erase", All), Poll({"busy", "eop"}, {}, {}, {}),
      Poll({"busy"}, {}, {}, {})>>

(* RP2040: one sector, and back to execution from the flash. *)

rp_flash_resume == <<Write("read")>>
rp_cmd_erase_sector == AndThen(SpiOperation("erase", 1), rp_flash_resume)

=============================================================================
