------------------------- MODULE ProbeInstructions -------------------------
(***************************************************************************)
(* The instructions that the probe, attach, detach and flash mode handlers *)
(* of the target drivers are translated to (the modules ProbeStm32,        *)
(* ProbeNxp and ProbeOthers).  TargetProbe executes them.                  *)
(***************************************************************************)
EXTENDS Integers, Sequences

Step(do, what, to) == [do |-> do, what |-> what, to |-> to, at |-> 0, len |-> 0, block |-> 0, unit |-> 0]

\* target_add_ram and the add_flash function of a driver: nothing is added
\* when there is no memory left for the description.
Ram(start, len) == [Step("ram", "", "") EXCEPT !.at = start, !.len = len]
Flash(driver, start, len, block, writesize) ==
    [Step("flash", driver, "") EXCEPT !.at = start, !.len = len, !.block = block, !.unit = writesize]
\* A driver that declines the chip when there is no memory for its flash.
FlashOrDecline(driver, start, len, block, writesize) ==
    [Flash(driver, start, len, block, writesize) EXCEPT !.to = "or decline"]

FreeMapRamOnly == Step("free_ram", "", "")    \* mutant: the flash stays listed

FreeMap == Step("free_map", "", "")
FreeFlash == Step("free_flash", "", "")

\* A field of the target, a table of commands and an option of the target.
Set(field, value) == Step("set", field, value)
Commands(driver) == Step("commands", driver, "")
Option(name) == Step("option", name, "")

\* calloc of the driver's storage: a driver that checks the result gives up,
\* one that does not goes on to use what it did not get.
Storage(driver) == Step("storage", driver, "checked")
Unchecked(driver) == Step("storage", driver, "unchecked")

IfNoStorageInverted(steps) == <<>>             \* mutant: never done, as a new target has none

\* What is done only while the target has no storage.
IfNoStorage(steps) == <<[Step("stored", "", "") EXCEPT !.len = Len(steps)]>> \o steps
FreeStorage == Step("free_storage", "", "")
\* The handler takes t->target_storage for the structure of its driver.
Uses(driver) == Step("uses", driver, "")

\* A register of the chip is kept in the storage, overwritten, given back what
\* was kept, or given what the boot ROM of the chip gives it.
Save(reg) == Step("save", reg, "")
Put(reg) == Step("put", reg, "")
Restore(reg) == Step("restore", reg, "")
Give(reg) == Step("give", reg, "")

\* A reset: the firmware starts over with its registers and its memory.
Reset == <<Give("core"), Give("core_regs"), Give("iap_ram")>>

\* A location that not every chip bears to be read.
Reads(reg) == Step("reads", reg, "")
\* A call that may fail and then ends the handler, at once or by the steps
\* that Tried names; a call that cannot fail.
Call(what) == Step("call", what, "")
Tried(steps) ==
    <<[Step("tried", "", "") EXCEPT !.len = Len(steps) + 1]>> \o steps \o <<Step("return", "", "false")>>
Does(what) == Step("does", what, "")

Accept == <<Step("return", "", "true")>>
Decline == <<Step("return", "", "false")>>

\* What the identification register reg of a chip reads.
Id(c, reg) == IF c.reg = reg THEN c.id ELSE "none"
KiB(n) == n * 1024
=============================================================================
