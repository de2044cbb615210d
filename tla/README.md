# Black Magic Probe firmware: a TLA+ verification project

The repository is the firmware of a debug probe. It speaks GDB's remote protocol
on one side (USB serial) and SWD or JTAG on the other, and keeps everything in
between: the list of targets, run control, breakpoints, flash programming. This
directory holds TLA+ modules translated from the C sources, TLC configurations
that check them on small instances, and TLAPS proofs for arbitrary ones.
`PROJECT.json` maps every definition to the lines it models. Paths below are
relative to `src/src/`.

Contents: [the system](#the-system), [how the modules fit
together](#how-the-modules-fit-together), [modules](#modules), [runs](#runs),
[fairness](#fairness), [proofs](#proofs), [disagreements](#disagreements),
[not modelled](#not-modelled).

## The system

| part | sources | state | who acts on it |
|---|---|---|---|
| main loop | `main.c`, `exception.c` | `gdb_target_running`, the innermost exception frame | itself; everything else is called from it |
| packet layer | `gdb_packet.c`, `platforms/stm32/gdb_if.c` | the packet buffer, checksum, the ack that is awaited; the endpoint's buffers | main loop; USB interrupt fills the input |
| packets | `gdb_main.c`, `gdb_hostio.c`, `command.c` | `cur_target`, `last_target` | main loop; a semihosting call handles packets from inside a poll |
| target list | `target/target.c` | `target_list`, `attached`, `tc`, `bw_list`, the memory map, the handlers | scans, attach, detach, exceptions |
| target drivers | `target/*.c` | locks and busy flags of some forty flash controllers; what is saved of a chip to be given back | scan, attach, detach, flash programming, monitor commands |
| flash programming | `target/target_flash.c` | one buffer per region, `ready`, `flash_mode` | vFlash packets, `monitor erase_range` |
| Cortex-M | `target/cortexm.c` | `stepping`, `on_bkpt`, comparators in use; DHCSR, DFSR, FPB, DWT in the core | packets, the poll, the core itself |
| Cortex-A | `target/cortexa.c` | `reg_cache`, `bcr0`, `mmu_fault`, comparators in use; registers and comparators of the core | the same |
| semihosting | `target/cortexm.c`, `gdb_hostio.c` | the memory operations that are exchanged during a call | the program on the target |
| ADIv5 | `target/adiv5*.c` | `dp->fault`, reference counts; SELECT, CSW, TAR in the port | every memory access, scans |
| SWD, JTAG | `target/jtag_scan.c`, `platforms/common/{swdptap,jtagtap}.c` | direction of SWDIO, `jtag_devs`, `current_ir` | every access |
| serial port, RTT, trace | `platforms/common/{aux_serial,usb_serial}.c`, `platforms/stm32/{rtt_if,traceswoasync}.c`, `rtt.c` | ring buffers, transmit and receive buffers, flow control, flags that keep two interrupts apart | USB and DMA interrupts against each other and the main loop |
| hosted build | `platforms/hosted/`, `remote.c` | faults kept for a debug port, direction of SWDIO | the host's program against another probe or a commercial adaptor |

There is one thread. Concurrency comes from three places: interrupts of the
probe (USB, DMA, timer), the target, which runs, halts and faults when it wants,
and the host, whose characters cross those of the probe. Failures come as
exceptions (`TRY_CATCH`, one `longjmp` away from anywhere), as sticky errors that
somebody must ask for, and as `false` results that are combined with `&=`.

What is hard here, and what a test would hardly reach:

* pointers into the target list while a scan, a lost target or an exception
  frees it; an exception inside the cleanup of an exception;
* a target filled in by several probe functions, of which all but one decline;
* packets handled from inside a poll (semihosting), a Ctrl-C that crosses a stop
  reply, a port that closes in any of these states;
* an interrupt between reading how full a buffer is and acting on it;
* registers whose contents depend on what was last written successfully (SELECT,
  CSW, TAR, the JTAG instruction, C_MASKINTS), after a write that was lost, or
  that are borrowed from the program and must be given back (Cortex-A, detach);
* several stages of buffering between an accepted flash write and the device;
* boundaries: the 1 KiB in which TAR counts, the last bit of a sequence, a
  full ring buffer, the last comparator.

`PROJECT.json` lists each of these as a hazard at the line where it bites.

## How the modules fit together

Modules that share state are composed by extending one another: `UartEndpoint`
extends `RttIf`, because both work on one endpoint; `FlashDriver` executes the
programs of `FlashPrograms` and `OptionPrograms`; `TargetProbe` executes those of
`ProbeStm32`, `ProbeNxp` and `ProbeOthers`. `Adapters` implements
`AccessContract`, with a refinement mapping. Modules that share none are put side
by side in one specification, whose initial state chooses the part that is
exercised:

| specification | parts |
|---|---|
| `FlashStack` | `TargetFlash`; `FlashDriver` |
| `Sessions` | `GdbSession` on a sound link, and in trouble; `TargetProbe`; `GdbPacket`; `GdbEndpoint` |
| `HostWire` | `GdbLink`; `UartEndpoint`; `AuxToHost`; `TraceSwo` |
| `MCDebugLink` | `SwdWire`; `JtagTap`; `JtagScan`; `AdiMem`; `AdiScan` |
| `MCCores` | `CortexM`; `CortexA`; `Semihosting`; `RttPoll` |
| `Hosted` | `Adapters`; `Shifters` |

That is a sum of specifications, not a product, and a property of a part means
the same in it as alone. The `MC` modules give the constants their values;
`MCDebugLink` and `MCCores` do both. Theorems are in the modules that end in
`Proofs`: `DebugLinkProofs` is about `AdiMem`, `SwdWire` and `JtagTap`,
`CortexMProofs` about `CortexM` and `Semihosting`, `TargetProofs` about
`GdbSession` and `AdiScan`, `HostProofs` about `GdbLink`, `UartEndpoint` and
`GdbEndpoint`, `AdaptersProofs` about `Adapters` and `RttPoll`, the others about the
module they are named after. `PointProofs` has the lemmas on comparators that both
Cortex modules need.

## Modules

Each module says at its top what is external, that is, modelled from how the
code uses it. A comment `mutant:` marks an operator that no specification uses:
a plausible mistake in the definition below it, which the properties must catch.

### TargetFlash

State: per region `buf`, `base`, `low`, `high`, `ready` (`buf_addr_*` of
`target_flash_s`), `flash_mode`, and the locals of the request that is being
executed. `Request` accepts vFlashErase, vFlashWrite, vFlashDone or erase_range;
`EraseStep`, `WriteStep`, `ChunkStep` and the others are one iteration each of
the loops of `target_flash_erase`, `target_flash_write`, `flash_buffered_write`
and `target_flash_complete`. Any driver call, entering flash mode and `malloc`
may fail (`Faults`). The device is external: a write unit programmed twice
without an erase holds junk. A byte is a pair of the request that carried it and
the address it was for, so misplaced data is told from data in place.

Properties: a dirty range lies in the block of its buffer (`BufferWindow`);
whatever fails, a cell holds data meant for it (`NoStrayData`); if everything was
answered OK, vFlashDone means the device holds it, and nothing survives a session
(`SessionEnds`); every request ends (`FlashReturns`).

### FlashPrograms, OptionPrograms and FlashDriver

For `TargetFlash` a call of a driver is one step that succeeds or fails and says
so. Whether it does say so is the question here. `FlashPrograms` translates
erase, write and mass erase of each driver into a sequence of instructions, one
for each access that matters: write a control register (`Write`), write the
array (`Data`), start a command (`Command`), poll a status until a condition
with the checks the loop makes in every round, in all but the last and after it
(`Poll`), ask for a link error (`Check`), and what each failure leads to (a
return, an unlocked controller left behind, an error nobody looks at). Addresses
are page numbers, register values are names. A stub that runs on the target or a
call of a ROM routine is a `Command` with a `Poll` for its end. `OptionPrograms`
does the same for the monitor commands: option bytes and user rows, which are
read, erased and written back, the erase of one bank or sector, security bits,
checksums and self tests, and the mass erase of a protected chip through an
access port.

`FlashDriver` executes a program. State: the instructions left (`todo`), what the
call will return (`says`), the controller (`ctl`: locked, mode, operation in
progress, error and end-of-operation flags), whether the debug link is sound
(after a failure accesses are lost and reads give zero, until
`target_check_error` is called), and the pages. The controller is external:
`Finish` ends its operation at any time after it began, and a page can fail. One
thing fails per session (`hit`), at any instruction; sessions follow one another.

`Truthful`: a call that returns true has finished its work on every page and left
the others alone, and a call returns false only if something failed.
`FlashReturns`: every call returns. Each driver is checked under the faults it can
tell (`MCCases` in `MCFlashStack`):

| drivers | operations | faults |
|---|---|---|
| stm32f4, stm32l4 | erase, write, mass erase | link, page |
| stm32lx (program, data), stm32h7, samx5x, sam4s | erase, write | link, page |
| renesas | erase, write | link, page, timeout |
| stm32f1 | erase, mass erase | link, page |
| samd (through the DSU) | mass erase, self test | link, page |
| stm32lx option bytes and EEPROM, sam GPNVM, stm32l4 bank, stm32h7 CRC, samx5x self test | command | link, page |
| nrf51; samd; lmi | erase, write, mass erase; erase, write; erase, mass erase | link |
| stm32f1 option bytes, samx5x user page, nrf51 UICR | command | link |
| stm32g0 | erase, write, mass erase | page |
| kinetis, ke04, msp432, lpc, lpc43xx, lpc546xx, lpc55xx | erase, write | page |
| lpc43xx, lpc17xx, lpc40xx, msp432; lpc546xx and lpc43xx commands | mass erase; command | page |
| sam4l | erase, write | timeout |
| rp, imxrt, lpc43x0, ch32f1, efm32, lmi stub; ke04 mass erase | all | none |
| stm32f4, stm32l4, stm32g0, samd, efm32 options, samx5x boot protection, ke04 and rp sector | command | none |
| stm32h7, stm32lx, lpc546xx; efm32 and nrf52 access ports | mass erase | none |

What is missing from the last column is missing from the code: see
[disagreements](#disagreements).

### TargetProbe and the Probe modules

A scan runs, for the designer and part of a core, a list of probe functions until
one accepts it (`ProbeList`, the switch of `cortexm_probe`). Each fills in the
same `target_s`: handlers, memory map, commands, `target_storage`. The modules
`ProbeStm32`, `ProbeNxp` and `ProbeOthers` translate the probe,
attach, detach, flash mode and mass erase handlers of every Cortex-M driver into
the instructions of `ProbeInstructions` (add a region, set a handler, allocate,
read, save, change and restore a register, accept or decline); `TargetProbe`
executes them for one chip, with the heap running out at any allocation the code
checks, a failing call, a second scan, and any order of attach, detach, flash
mode and erase. `MCSessions` is a catalogue of chips with one for each branch.

`MapSound`: no region is listed twice or overlaps another, and a flash is made of
whole blocks. `HandlersFit`: a handler finds the storage of its own driver.
`GivenBack`: what a driver changes in the chip is given back on every path.

### GdbSession

State: `target_list`, which addresses are allocated, attached and have a
controller, `cur_target`, `last_target`, `gdb_target_running`, where the main
loop is, the core behind each target, DTR, and two observers: `owed`, GDB waits
for a stop reply, and `trap`, what went wrong in a way the code does not handle.
One action per packet that changes any of it, one per branch of the poll loop,
one per outcome of a semihosting call, and the handler of the main loop. An
address can be allocated again after it was freed, so a dangling pointer is not
excused by the model. Every access may raise (`Faults`), the cleanup too
(`CleanupFaults`): `target_list_free` then stops in the middle.

Properties, in both worlds of `Sessions`: `TargetPointersLive`, `ListExact`
(nothing leaks, nothing freed stays reachable). In the sound one: `RepliesOwed`
(one stop reply for each resume, none unasked), `Released` (a target left by
detach or by a closed port runs on) and `Reported` (a stop reaches GDB).

### GdbPacket, GdbEndpoint and GdbLink

`GdbPacket` is `gdb_getpacket` as an automaton over single characters: one of
each kind, checksums modulo 4. `recent` remembers the end of the input, against
which the result is compared: `FramesExact` (what is returned is the decoded
body of the frame that has just ended, and nothing of an earlier one; of a packet
that fills the buffer only the length is checked; what `gdb_putpacket` sends
decodes to what was to be sent), `CloseIsSeen` (a closed
port ends the wait, wherever it was).

`GdbEndpoint` is `platforms/stm32/gdb_if.c` with and without the double buffer: the
interrupt that takes a packet and refuses further ones, the main loop that takes
it over and opens the endpoint again, and the packets the other way, with the
empty one that ends a transfer. `GdbStream`: both directions in order, nothing
lost or left behind while the port is open, and the endpoint is opened again.

`GdbLink` is the exchange of frames, acks, nacks and Ctrl-C over two queues,
with GDB external. The line may damage frames, acks may come after the two
seconds the probe waits. `ExecutedOnce`, `ReplyMatches` (the reply GDB takes for
its command's is its command's), `Answered`. The last excludes exchanges in which
a frame was damaged and an ack was late or crossed a Ctrl-C (`Confused`): see
[disagreements](#disagreements).

### RttIf, UartEndpoint, AuxToHost, TraceSwo, RttPoll

* `RttIf`: the ring buffer of `rtt_if.c`, the interrupt against `rtt_getchar`, which
  is split at each access to shared state. `BlockingNoLoss`: a blocking channel
  loses nothing.
* `UartEndpoint` adds the other user of the endpoint: the two transmit buffers of
  `aux_serial.c`, the DMA and its interrupt, and the monitor command that switches
  between the two. Each side opens the endpoint by looking at its own buffers
  only: `aux_serial_dma_transmit_isr` opens what RTT has closed, `rtt_getchar` what
  AUX has closed. `overruled` remembers whom this has happened to. `InOrder`
  (nothing is reordered or duplicated on either side, and no packet overruns the
  transmit buffers unless AUX was overruled), `SharedNoLoss` (a blocking channel
  loses nothing unless RTT was overruled), `AuxDelivered` (data leaves, a closed
  endpoint opens).
* `AuxToHost`, the other direction: circular DMA, the interrupts that start a
  transfer, debug output and RTT on the same endpoint, and a reset of the bus.
  `AuxReceived`: in order, and no transfer is forgotten.
* `TraceSwo`: two interrupts of different priority that both run
  `trace_buf_drain`. `TraceSent`: in order, nothing twice, nothing left unless the
  higher one met the lower one in it.
* `RttPoll`: `find_rtt`, `read_rtt` and `print_rtt`, one memory access a step,
  while the target prints and reads. `RttExact`: in order and nothing twice,
  whichever accesses fail.

### SwdWire, JtagTap, JtagScan, AdiMem, AdiScan

* `SwdWire`: which side drives SWDIO at every clock edge. `swdptap.c` turns the
  line lazily, so the end of one sequence is clocked by the start of the next.
  `InStep`: probe and port agree on every edge, through retries, faults,
  given-up accesses and all transactions of a recovery (TARGETSEL, DPIDR, CTRL/STAT,
  ABORT), after which the port listens.
* `JtagTap`: TDO bits into bytes, `AllCaptured`.
* `JtagScan`: `jtag_scan` bit by bit on an external chain with real IR and DR
  shift registers; the lengths of the instruction registers are found out, or given
  by the user, rightly or wrongly. `ChainExact`: the devices and their data bits are
  those of the chain; and unless wrong lengths were given (`LengthsRight`), which
  `jtag_validate_irs` does not notice, so are the instruction bits, and an access reaches
  its device and no other, although `current_ir` lets it skip the instruction.
* `AdiMem`: one action per transaction of a memory access, over SWD or JTAG.
  `Exact`: a request that meets neither a hole in memory nor a failure transfers
  exactly its bytes, at any alignment and across the wrap of TAR. Over JTAG that
  takes in the place where the pipelined read looks after the end of a page
  (`Wrapped`). `NoStrayWrite`:
  no write reaches an address that was not asked for, over SWD whatever
  transactions are lost, over JTAG as long as none is.
* `AdiScan`: the loops of the scan and the reference counts of debug ports and
  access ports. `ScanExact`: nothing is freed in use, nothing leaks, and a scan that
  was not broken off and does not connect under reset (`connect_assert_nrst`) leaves
  no target halted.

### CortexM, CortexA, Semihosting

`CortexM`. State: `stepping`, `on_bkpt`, `hw_breakpoint[]`, `hw_watchpoint[]`,
`bw_list`; of the core DHCSR, DFSR, the pc, FPB and DWT. Actions: attach, detach,
halt request, the poll of a halted core (SYS_EXIT, which steps the core twice,
included), resume, step, reset, flash stubs, setting and clearing a breakpoint or
watchpoint, and the steps of the core. A write that changes
C_MASKINTS with C_HALT clear has, as the architecture says, no certain effect:
`Written` returns the set of outcomes. `BreakpointsExact` (the comparators of an
attached target hold what GDB set, each once), `ReasonTrue` (the reported reason
is one that occurred), `RunsFree` (a core that is resumed to run runs with its
interrupts enabled).

`CortexA`. The debugger feeds instructions to the halted core and moves data
through its registers; `reg_cache` holds what the program had in them. Comparator
0 does the single steps. A comparator gets the physical address that the MMU answers
(`translated`, any of `Physical`); a translation that is refused leaves `mmu_fault`, and
the breakpoint counts as set. Clearing a software breakpoint can fail, which keeps it
on the list. `RegistersKept`: a core that leaves debug state has in
every register what it had, or what GDB wrote. `PointsExact`: comparators and
replaced instructions are those of the points that are set.

`Semihosting`. A program writes a file, asks for its length and reads it back with
as many calls as it takes, in the three builds of `cortexm_hostio_request`.
`FilesExact`: in the hosted build what the program counts as transferred is what was;
in the probe's builds, where GDB does the transfers, it speaks only of the target's memory
operations, which are the target's own again after every call.

### AccessContract, Adapters, Shifters

`AccessContract` says what the code above an adaptor may rely on: an access that
ends in order moved all of its pieces, except where its kind admits refusals that are
not told (`quiet`) or pieces that go wrong unseen (`blind`). `Adapters` is the drivers' cutting of
accesses into requests and their reading of the answers, for the remote protocol
(with `remote.c` at its other end), ST-Link, CMSIS-DAP and J-Link, with refusals,
`WAIT`, time limits, retries and recovery. `Contract` is
`AccessContract!ContractSpec` under the mapping that `Adapters` gives: the call
in progress becomes the contract's `access` (how many pieces, whether it writes,
whether it is quiet or blind); the target, the pieces moved and the result map to
themselves. `CallsReturn`: every access returns. The module lists both kinds. `Quiet`
are the accesses whose refusal the driver only logs. `Blind` are those it cannot know the
end of: accesses to access ports and memory through a remote probe, where
`firmware_swdp_low_access` takes a bus error back, repeats, and answers OK; and the
writes of a J-Link. For the others the contract has no exception. `AccessAssumption`
leaves out accesses that a driver cannot carry out and does not report (see
"Disagreements"). External assumptions: a CMSIS-DAP adaptor that cuts a block short
says so with a status other than OK. A write of SELECT through an ST-Link is only kept in
the host (`stlinkv2.c:614`) and is no access here.

`Shifters` translates the operations of `jtag_proc` and `swd_proc` over FTDI,
CMSIS-DAP, J-Link and the remote protocol into the commands of the adaptor, and
back. `ShiftExact`: the target sees the caller's bits and the caller the
target's, SWDIO is turned when its direction changes and only then.

## Runs

| run | module, configuration | result | what it asks | distinct states |
|---|---|---|---|---|
| flash | `MCFlashStack`, `FlashStack.cfg` | holds | 3 requests in any order, two regions, faults in every call but prepare; every driver under the faults of its row above | 196 thousand |
| session | `MCSessions`, `Sessions.cfg` | holds | the five worlds of `Sessions` | 297 thousand |
| host | `HostWire`, `HostWire.cfg` | holds | frames and acks; AUX and RTT both ways; trace | 258 thousand |
| debug_link | `MCDebugLink`, `DebugLink.cfg` | holds | the five parts of the debug link | 1.3 million |
| cores | `MCCores`, `Cores.cfg` | holds | run control, breakpoints, stubs, semihosting, RTT polls | 1.8 million |
| hosted | `MCHosted`, `Hosted.cfg` | holds | accesses through every adaptor, bits through every tap | 163 thousand |
| flash_erase | `MCFlashStack`, `TargetFlashErase.cfg` | violated | the same as flash without an exclusion in `DoneCommits` | |
| session_hostio | `GdbSession`, `GdbSessionHostio.cfg` | violated | GDB fetches memory before it answers a semihosting call | |
| trace_left | `TraceSwo`, `TraceSwoLeft.cfg` | violated | a trace packet that arrives while the flag is set | |
| jtag_delay | `JtagTap`, `JtagTapDelay.cfg` | violated | the slowed-down capture of 32 and 35 bits | |
| stub | `MCCores`, `CortexMStub.cfg` | violated | what the caller of a failed stub learns | |
| swd_raw | `MCHosted`, `SwdRaw.cfg` | violated | SWD over an FTDI cable without MPSSE wiring | |

Bounds, and why they are enough for the cases the properties are about:

* flash: three requests are the shortest way to a write, something in between
  and a done; the two regions are adjacent, so a request can cross from one into
  the other, one has a write size above the buffer ceiling and the other two
  write units to a buffer. Sizes are powers of two, as the code's masks need
  (`MaskAssumption`). `UINT32_MAX` is the first value above all addresses.
  Two pages for the drivers: the fewest for which an operation is still running,
  or has failed, when the next one starts.
* session: two targets are the fewest for which "the other one" exists, and
  their addresses can be allocated again. Chips are scanned twice, so that a
  target is made from what another scan left in the chip. A packet buffer of 2
  characters is full after two; 6 characters of memory hold the longest frame whose
  body fills it with checksum. Endpoint packets of 2 with 4 characters each way: two
  full packets, and the empty one after them.
* host: three commands, so a late ack of the first can meet the third. A ring
  buffer of 6 with packets of 2 is the smallest that the assertion in
  `recv_set_nak` allows with room to spare; 6 characters wrap it. A DMA buffer of 4
  with 5 characters wraps and can be overrun. A trace ring of 3 with 6 packets
  wraps twice.
* debug_link: two pages, so that TAR wraps inside and at the end of a transfer;
  two spoiled transactions, so that a recovery fails as well; chains of up to
  the maximum of three devices and one too long; lists of given lengths that are
  right, wrong with the right sum, wrong with another one, out of range and too few;
  sequence lengths on both sides
  of a byte, and 32 and 35, which the code uses; 33 data bits as in the code.
* cores: two comparators for two addresses; `bw_list` of up to three entries,
  so entries of an earlier session can be in front of and behind those of the
  present one. Ring buffers of 3 and 2 with 4 and 2 characters wrap; two failing
  accesses reach `rtt_max_poll_errs`.
* hosted: two pieces, so that the first can be moved and the second not; two
  refusals, so that a retry is refused as well. Sequences of lengths on both sides
  of one and two bytes, with a single set bit that walks through them.

Deadlock is checked where nothing ends (debug_link, whose parts stutter at their
end); elsewhere a run may end: by a budget of requests, commands, characters or
failures, by an abort, or at its first violation.

## Fairness

Weak fairness, and only of what the firmware does by itself: a request that was
accepted goes on (`TargetFlash`), a driver goes on (`FlashDriver`), the main loop
goes round and its handler runs (`GdbSession`, `GdbLink`), `gdb_getpacket` asks for
the next character, interrupts that are pending are served (`GdbEndpoint`,
`AuxToHost`, `TraceSwo`), the DMA shifts and interrupts, `poll_rtt` is called
(`UartEndpoint`), the hosted program goes on and its clock runs (`Adapters`).
Assumptions that concern others: a flash controller ends what it began
(`Finish`), well or not. A core that was asked to halt does (`CoreObeys`,
`PollHalted /\ probe = "stopping"`), without which no debugger can report
anything. An adaptor answers or is found not to. And the host takes what was sent
to it. Nothing assumes that a core stops by itself, that GDB sends anything, or that
a port stays open or closed. A closed port yields the end of transmission, which
`gdb_main` turns into a detach (`WF_vars(Detach /\ ~dtr)`). `RttPoll`, `CortexM`,
`CortexA` and the debug link are checked for safety only.

## Proofs

`tlapm` proves the following for all values of the constants that the named
assumptions of the modules allow.

* `TargetFlashProofs!TypeCorrect`, `BufferWindowHolds`: every list of regions
  with positive sizes, every ceiling, every set and number
  of requests, provided that `prepare` does not fail (it can break the window: see
  below). `BufferWindow` alone is not inductive: a buffer without data must not
  be for a block yet, or the first byte put into it would extend an old range.
  `IInv` says a buffer is either empty, with all three sentinels in place, or has
  a proper range inside its block; and where the locals of the request point.
* `TargetFlashProofs!NothingStray` (`NoStrayData`) and `SessionsEnd`
  (`SessionEnds`), for the same constants, if no erase block of one region reaches
  into another region (`Separate`; without it an erase takes bytes away that
  another region's session has answered OK). `SInv` adds to `IInv` what lies between a
  request and the device. A buffer holds, at each place, the erased value or a byte
  carried for that address (`Contents`). What the requests ask for a cell either waits
  in one buffer or is in the device (`Commit`), and where a byte waits the cell is
  blank unless the requests themselves program it twice (`Stray`). The first may be
  given up once something was refused, the second never. `Control` says which regions
  a request has still before it, so that after vFlashDone none is prepared. The lemmas
  follow one address through a flush (`FlushAt`), a copy (`CopyAt`) and an erase
  (`EraseKeeps`); that a flush programs each write unit of its range once is
  arithmetic on units (`UnitsCover`).
* `TargetProofs!PointersLive` and `ListIsHeap` (`ListExact`): any set of
  targets, any list length, under every exception, including one in the middle of
  `target_list_free`. The strengthening: a current or last target has a controller
  set (`tc`), because `target_list_free` tells the session about a freed target only
  through `t->tc->destroy_callback`; the list holds every allocated target; and no
  target twice, from which its length follows.
* `TargetProofs!StopReplies` is the sound world's `RepliesOwed` for any number
  of targets: no access raises, there are no semihosting calls, and the port is
  not opened again before its closing was seen. Each of the three is needed, and TLC
  shows a run without it: `gdb_target_running` survives a handler that runs in
  between. `OwedInv`: the loop polls exactly while a reply is owed, and no packet is
  handled while it polls. `DetachReleases` is `Released` under every exception and for any
  GDB, without semihosting (the end of transmission in a call resumes a detached core).
* `HostProofs!CommandsOnce` (`ExecutedOnce`) and `RepliesMatch`
  (`ReplyMatches`, an action property): any number of commands, damaged frames, late
  acks and interrupts. From the time GDB sends a command to the time it has the ack,
  exactly one thing is on its way: the frame, the nack that asks for it again, or
  the ack (`OneFrame`, `OneSign`, `NotBoth`), and the command has been taken exactly if
  it is the ack (`FrameNew`, `SignFits`). Frames behind the ack answer the last
  command (`RepliesCurrent`). Retries never make a command run twice, however they
  cross; what the confusion of late acks costs is the reply, not the command.
* `HostProofs!TypeCorrect`, `NoLoss`: any buffer and packet size that the
  assertion in `recv_set_nak` allows, for RTT alone. The strengthening (`Margin`)
  explains why the code keeps room for *two* packets: one may arrive between the
  decision to open the endpoint and the opening.
* `HostProofs!SharedLosesNothing` (`SharedNoLoss`) and `OrderKept`
  (`InOrder`): the same on the endpoint that RTT shares with AUX, with the two
  transmit buffers and the DMA, for any number of switches between the two.
  `SharedInv`: what the ring holds increases from its tail on (`Ring`); the buffer
  the DMA reads continues what was sent, and the one being filled continues that
  (`AuxFollows`); an open endpoint leaves each side that was not overruled room for a
  packet (`Margin`, `Room`). That is the exact extent of the guarantee. After a side
  was overruled nothing keeps the next packet out of a full buffer: neither side asks
  the other before it opens the endpoint.
* `HostProofs!ReadsInOrder`: any packet size, with and without the second
  buffer, any number of openings and closings of the port. It is the half of
  `GdbStream` about what the main loop reads. The strengthening: what was read,
  the buffer being read, the second buffer and the endpoint continue one another
  (`Chained`), and the second buffer is filled only while the endpoint is closed
  (`Closed`).
* `DebugLinkProofs!NoStrayWrites`: any memory, any holes in it, any page size that is
  a multiple of four, any number of lost transactions. The strengthening: as long
  as accesses are carried out (`Trusted`), the access port is selected, has the
  width of the request, and TAR is where the loop is, or in a hole that an
  earlier write met. A write to a hole does not advance TAR, so that every write up
  to the next page fails like it. The arithmetic is in four lemmas: widths divide
  addresses, the loop stays in the request, `adiv5_pack_data` puts a byte in the lane
  of its address, and TAR advances with the loop inside a page.
* `DebugLinkProofs!TransfersExact` (`Exact`), for the same constants. `CleanInv` adds,
  for a request that nothing disturbs (`Sound`), that the access port is ready and TAR
  is where the loop is (`Linked`), that what is left fills the request (`Counted`), and
  that what lies behind the cursor was moved (`Moved`). A read over JTAG runs one
  address behind: what `adiv5_unpack_data` takes is what the access before it fetched
  (`Fetches`). The proof needed the condition on the page start in `Wrapped` (see
  below), which was not noticed until then.
* `DebugLinkProofs!WireInStep` (`InStep`): any number of data bits, and any
  sequence of accesses, acknowledgements, retries and recoveries. Between accesses
  the line is the host's and nothing is due, or the port's and one turnaround is due
  (`Resting`, `Owing`): the lazy turn of `swdptap_turnaround` makes both harmless,
  because the next sequence begins with the turn it needs. The
  writes of a recovery start from and return to a line that is the host's, TARGETSEL
  included, which nobody acknowledges but whose edges are the same (`WritesLow`).
* `DebugLinkProofs!BitsCaptured` (`AllCaptured`): any length and any number of
  bits in a byte, at full speed (`TRUE \notin Delays`; the slowed-down routine loses bits,
  see jtag_delay). Each cycle so far is in the byte being gathered or in the byte
  where it belongs (`Kept`).
* `CortexMProofs!ReasonsTrue` (`ReasonTrue`) and `CoresRunFree` (`RunsFree`):
  any program, any number of comparators and sessions. `Control` ties the bits of DHCSR to
  what the session believes: interrupts are masked only while `stepping` is set, and
  whenever the session is idle C_HALT is set, so that the next write of C_MASKINTS
  takes effect. `Causes`: DFSR is clear of stops whenever the core is resumed, and
  after the two steps of SYS_EXIT it holds what ended the second (`ExitRuns`).
* `CortexMProofs!ComparatorsExact` (`BreakpointsExact`): any number of
  comparators and addresses, and any order of requests and sessions. `Fits`:
  each comparator that is on is for one place that GDB set, and for each place the
  *newest* entry of `bw_list` names its comparator. Entries that earlier sessions left on
  the list come behind, and `target_breakwatch_clear` takes the first that
  matches. The proof needs that the first of the free comparators exists
  and is the smallest (by well-founded induction on numbers).
* `CortexAProofs!RegistersSafe` (`RegistersKept`, an action property) and
  `PointsKept` (`PointsExact`) of a Cortex-A. `RegInv`: while the session holds the
  core the program's registers are in `reg_cache`, and from a stop to its first poll
  still in the core. `PointInv` uses `Fits` as above, for the comparators with
  comparator 0 as it is when no step borrows it (`Lent`), and says in addition that each
  holds the address its owner was translated to (`HardFits`), for any answers of the
  MMU, two breakpoints at one physical address included. An instruction that is replaced
  has a soft breakpoint that is set or that the session has forgotten; an entry
  that would "restore" a breakpoint instruction belongs to a forgotten one.
* `TargetProofs!PortsCounted` (`ScanExact`): any number of ports, targets and scans.
  `ScanInv`: the count of a port is at least the number of its users, exactly that
  number as long as nothing was lost, and -1 once it is freed (`Covers`, `Exactly`). The
  users of an access port are its targets and, while it is probed, the scan; those of
  a debug port its access ports and the scan (`ApsCounted`, `DpsCounted`). Only cores
  of the port being probed are halted, unless the scan connects under reset, which stays
  as it was when the scan began (`HaltsEnd`). The lemmas count: how many users
  leave when a list of targets is freed (`PortsLeave`), and one more when one is added.
* `CortexMProofs!FilesKept` (`FilesExact`): any content, any split of the transfers, any
  failure, any other calls in between. `SemiInv` follows a call that was answered and
  not yet counted: what it transferred (`Transferred`) is in the file and not in the
  program's count yet (`WrittenInv`), or in the buffer and not in what the program has
  read (`ReadInv`), and the position of the file is behind it unless the transfer failed.
  `PathInv`: the memory operations are exchanged only while GDB serves a call that
  needs it.
* `AdaptersProofs!RttKept` (`RttExact`): rings of any size, a transmit buffer of any
  size (smaller than the ring included), any number of characters, failures and
  restarts. `Kept`: what a ring holds from its tail to its head rises, follows what
  came out of it, and is the very next if nothing was lost. The probe works on copies of
  head and tail that are stale while the target goes on. `UpInv`: what the probe has
  copied is what the target's ring holds from its own tail on, so that writing the tail
  back removes exactly what is shown (`Copied`). `DownInv`: the target reads only up
  to its own head, behind which the characters of an unfinished poll already lie
  (`Filled`), and the room that the stale tail shows is free, as the real tail
  only moves on (`Free`). The write of head or tail can fail after it had its effect,
  or before; either leaves the order and costs completeness only. The proof
  rests on lemmas on distances around a ring (`RingAhead`), which replace reasoning on
  remainders.
* `AdaptersProofs!DriversKeepContract`: `Adapters` implements `AccessContract`
  (`AdSpec => Contract`), for any set of accesses that `AccessAssumption` allows,
  any number of pieces and of refusals. `IInv` says that a piece of the access is still ahead of the
  driver, or was moved and, for a read, is in the caller's buffer, or was turned
  away from a quiet access or spoilt in a blind one, unless a fault is kept
  (`Covered`); that a request
  which is made again after a recovery is the first one, as the recovery forgets the
  fault (`First`); and what the answer that is waiting says about its piece
  (`Answered`). `VerdictFits` is the one fact about each driver that the rest
  needs. Once the adaptor does not answer, the contract promises nothing and every step
  is allowed.

Assumptions on the constants are those of the modules: sizes are positive (`RttPoll`:
the poll refuses a channel without a buffer), and
the places of `CortexM` and the points of `CortexA` are of the kinds and at the
addresses of the module. `CortexA` has at least one comparator of each kind, as
`cortexa.c` computes their number from a field plus one (lines 488 and 489), and
physical addresses are numbers. No proof needs `MaskAssumption`: it is what makes
`AlignDown` the masks of `target_flash.c`.

Only model-checked:

* all liveness properties, and the properties that have a liveness part
  (`GdbStream`, `AuxDelivered`, `AuxReceived`, `TraceSent`, `CloseIsSeen`): TLAPS does
  not reason about fairness;
* `Truthful`, `MapSound`, `HandlersFit` and `GivenBack`: they are about the tables
  of programs, one for each driver and chip, and a proof would execute them as TLC
  does, with no constant to generalise over;
* `FramesExact`, `ChainExact` and `ShiftExact`: they compare with a function that is
  defined by recursion on the characters or bits, and what such a function computes
  can only be shown by induction over data;
* `RepliesOwed` and the first half of `Released` as `Sessions` states them, for one
  of its worlds; `StopReplies` and `DetachReleases` prove them of `GdbSession` itself.

## Disagreements

With a run that shows them: the six violated runs above; `PROJECT.json` quotes
the line each one contradicts.

* flash_erase: an erase between a write and vFlashDone throws buffered bytes away.
* session_hostio: `hostio_get_response` takes any packet for the answer.
* jtag_delay: the slowed-down capture zeroes the last byte of 8n bits and drops
  the last of 8n + 1.
* stub: every failure of `cortexm_run_stub` reads as success to its callers.
* swd_raw: an SWD write of more than seven bits through an FTDI cable without
  MPSSE wiring repeats its first seven bits.
* trace_left: a trace packet that arrives after `trace_buf_drain` found the ring
  empty, and before it clears its flag, stays there.

Met while modelling, without a run of their own. The models exclude or name each
of them; where a property has an exclusion, its comment says so.

Flash programming and drivers:

* a `prepare` that fails inside a flush (`target/target_flash.c:184`) leaves the
  old range beside a new base, which breaks `BufferWindow`; hence the exclusion
  in run and proof;
* a write by `stm32f1.c` returns true while the last half-word is being
  programmed (lines 523 to 539). A lost link reads as success in `stm32g0.c`,
  `ch32f1.c` (`return -1` from a `bool` function), `efm32.c` and the SPI flash
  drivers (`rp.c`, `imxrt.c`, `lpc43xx.c`), and is waited on for ever in
  `kinetis.c`, `msp432.c`, the LPC drivers and the last wait of `nxpke04.c`. A page
  that fails is not noticed by `nrf51.c`, `samd.c` (erase and write; its check of
  PERR returns true), `lmi.c`, `efm32.c` and the SPI flash drivers, and is waited on
  for ever in `ch32f1.c`; the mass erase of `nxpke04.c` ignores all results. The
  second wait of `kinetis_mdm_mass_erase` has its condition inverted;
* `stm32h7_mass_erase` (line 380, for bank 2), `stm32lx_mass_erase`, the mass erase
  of `lpc546xx.c` and the second wait of `option_write` in `stm32l4.c` return false
  on success (`Inverted`). `sam4l.c` and the user row of `samd.c` return while the
  controller is busy (`Unawaited`);
* the user row of `samd.c` is erased and its rewriting lost with the link, with
  true as the result; `samx5x.c` compares a lock or boot protection it could not
  read with zero; `efm32.c` writes back a boot loader word it did not check;
  `option write` of `stm32f4.c` with one value writes zero to OPTCR1;
  `stm32g0.c` changes its table of default options. `renesas.c` cuts FSTATR to 8
  bits. `msp432_flash_erase` does not advance its address, which is harmless as
  `target_flash_erase` asks for one block at a time;
* `stm32l4_attach` adds sizes of SRAM without the factor 1024, `stm32f4_attach`
  allocates its storage again on every attach, the EFM32 access port never frees
  it, LPC15xx parts inherit `stm32f1_mass_erase` from an earlier probe function,
  regions of the KL02 are not a whole number of blocks long (`kinetis.c:244`, left out
  of the catalogue), and allocations
  of `stm32h7.c`, `stm32l4.c`, `stm32g0.c`, `samd.c`, `samx5x.c` and `efm32.c` are
  used unchecked (not made to fail in the model). `stm32l4.c:662` (STM32L5), a
  STM32H7 that is found twice and the boot ROM of the LPC43x0 are not put back as
  they were (`"keeps"` in `GivenBack`).

Session, packets and the host:

* an exception in the cleanup after an exception ends in `abort()` (`main.c:88`);
  the end of transmission during a semihosting call resumes a target that was
  detached (`target/cortexm.c:1100`); `gdb_target_running` can outlive its target
  by one round (`main.c:86`); a port closed and opened between two polls is not
  noticed (`main.c:53`), hence `QuickReopen` is off in the sound world;
  `target_list_free` calls a detach handler without asking whether there is one
  (`target/target.c:104`, unlike line 249);
* a `$` inside a remote packet is lost with the packet it begins
  (`gdb_packet.c:92`); an escape followed by `#` ends the frame
  (`gdb_packet.c:101`; constant `EscapedHash`); an ack later than the probe waits is
  taken for the ack of the next reply (`gdb_packet.c:204`; `Confused` in `GdbLink`);
* characters read ahead survive a close and reopen of the port in the second
  buffer of `gdb_if.c`, and `gdb_if_putchar` waits without end for a host that
  does not read;
* switching RTT off while its flow control is closed leaves the endpoint closed
  (`command.c:517`; `AuxDelivered` excludes this state, `Orphaned`). Characters
  taken for the target are lost when the write of the down buffer fails, and those
  for the host when the port is closed. The path of `rtt.c` that halts the core is
  taken only for cores named RVDBG, and would undo a Ctrl-C that is not yet in
  effect;
* `usb_serial.c:213` sends its notification on the data endpoint; transfers to the
  host begin again after a bus reset only because of that. When half and whole
  transfer of the trace DMA are pending together, one packet is dropped;
* File-I/O of the probe's build ends at the first memory packet (session_hostio);
  in the hosted build SYS_READ writes the whole buffer back, and SYS_WRITE through
  the redirected console reports nothing written.

Debug link and cores:

* over JTAG `dp->fault` holds up nothing: after a WAIT the loop writes to where the
  port was left (`target/adiv5_jtagdp.c:102`), so `NoStrayWrite` is restricted
  there; `adiv5_jtagdp_error` returns what RDBUFF gave, zero, so that no error is
  reported (line 78). Over SWD a bus error is cleared by the retry of the next
  access, with the same effect (`target/adiv5_swdp.c:267`; `ErrorsReported` in
  `AdiMem` states it and is false);
* a read across a 1 KiB boundary makes one read more than it uses, at the start of
  the page that it leaves (`target/adiv5.c:1041`, before TAR is set again). If
  there is no memory there, the sticky error makes a port on JTAG discard the rest
  of the transfer, although every byte asked for is readable (`Sound` in `AdiMem`
  leaves this out; it came up in the proof of `Exact`);
* a Cortex-A never drops its access port (`target/cortexa.c:478`) and an
  exception in the middle of a scan drops none (`target/adiv5.c:736`);
  `ScanExact` excludes both;
* `jtag_validate_irs` (`target/jtag_scan.c:323`) reads the instruction registers out "to
  validate" them and only warns when the first bit is 0: the lengths a user gives are
  believed (`LengthsRight` in `ChainExact`);
* after SYS_EXIT the core is stepped over the call, gets its old registers back, the
  program counter included, and is stepped again (`target/cortexm.c:1928`);
* a full chain of 32 devices reads `jtag_devs[32]` (`target/jtag_scan.c:279`);
* `stepping` outlives a halt request and a detach, so the next step changes
  C_MASKINTS with C_HALT clear (`target/cortexm.c:1129`; `StepMasked` in
  `CortexM` states the comment of line 1122 and is false); `on_bkpt` can be stale
  after the pc was written;
* on Cortex-A watchpoints of an earlier session stay in the core and in
  `hw_watchpoint_mask`; a watchpoint of an odd size keeps its slot; the poll in
  attach dereferences no watchpoint when the core stopped at one; a `mmu_fault`
  left by an address translation makes a later software breakpoint fail with its
  instruction in place, and one that is cleared stay on the list; a hardware
  breakpoint whose translation was refused is reported as set, with what PAR held in the
  comparator (`target/cortexa.c:890`); attaching with nRST asserted leaves `reg_cache`
  unread.

Hosted build:

* a remote probe answers OK to an access that met an error on the bus
  (`target/adiv5_swdp.c:269`; `Blind`). Its `remote_dp` has no error function
  (`remote.c:124`), which the recovery from no response would call. Its `fault` is never
  cleared (`remote.c:357`); an answer that comes late is taken for the answer to the next
  request; `dap_run_cmd` takes a negative USB result for success and a short bulk
  answer goes unnoticed; a stale WAIT can hold the CMSIS-DAP block transfer in its
  loop; ST-Link's refusal of an access that is too long is not passed on (`Quiet`);
* the data of a J-Link write are sent without their command: `jlink_adiv5_swdp_low_write`
  never sets `cmd[0]` to `CMD_HW_JTAG3` (`jlink_adiv5_swdp.c:266`, unlike lines 200 and
  244), hence `Blind`;
* excluded by `AccessAssumption`: a write of halfwords or words of more than 495
  bytes over version 3 of the remote protocol is cut into blocks of 495
  (`protocol_v3_adiv5.c:184`), which the probe refuses (`remote.c:452`) and the host
  only logs; CMSIS-DAP writes narrower than a word ask for too few transfers
  (`dap.c:287`); a read that is too long for an ST-Link is never asked for;
* `dap_swd_seq_in_parity` returns the opposite of what its callers expect, and the
  raw FTDI routines compute parity wrongly; a final read of 8n + 1 bits waits for a
  byte that the FTDI adaptor never sends, and over CMSIS-DAP loses the other bits
  of its last byte; the remote REMOTE_TMS reads two digits. These jobs are left
  out of `MCHosted`.

## Not modelled

`PROJECT.json` lists every part with its status. Left out:

* pure functions whose inputs TLC cannot enumerate to any purpose, or that have
  nothing to get wrong in a sequence of steps: the CRC, conversions of hexadecimal
  digits, the arithmetic on the parameter tables of SPI flashes (`sfdp.c`), target
  descriptions, tables of device IDs, and text;
* the bootloader (`dfucore.c`, `dfu_f1.c`, `dfu_f4.c`), a program of its own whose
  states are those of a USB library;
* what belongs to others: the USB library and its descriptors, the operating
  system's sockets, serial ports and USB (`platforms/hosted`), the search for
  adaptors, which is what the adaptor answers;
* pins, clocks, LEDs and timers of the boards. Time appears as timeouts that may
  or may not come;
* the Manchester trace (`traceswo.c`), which measures pulse widths, and the
  decoding of its channels. The asynchronous variant is in `TraceSwo`.

Of modelled parts: `stm32lx_protected_mass_erase`, `lpc55_dmap_mass_erase`,
`sam3_flash_erase`, which does nothing because its write erases; option bytes of
`stm32f1.c` other than for a word that is not blank; the instructions inside the
flash stubs, and the single transfers of SPI. `kinetis_mdm_mass_erase` and
`stm32f4_cmd_option` are translated in `OptionPrograms`, but no run holds them to
`Truthful`, which they break as said above. In `CortexA` a reset comes only with
nothing inserted. `UartEndpoint` leaves out the early return while the UART is
disabled (`usb_serial.c:324`), `TraceSwo` the branch that decodes (`traceswoasync.c:62`).
A restart of the target in the middle of an RTT poll, the interval
between polls and an unreadable semihosting parameter block are left out.

Abstracted away where a part is modelled: contents of registers and memory in
`GdbSession` and `CortexM`; the values of bits in `SwdWire`; which component of
an access port is which core in `AdiScan` (a free choice); addresses and register
values in the programs of the drivers.
