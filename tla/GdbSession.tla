----------------------------- MODULE GdbSession -----------------------------
(***************************************************************************)
(* A debug session: the list of targets (target.c), the packets that act   *)
(* on cur_target and last_target (gdb_main.c), the main loop that polls a  *)
(* running target (main.c), exceptions that end in the loop's handler      *)
(* (exception.h), and semihosting calls that handle packets from inside    *)
(* the poll of the target (gdb_hostio.c, cortexm_hostio_request).          *)
(*                                                                         *)
(* A target_s is named by its address; the allocator may hand out an       *)
(* address again after it was freed.                                       *)
(***************************************************************************)
EXTENDS Integers, Sequences, FiniteSets, Functions

CONSTANTS
    Targets,       \* addresses a target_s may have
    NULL,
    MaxList,       \* most targets one scan finds
    Faults,        \* "raise": an access may raise an exception; "attach": attach may fail
    CleanupFaults, \* detaching may raise as well while the list is freed
    Semihosting,   \* targets make semihosting calls
    EofInSyscall,  \* the port may be closed during a semihosting call
    QuickReopen    \* the port may be opened again before the target was detached

ASSUME SessionAssumption ==
    /\ NULL \notin Targets
    /\ MaxList \in Nat
    /\ Faults \subseteq {"raise", "attach"}
    /\ CleanupFaults \in BOOLEAN /\ Semihosting \in BOOLEAN /\ EofInSyscall \in BOOLEAN
    /\ QuickReopen \in BOOLEAN

VARIABLES
    list,        \* target_list
    heap,        \* allocated targets
    attached,    \* t->attached
    tc,          \* t->tc is set
    core,        \* "free", "run", "halting", "stop": the core behind the target
    cur, last,   \* cur_target, last_target
    running,     \* gdb_target_running
    notify,      \* gdb_needs_detach_notify
    pc,          \* where main() is: "loop", "char", "packet", "syscall", "catch", "dead"
    dtr,         \* the serial port is open
    owed,        \* GDB waits for a stop reply
    fdue,        \* GDB works on a semihosting call and will answer it with F
    trap         \* why main() died, or a reply nobody waited for

vars == <<list, heap, attached, tc, core, cur, last, running, notify, pc,
          dtr, owed, fdue, trap>>

session == <<list, heap, attached, tc, core, cur, last, notify>>
gdb == <<dtr, owed, fdue>>

Init ==
    /\ list = <<>> /\ heap = {} /\ attached = {} /\ tc = {}
    /\ core = [t \in Targets |-> "free"]
    /\ cur = NULL /\ last = NULL
    /\ running = FALSE /\ notify = FALSE
    /\ pc = "loop"
    /\ dtr = TRUE /\ owed = FALSE /\ fdue = FALSE
    /\ trap = "none"

---------------------------------------------------------------------------
(* The list of targets.                                                    *)

DestroyCallbackCurOnly(S, keepcur) ==   \* mutant: last_target is left alone
    /\ cur' = IF cur \in S \cap tc THEN NULL ELSE keepcur
    /\ last' = last
    /\ notify' = (notify \/ cur \in S \cap tc)

\* gdb_target_destroy_callback for the targets of S; keepcur is what
\* cur_target becomes when it is not one of them.
DestroyCallback(S, keepcur) ==
    /\ cur' = IF cur \in S \cap tc THEN NULL ELSE keepcur
    /\ last' = IF last \in S \cap tc THEN NULL ELSE last
    /\ notify' = (notify \/ cur \in S \cap tc)

ListAfterKept(k) == list' = list   \* mutant: target_list is not reset

\* target_list is reset only when the walk reaches its end.
ListAfter(k) == list' = IF k = Len(list) THEN <<>> ELSE list

\* target_list_free that got through the first k targets.
FreeFirst(k) ==
    LET S == {list[i] : i \in 1..k} IN
    /\ heap' = heap \ S
    /\ attached' = attached \ S
    /\ tc' = tc \ S
    /\ core' = [t \in Targets |-> IF t \in S THEN "free" ELSE core[t]]
    /\ DestroyCallback(S, cur)
    /\ ListAfter(k)

\* Detaching the target after the first k raises an exception.
FreeStops(k) ==
    /\ CleanupFaults
    /\ k < Len(list)
    /\ list[k + 1] \in attached
    /\ FreeFirst(k)

\* ... and goes to a handler.  When targets were freed before, target_list
\* leads to freed memory and what the next walk does is undefined.
FreeRaises(handler) ==
    \E k \in 0..Len(list) :
        /\ FreeStops(k)
        /\ IF k = 0 THEN pc' = handler /\ UNCHANGED trap
           ELSE pc' = "dead" /\ trap' = "dangling"

\* An exception leaves the handler; main()'s TRY_CATCH gets it.
Raise ==
    /\ "raise" \in Faults
    /\ pc' = "catch"

\* The handler of main(): "EFF" and target_list_free, outside of any TRY_CATCH.
MainCatch ==
    /\ pc = "catch"
    /\ \/ /\ FreeFirst(Len(list))
          /\ pc' = "loop"
          /\ UNCHANGED trap
       \/ \E k \in 0..Len(list) :
          /\ FreeStops(k)
          /\ pc' = "dead" /\ trap' = "abort"
    /\ owed' = FALSE
    /\ UNCHANGED <<running, dtr, fdue>>

\* The old list goes, then target_new appends the targets that are found;
\* they are probed and left running.
Rescan(found) ==
    LET old == Range(list) IN
    /\ list' = found
    /\ heap' = (heap \ old) \cup Range(found)
    /\ attached' = attached \ old
    /\ tc' = tc \ old
    /\ core' = [t \in Targets |-> IF t \in Range(found) THEN "run"
                                  ELSE IF t \in old THEN "free" ELSE core[t]]
    /\ DestroyCallback(old, cur)

\* swdp_scan, jtag_scan, auto_scan.  A scan catches its own exceptions and
\* keeps what it found before.
Scan ==
    /\ pc = "packet" /\ dtr /\ ~owed
    /\ \/ \E found \in UNION {[1..k -> Targets] : k \in 0..MaxList} :
          /\ IsInjective(found)
          /\ Range(found) \cap (heap \ Range(list)) = {}
          /\ Rescan(found)
          /\ pc' = "loop"
          /\ UNCHANGED trap
       \/ FreeRaises("loop")
    /\ UNCHANGED running
    /\ UNCHANGED gdb

---------------------------------------------------------------------------
(* Packets.                                                                *)

AtPacket == pc = "packet" /\ dtr /\ ~owed

\* target_attach: the controller that holds the target is told that it lost
\* it, then the target is attached and its core told to halt.  cur_target
\* becomes the result.
AttachTo(t, ok, state) ==
    /\ tc' = tc \cup {t}
    /\ attached' = IF ok THEN attached \cup {t} ELSE attached
    /\ core' = [core EXCEPT ![t] = state]
    /\ cur' = IF ok THEN t ELSE NULL
    /\ last' = IF t \in tc /\ last = t THEN NULL ELSE last
    /\ notify' = (notify \/ (t \in tc /\ cur = t))
    /\ UNCHANGED <<list, heap>>

\* ... or attaching raises: the assignment to cur_target does not happen.
AttachRaises(t) ==
    /\ tc' = tc \cup {t}
    /\ DestroyCallback({t}, cur)
    /\ Raise
    /\ core' \in {core, [core EXCEPT ![t] = "halting"]}
    /\ UNCHANGED <<list, heap, attached>>

\* vAttach;n
VAttach ==
    /\ AtPacket
    /\ \E n \in 1..(MaxList + 1) :
          \/ /\ n <= Len(list)
             /\ \/ \E ok \in BOOLEAN :
                   /\ ok \/ "attach" \in Faults
                   /\ AttachTo(list[n], ok, "halting")
                   /\ pc' = "loop"
                \/ AttachRaises(list[n])
          \/ /\ n > Len(list)        \* target_attach_n: no such target
             /\ cur' = NULL
             /\ pc' = "loop"
             /\ UNCHANGED <<list, heap, attached, tc, core, last, notify>>
    /\ UNCHANGED <<running, trap>>
    /\ UNCHANGED gdb

\* gdb_target_running = true: the main loop will send the stop reply.
StartPolling == running' = TRUE

\* 'c', 'C', 's': target_halt_resume, then as '?'.
Resume ==
    /\ AtPacket
    /\ \/ /\ cur = NULL               \* "X1D"
          /\ pc' = "loop"
          /\ UNCHANGED <<core, running, owed>>
       \/ /\ cur # NULL
          /\ core' = [core EXCEPT ![cur] = "run"]
          /\ StartPolling
          /\ owed' = TRUE
          /\ pc' = "loop"
       \/ /\ cur # NULL
          /\ Raise
          /\ UNCHANGED <<core, running, owed>>
    /\ UNCHANGED <<list, heap, attached, tc, cur, last, notify, trap, dtr, fdue>>

\* '?'
HaltReason ==
    /\ AtPacket
    /\ IF cur = NULL THEN UNCHANGED <<running, owed>>      \* "W00"
       ELSE StartPolling /\ owed' = TRUE
    /\ pc' = "loop"
    /\ UNCHANGED session
    /\ UNCHANGED <<trap, dtr, fdue>>

DetachCurHeld ==   \* mutant: the target's detach is not called
    /\ core' = core
    /\ attached' = attached \ {cur}
    /\ last' = cur
    /\ cur' = NULL
    /\ UNCHANGED <<list, heap, tc, notify>>

\* target_detach of cur_target, which becomes last_target.
DetachCur ==
    /\ core' = [core EXCEPT ![cur] = "free"]
    /\ attached' = attached \ {cur}
    /\ last' = cur
    /\ cur' = NULL
    /\ UNCHANGED <<list, heap, tc, notify>>

\* 'D', 'k', 'vKill' and the end-of-transmission of a closed port.
Detach ==
    /\ pc = "packet"
    /\ ~dtr \/ ~owed
    /\ \/ /\ cur = NULL
          /\ pc' = "loop"
          /\ UNCHANGED session
       \/ /\ cur # NULL
          /\ DetachCur
          /\ pc' = "loop"
       \/ /\ cur # NULL
          /\ Raise
          /\ UNCHANGED session
    /\ owed' = IF dtr THEN owed ELSE FALSE
    /\ UNCHANGED <<running, trap, dtr, fdue>>

\* 'r' and 'R': without a target the last one is attached again, and
\* target_reset is called even when that fails.
Restart ==
    /\ AtPacket
    /\ \/ /\ cur = NULL /\ last = NULL
          /\ pc' = "loop"
          /\ UNCHANGED session /\ UNCHANGED trap
       \/ /\ cur # NULL
          /\ core' = [core EXCEPT ![cur] = "stop"]
          /\ pc' = "loop"
          /\ UNCHANGED <<list, heap, attached, tc, cur, last, notify, trap>>
       \/ /\ cur = NULL /\ last # NULL
          /\ AttachTo(last, TRUE, "stop")
          /\ pc' = "loop"
          /\ UNCHANGED trap
       \/ /\ cur = NULL /\ last # NULL
          /\ "attach" \in Faults
          /\ AttachTo(last, FALSE, "halting")
          /\ pc' = "dead" /\ trap' = "null"
       \/ /\ cur # NULL
          /\ Raise
          /\ UNCHANGED session /\ UNCHANGED trap
       \/ /\ cur = NULL /\ last # NULL
          /\ AttachRaises(last) \/ (AttachTo(last, TRUE, "halting") /\ Raise)
          /\ UNCHANGED trap
    /\ UNCHANGED running
    /\ UNCHANGED gdb

\* vRun: as 'R', but a failed attach is answered with an error.
VRun ==
    /\ AtPacket
    /\ \/ /\ cur = NULL /\ last = NULL
          /\ pc' = "loop"
          /\ UNCHANGED session
       \/ /\ cur # NULL
          /\ core' = [core EXCEPT ![cur] = "stop"]
          /\ pc' = "loop"
          /\ UNCHANGED <<list, heap, attached, tc, cur, last, notify>>
       \/ /\ cur = NULL /\ last # NULL
          /\ \/ AttachTo(last, TRUE, "stop")
             \/ "attach" \in Faults /\ AttachTo(last, FALSE, "halting")
          /\ pc' = "loop"
       \/ /\ cur # NULL
          /\ Raise
          /\ UNCHANGED session
       \/ /\ cur = NULL /\ last # NULL
          /\ AttachRaises(last) \/ (AttachTo(last, TRUE, "halting") /\ Raise)
    /\ UNCHANGED <<running, trap>>
    /\ UNCHANGED gdb

\* vStopped
VStopped ==
    /\ AtPacket
    /\ notify' = FALSE
    /\ pc' = "loop"
    /\ UNCHANGED <<list, heap, attached, tc, core, cur, last, running, trap>>
    /\ UNCHANGED gdb

\* Packets and monitor commands that access the target: registers, memory,
\* breakpoints, flash.  Without a target they answer with an error.
Access ==
    /\ AtPacket
    /\ pc' = "loop" \/ (cur # NULL /\ Raise)
    /\ UNCHANGED session
    /\ UNCHANGED <<running, trap>>
    /\ UNCHANGED gdb

\* monitor reset: the list is freed before the reset line is pulsed.
MonitorReset ==
    /\ AtPacket
    /\ \/ FreeFirst(Len(list)) /\ pc' = "loop" /\ UNCHANGED trap
       \/ FreeRaises("catch")
    /\ UNCHANGED running
    /\ UNCHANGED gdb

\* An F packet outside of a semihosting call is refused.
LateF ==
    /\ pc = "packet" /\ dtr
    /\ fdue
    /\ fdue' = FALSE
    /\ trap' = "late"
    /\ pc' = "loop"
    /\ UNCHANGED session
    /\ UNCHANGED <<running, dtr, owed>>

---------------------------------------------------------------------------
(* bmp_poll_loop.                                                          *)

Polling == running /\ cur # NULL

LoopExit ==
    /\ pc = "loop"
    /\ ~Polling
    /\ pc' = "packet"
    /\ UNCHANGED session
    /\ UNCHANGED <<running, trap>>
    /\ UNCHANGED gdb

StopPollingForgotten == running' = running   \* mutant

\* "switch polling off"
StopPolling == running' = FALSE

\* A stop reply goes to GDB.
StopReply ==
    /\ owed' = FALSE
    /\ trap' = IF owed \/ ~dtr THEN trap ELSE "spurious"

SeemsRunningAlways == TRUE   \* mutant: S_HALT is not tested

\* S_HALT is clear, or reading DHCSR times out because the core sleeps.
SeemsRunning == core[cur] # "stop" \/ "raise" \in Faults

\* The target still runs, or did not answer in time.
PollRunning ==
    /\ pc = "loop" /\ Polling
    /\ SeemsRunning
    /\ pc' = "char"
    /\ UNCHANGED session
    /\ UNCHANGED <<running, trap>>
    /\ UNCHANGED gdb

\* The target halted: gdb_poll_target sends a stop reply.
PollHalted ==
    /\ pc = "loop" /\ Polling
    /\ core[cur] = "stop"
    /\ StopPolling
    /\ StopReply
    /\ pc' = "loop"
    /\ UNCHANGED session
    /\ UNCHANGED <<dtr, fdue>>

\* cortexm_halt_poll: an error while reading the state of the core frees the
\* list and reports that the target is lost; other accesses of the poll raise.
PollLost ==
    /\ pc = "loop" /\ Polling
    /\ "raise" \in Faults
    /\ \/ /\ FreeFirst(Len(list))
          /\ StopPolling
          /\ StopReply
          /\ pc' = "loop"
       \/ /\ FreeRaises("catch")
          /\ UNCHANGED <<running, owed>>
       \/ /\ core[cur] = "stop"
          /\ Raise
          /\ UNCHANGED session
          /\ UNCHANGED <<running, owed, trap>>
    /\ UNCHANGED <<dtr, fdue>>

\* The target stopped for a semihosting call, which is sent to GDB.
PollSyscall ==
    /\ Semihosting
    /\ pc = "loop" /\ Polling
    /\ core[cur] = "stop"
    /\ pc' = "syscall"
    /\ fdue' = TRUE
    /\ UNCHANGED session
    /\ UNCHANGED <<running, trap, dtr, owed>>

\* hostio_get_response handles one packet, whatever it is, and ends the
\* call.  Then cortexm_hostio_request writes the result back and
\* cortexm_halt_poll resumes the core.
SyscallResumes ==
    /\ core' = [core EXCEPT ![cur] = "run"]
    /\ UNCHANGED <<list, heap, attached, tc, notify, running, dtr, trap>>

\* F: the answer.
SyscallReply ==
    /\ pc = "syscall" /\ dtr /\ fdue
    /\ fdue' = FALSE
    /\ pc' = "char"
    /\ SyscallResumes
    /\ UNCHANGED <<cur, last, owed>>

\* F with the Ctrl-C flag: the core stays halted.
SyscallInterrupt ==
    /\ pc = "syscall" /\ dtr /\ fdue
    /\ fdue' = FALSE
    /\ StopPolling
    /\ StopReply
    /\ pc' = "loop"
    /\ UNCHANGED session /\ UNCHANGED dtr

\* m, M, X: GDB fetches what the call refers to before it answers.
SyscallMemory ==
    /\ pc = "syscall" /\ dtr
    /\ pc' = "char"
    /\ SyscallResumes
    /\ UNCHANGED <<cur, last, owed, fdue>>

SyscallRaises ==
    /\ pc = "syscall"
    /\ Raise
    /\ UNCHANGED session
    /\ UNCHANGED <<running, trap>>
    /\ UNCHANGED gdb

\* End of transmission: the target is detached and then resumed all the same.
SyscallEof ==
    /\ pc = "syscall" /\ ~dtr
    /\ core' = [core EXCEPT ![cur] = "run"]
    /\ attached' = attached \ {cur}
    /\ last' = cur /\ cur' = NULL
    /\ fdue' = FALSE /\ owed' = FALSE
    /\ pc' = "loop"
    /\ UNCHANGED <<list, heap, tc, notify, running, dtr, trap>>

RequestsHalt(c) == c = "interrupt" \/ ~dtr

\* The loop reads a character while the target runs: Ctrl-C and the end of
\* transmission request a halt, anything else is lost.
ReadChar ==
    /\ pc = "char"
    /\ pc' = "loop"
    /\ \E c \in {"none", "interrupt", "other"} :
          /\ core' = IF RequestsHalt(c) /\ core[cur] = "run"
                     THEN [core EXCEPT ![cur] = "halting"] ELSE core
          /\ c # "none" => dtr
          /\ IF c = "other" /\ fdue
             THEN fdue' = FALSE /\ trap' = "late"
             ELSE UNCHANGED <<fdue, trap>>
    /\ UNCHANGED <<list, heap, attached, tc, cur, last, notify, running, dtr, owed>>

---------------------------------------------------------------------------
(* The world.                                                              *)

\* A running core stops: a breakpoint, a fault, a halt request.
CoreStops ==
    /\ \E t \in heap : core[t] = "run" /\ core' = [core EXCEPT ![t] = "stop"]
    /\ UNCHANGED <<list, heap, attached, tc, cur, last, notify, running, pc, trap>>
    /\ UNCHANGED gdb

CoreObeys ==
    /\ \E t \in heap : core[t] = "halting" /\ core' = [core EXCEPT ![t] = "stop"]
    /\ UNCHANGED <<list, heap, attached, tc, cur, last, notify, running, pc, trap>>
    /\ UNCHANGED gdb

\* The host closes the port, and opens it again for a new GDB.
PortCloses ==
    /\ dtr
    /\ pc = "syscall" => EofInSyscall
    /\ dtr' = FALSE
    /\ fdue' = IF pc = "syscall" THEN fdue ELSE FALSE
    /\ UNCHANGED session
    /\ UNCHANGED <<running, pc, owed, trap>>

PortOpens ==
    /\ ~dtr
    /\ QuickReopen \/ cur = NULL
    /\ dtr' = TRUE
    /\ owed' = FALSE
    /\ UNCHANGED session
    /\ UNCHANGED <<running, pc, fdue, trap>>

Packet ==
    \/ Scan \/ VAttach \/ Resume \/ HaltReason \/ Restart \/ VRun
    \/ VStopped \/ Access \/ MonitorReset \/ LateF

Poll == LoopExit \/ PollRunning \/ PollHalted \/ PollLost \/ PollSyscall \/ ReadChar

Syscall ==
    SyscallReply \/ SyscallInterrupt \/ SyscallMemory \/ SyscallRaises \/ SyscallEof

Next ==
    \/ Packet \/ Detach \/ Poll \/ Syscall \/ MainCatch
    \/ CoreStops \/ CoreObeys \/ PortCloses \/ PortOpens

Spec == Init /\ [][Next]_vars

---------------------------------------------------------------------------
TypeOK ==
    /\ list \in Seq(Targets) /\ Len(list) <= MaxList
    /\ heap \subseteq Targets /\ attached \subseteq Targets /\ tc \subseteq Targets
    /\ core \in [Targets -> {"free", "run", "halting", "stop"}]
    /\ cur \in Targets \cup {NULL} /\ last \in Targets \cup {NULL}
    /\ running \in BOOLEAN /\ notify \in BOOLEAN
    /\ pc \in {"loop", "char", "packet", "syscall", "catch", "dead"}
    /\ dtr \in BOOLEAN /\ owed \in BOOLEAN /\ fdue \in BOOLEAN
    /\ trap \in {"none", "abort", "null", "dangling", "late", "spurious"}

\* cur_target and last_target never outlive the target they point to,
\* whatever frees the list: a scan, monitor reset, a lost target, the
\* handler of main().  cur_target is attached and both are in the list.
TargetPointersLive ==
    /\ cur # NULL => cur \in heap \cap attached /\ cur \in Range(list)
    /\ last # NULL => last \in heap /\ last \in Range(list)

\* As long as the firmware is alive the list holds every allocated target
\* once and nothing else: nothing leaks and no freed target stays reachable.
ListExact ==
    pc # "dead" =>
    /\ Range(list) = heap
    /\ Cardinality(heap) = Len(list)
    /\ attached \cup tc \subseteq heap

\* GDB gets one stop reply for each resume or '?', and none unasked.
StopRepliesOwed ==
    /\ trap # "spurious"
    /\ pc \in {"loop", "packet"} /\ dtr => (owed <=> Polling)

\* A target that was detached is really released: "Resume target and disable
\* debug, re-enabling interrupts in the process" (cortexm.c:851).
LastReleased == last # NULL /\ last \notin attached => core[last] = "free"

\* GDB's answer to a semihosting call reaches the call.
SyscallAnswered == trap # "late"

\* When the port is closed for good, the target is let go.
PortClosedReleases == (<>[]~dtr) => <>[](cur = NULL)

\* A Ctrl-C, or any other halt, is reported: GDB is not left waiting for a
\* target that stopped.
StopReported == (owed /\ cur # NULL /\ core[cur] = "stop") ~> (~owed \/ cur = NULL \/ core[cur] # "stop")

=============================================================================
