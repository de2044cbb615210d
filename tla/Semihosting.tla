---------------------------- MODULE Semihosting ----------------------------
(***************************************************************************)
(* The semihosting calls of a Cortex-M program (cortexm_hostio_request).   *)
(* A program stops at a BKPT 0xab with the number of a call in r0 and its  *)
(* parameters in r1 or in memory.  The firmware of the probe turns the     *)
(* call into a File-I/O packet and runs the session of GDB until the F     *)
(* packet answers it; the hosted build asks its operating system.  For the *)
(* calls whose result GDB writes to memory of the probe, the target's      *)
(* memory operations are exchanged meanwhile.                              *)
(*                                                                         *)
(* The program is a C library that writes Data to a file with as many      *)
(* calls as it takes, asks for the length, seeks to the start and reads it *)
(* again, and makes other calls in between.  The host is external: it      *)
(* transfers fewer bytes than asked for, fails, and passes a Ctrl-C on.    *)
(***************************************************************************)
EXTENDS Integers, Sequences

CONSTANTS Data      \* the bytes the program writes

ASSUME DataAssumption == Data \in Seq(Nat)

VARIABLES
    build,          \* "probe", "redirected" (the probe, with stdout_redirected) or "hosted"
    program,        \* what the program does next
    call,           \* the call it has made, or NoCall
    mem_path,       \* t->mem_read and t->mem_write: to the "target" or to the "probe"
    r0,             \* the result
    interrupted,    \* of the target controller
    handle, done,   \* the program's handle and how much it has written,
    size, got,      \* the length it was told, and what it has read
    buffer,         \* where it reads to
    file, position  \* the host's file: what is in it and where its descriptor is

programVars == <<program, handle, done, size, got>>
hostVars == <<file, position>>
semiVars == <<build, programVars, call, mem_path, r0, interrupted, buffer, hostVars>>

NoCall == [sys |-> "none", fd |-> 0, len |-> 0, state |-> "none"]
Junk == -1
Descriptor == 3                 \* what the host opens; 0 to 2 are its console
Rest == SubSeq(Data, done + 1, Len(Data))

SemiInit ==
    /\ build \in {"probe", "redirected", "hosted"}
    /\ program = "open" /\ call = NoCall /\ mem_path = "target"
    /\ r0 = 0 /\ interrupted = FALSE
    /\ handle = 0 /\ done = 0 /\ size = -1 /\ got = <<>>
    /\ buffer = [i \in 1..Len(Data) |-> Junk]
    /\ file = <<>> /\ position = -1     \* not open

---------------------------------------------------------------------------
(* The program. *)

Misc == {"writec", "write0", "istty", "rename", "remove", "system", "clock", "time", "readc",
         "errno", "iserror", "cmdline", "heapinfo", "tmpnam", "elapsed", "exit"}

Trap(sys, fd, length) ==
    /\ call = NoCall /\ ~interrupted
    /\ call' = [sys |-> sys, fd |-> fd, len |-> length, state |-> "asked"]
    /\ UNCHANGED <<build, mem_path, r0, interrupted, buffer, hostVars>>

\* The handle of a file is not 0; the descriptor the probe passes on is one less.
ProgramCalls ==
    /\ \/ program \in {"open", "flen", "seek", "close"} /\ Trap(program, handle - 1, 0)
       \/ program = "write" /\ Trap("write", handle - 1, Len(Rest))
       \/ program = "read" /\ Trap("read", handle - 1, Len(Data) - Len(got))
       \/ program # "end" /\ \E sys \in Misc : Trap(sys, 0, 0)
    /\ UNCHANGED programVars

\* The program takes the result: -1, or for a transfer how much was not transferred.
ProgramGoesOn ==
    /\ call.state = "answered" /\ ~interrupted
    /\ call' = NoCall
    /\ CASE call.sys = "open" ->
              /\ program' = IF r0 = -1 THEN "end" ELSE "write"
              /\ handle' = r0
              /\ UNCHANGED <<done, size, got>>
         [] call.sys = "write" ->
              /\ done' = IF r0 = -1 THEN done ELSE done + call.len - r0
              /\ program' = IF r0 = -1 THEN "close" ELSE IF done' = Len(Data) THEN "flen" ELSE "write"
              /\ UNCHANGED <<handle, size, got>>
         [] call.sys = "flen" -> size' = r0 /\ program' = "seek" /\ UNCHANGED <<handle, done, got>>
         [] call.sys = "seek" ->
              program' = (IF r0 = 0 THEN "read" ELSE "close") /\ UNCHANGED <<handle, done, size, got>>
         [] call.sys = "read" ->
              /\ got' = IF r0 = -1 THEN got ELSE got \o SubSeq(buffer, 1, call.len - r0)
              /\ program' = IF r0 \in {-1, call.len} \/ Len(got') = Len(Data) THEN "close" ELSE "read"
              /\ UNCHANGED <<handle, done, size>>
         [] call.sys = "close" -> program' = "end" /\ UNCHANGED <<handle, done, size, got>>
         [] OTHER -> UNCHANGED programVars
    /\ UNCHANGED <<build, mem_path, r0, interrupted, buffer, hostVars>>

---------------------------------------------------------------------------
(* The host's side of a call: its result, the file and where the descriptor is. *)

Failed == [result |-> -1, file |-> file, position |-> position, bytes |-> <<>>]
Open == position >= 0

\* Transfers are partial, and any call may fail.
HostOutcomes(sys, fd, length) == {Failed} \cup
    IF sys = "open" THEN {[Failed EXCEPT !.result = Descriptor, !.file = <<>>, !.position = 0]}
    ELSE IF fd # Descriptor \/ ~Open THEN {}
    ELSE CASE sys = "write" ->
                {[Failed EXCEPT !.result = n, !.file = file \o SubSeq(Rest, 1, n), !.position = position + n] :
                    n \in 1..length}
           [] sys = "read" ->
                {[Failed EXCEPT !.result = n, !.position = position + n,
                                !.bytes = SubSeq(file, position + 1, position + n)] :
                    n \in {k \in 0..length : position + k <= Len(file)}}
           [] sys = "seek" -> {[Failed EXCEPT !.result = 0, !.position = 0]}
           [] sys = "flen" -> {[Failed EXCEPT !.result = Len(file)]}
           [] sys = "close" -> {[Failed EXCEPT !.result = 0, !.position = -1]}

Overwritten(bytes) == bytes \o SubSeq(buffer, Len(bytes) + 1, Len(buffer))

---------------------------------------------------------------------------
(* cortexm_hostio_request. *)

\* Calls whose result goes to memory of the probe.
ToProbe == {"flen", "clock", "time", "readc"}
\* Calls that are answered without the host.
Own == {"errno", "iserror", "cmdline", "heapinfo", "tmpnam", "elapsed", "exit"}
OwnResults(sys) ==
    CASE sys = "elapsed" -> {-1}
      [] sys \in {"heapinfo", "exit"} -> {0}
      [] sys \in {"errno", "iserror"} -> {0, 1}
      [] OTHER -> {-1, 0}

\* SYS_OPEN gives a handle, SYS_READ and SYS_WRITE what was not transferred.
TransferredCount(sys, result, length) ==    \* mutant: read and write give what was transferred
    IF sys = "open" /\ result # -1 THEN result + 1 ELSE result
Result(sys, result, length) ==
    IF result = -1 THEN -1
    ELSE CASE sys = "open" -> result + 1
           [] sys \in {"read", "write"} -> length - result
           [] OTHER -> result

\* The call of the target controller is one of gdb_hostio.c: a packet, and a wait.  What
\* goes to the console is sent to the AUX serial port when it is redirected.
hostio_call(c) == [c EXCEPT !.state = "served"]
tc_call(c) == IF build = "redirected" /\ c.sys \in {"writec", "write0"}
              THEN [c EXCEPT !.state = "answered"] ELSE hostio_call(c)

\* The firmware sends the packet, and runs the session until the answer comes.
RequestFileIo ==
    /\ build # "hosted" /\ call.sys \notin Own /\ call.state = "asked"
    /\ interrupted' = FALSE
    /\ mem_path' = IF call.sys \in ToProbe THEN "probe" ELSE mem_path
    /\ call' = tc_call(call)
    /\ r0' = IF call'.state = "served" THEN r0 ELSE IF call.sys = "writec" THEN 0 ELSE -1
    /\ UNCHANGED <<build, programVars, buffer, hostVars>>

SavedPath(path) == "target"

\* Whether GDB reads or writes memory to perform the call.
NeedsMemory(c, o) ==
    \/ c.sys \in Misc \ {"istty"}
    \/ c.sys = "open"
    \/ c.sys \in {"write", "flen"} /\ o.result >= 0
    \/ c.sys = "read" /\ o.result > 0

Performed(c) == IF c.sys \in Misc THEN {Failed, [Failed EXCEPT !.result = 1]}
                ELSE HostOutcomes(c.sys, c.fd, c.len)
Served(o) ==
    /\ file' = o.file /\ position' = o.position
    /\ mem_path' = IF call.sys \in ToProbe THEN SavedPath(mem_path) ELSE mem_path
    /\ call' = [call EXCEPT !.state = "answered"]
    /\ UNCHANGED <<build, programVars>>

\* The F packet: hostio_reply, with a C at its end when Ctrl-C was typed.
FileIoReply ==
    /\ call.state = "served"
    /\ \E o \in Performed(call) :
        /\ ~NeedsMemory(call, o)
        /\ r0' = Result(call.sys, o.result, call.len)
        /\ interrupted' \in BOOLEAN
        /\ UNCHANGED buffer
        /\ Served(o)

\* A memory packet that comes before it.  gdb_main_loop handles it, wherever mem_path
\* says, and returns 0, which hostio_get_response takes for the answer of the call; GDB
\* goes on with the call.
FileIoMemory ==
    /\ call.state = "served"
    /\ \E o \in Performed(call) :
        /\ NeedsMemory(call, o)
        /\ r0' = IF call.sys = "flen" THEN o.result ELSE Result(call.sys, 0, call.len)
        /\ buffer' = IF mem_path = "target" THEN Overwritten(o.bytes) ELSE buffer
        /\ UNCHANGED interrupted
        /\ Served(o)

\* The hosted build.  The whole buffer is written back, however much was read; memory
\* that cannot be read or written is an error.
HostedRequest ==
    /\ build = "hosted" /\ call.sys \notin Own /\ call.state = "asked"
    /\ IF call.sys \in Misc
       THEN r0' \in {-1, 0} /\ UNCHANGED <<hostVars, buffer>>
       ELSE \E o \in HostOutcomes(call.sys, call.fd, call.len), memory \in BOOLEAN :
              LET lost == ~memory /\ call.sys \in {"open", "write"}
              IN /\ r0' = IF ~memory /\ call.sys \in {"open", "read", "write"} THEN -1
                          ELSE Result(call.sys, o.result, call.len)
                 /\ file' = IF lost THEN file ELSE o.file
                 /\ position' = IF lost THEN position ELSE o.position
                 /\ buffer' = IF call.sys = "read" /\ memory
                              THEN [i \in 1..Len(Data) |->
                                       IF i <= Len(o.bytes) THEN o.bytes[i]
                                       ELSE IF i <= call.len THEN Junk ELSE buffer[i]]
                              ELSE buffer
    /\ interrupted' = FALSE
    /\ call' = [call EXCEPT !.state = "answered"]
    /\ UNCHANGED <<build, programVars, mem_path>>

\* Answered by the probe, in either build.
OwnAnswer ==
    /\ call.sys \in Own /\ call.state = "asked"
    /\ r0' \in OwnResults(call.sys)
    /\ interrupted' = FALSE
    /\ call' = [call EXCEPT !.state = "answered"]
    /\ UNCHANGED <<build, programVars, mem_path, buffer, hostVars>>

\* A call that was interrupted stops the program; GDB lets it go on.
GdbContinues ==
    /\ interrupted /\ call.state = "answered"
    /\ interrupted' = FALSE
    /\ UNCHANGED <<build, programVars, call, mem_path, r0, buffer, hostVars>>

SemiNext ==
    \/ ProgramCalls \/ ProgramGoesOn
    \/ RequestFileIo \/ FileIoReply \/ FileIoMemory \/ HostedRequest \/ OwnAnswer \/ GdbContinues

SemiSpec == SemiInit /\ [][SemiNext]_semiVars

---------------------------------------------------------------------------
\* Between two calls the target's memory operations are its own.  Under the hosted
\* build, the program has then written exactly what it counts as written, the length it
\* was told is that of the file, and what it counts as read is what it wrote, in order
\* and without a byte left out, however the transfers were cut and whatever else it
\* called.
FilesExact ==
    call = NoCall =>
        /\ mem_path = "target"
        /\ build = "hosted" =>
              /\ file = SubSeq(Data, 1, done)
              /\ size # -1 => size = Len(file)
              /\ got = SubSeq(Data, 1, Len(got))
=============================================================================
