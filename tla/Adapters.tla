------------------------------ MODULE Adapters ------------------------------
(***************************************************************************)
(* The hosted build (platforms/hosted) reaches the target through an       *)
(* adaptor: another Black Magic Probe by the remote protocol (its side is  *)
(* src/remote.c), an ST-Link, a CMSIS-DAP adaptor or a J-Link.  Each       *)
(* driver cuts an access into the requests of its adaptor and turns the    *)
(* answers into data, a fault kept in the debug port, an exception, the    *)
(* end of the program - or nothing at all.  The adaptor and the target are *)
(* external: a request is answered, refused, or never answered.            *)
(***************************************************************************)
EXTENDS Naturals, Sequences

CONSTANTS Accesses,     \* the accesses made: [bytes, align, adaptor, name]
          MaxPieces,    \* bound: pieces of one access
          MaxTrouble    \* bound: requests the target refuses other than with "wait"

VARIABLES
    adaptor,     \* the adaptor of the session
    access,      \* the access in progress, or NoCall
    todo,        \* its requests still to be made, the current one first
    answer,      \* the answer to the current request, once there is one
    dpfault,     \* adiv5_debug_port_s.fault of the host
    probefault,  \* remote_dp.fault of the probe at the other end (src/remote.c)
    sticky,      \* the target's sticky error flag
    waited,      \* the current request was answered with "wait" before
    late,        \* the time limit of the current request has passed
    retried,     \* the current request was made again after a recovery
    got,         \* what the caller's buffer holds
    target, moved, result, answering,   \* see AccessContract
    troubles     \* how many it refused so far, other than with "wait"

adVars == <<adaptor, access, todo, answer, dpfault, probefault, sticky, waited, late,
            retried, got, target, moved, result, answering, troubles>>

Values == {"a", "b"}
Pieces == 1..MaxPieces
NoCall == [bytes |-> 0, align |-> 0, adaptor |-> "none", name |-> "none"]
Untouched == [p \in Pieces |-> "not yet"]
Troubles == {"wait", "fault", "no response", "garbled"}
Unseen == {"ok", "bus error"}      \* the outcomes that are acknowledged

RemoteProbes == {"remote_v0", "remote_v1", "remote_v3"}
StLinks == {"stlink_v2", "stlink_v3"}
CmsisDaps == {"dap_hid", "dap_bulk"}
Writes(a) == a.name \in {"dp_write", "raw_write", "ap_write", "mem_write"}
ToMemory(a) == a.name \in {"mem_read", "mem_write"}
ToAp(a) == a.name \notin {"dp_read", "dp_write"}
Raw(a) == a.name \in {"dp_read", "dp_write", "raw_read", "raw_write"}
Least(x, y) == IF x < y THEN x ELSE y
Most(x, y) == IF x < y THEN y ELSE x

(***************************************************************************)
(* How the drivers cut an access up.                                       *)
(***************************************************************************)
\* The bytes that fit one packet of each version of the remote protocol: it has 1024
\* characters, two for a byte, with two around an answer and 32 or 34 around a write.
remote_v0_blocksize(a) == IF Writes(a) THEN (1024 - 32) \div 2 ELSE (1024 - 2) \div 2
remote_v1_blocksize(a) == IF Writes(a) THEN (1024 - 34) \div 2 ELSE (1024 - 2) \div 2
remote_v3_blocksize(a) == IF Writes(a) THEN (1024 - 34) \div 2 ELSE (1024 - 2) \div 2
stlink_block_size(a) == IF a.adaptor = "stlink_v3" THEN 512 ELSE 64
dap_transfer_length(a) == ((65 - 4) \div 4) * 2^a.align

BlockSize(a) ==
    CASE a.adaptor = "remote_v0" -> remote_v0_blocksize(a)
      [] a.adaptor = "remote_v1" -> remote_v1_blocksize(a)
      [] a.adaptor = "remote_v3" -> remote_v3_blocksize(a)
      [] a.adaptor \in StLinks -> stlink_block_size(a)
      [] OTHER -> dap_transfer_length(a)
Size(a) ==
    IF ToMemory(a) THEN (a.bytes + BlockSize(a) - 1) \div BlockSize(a) ELSE 1
Amount(a, p) == Least(a.bytes - (p - 1) * BlockSize(a), BlockSize(a))

Requests(kind, n) == [p \in 1..n |-> [kind |-> kind, piece |-> p]]

remote_requests(a) == Requests("packet", Size(a))
\* stlink_mem_read turns a read of more than a block away with a warning.
stlink_requests(a) ==
    IF a.name = "mem_read" /\ a.bytes > stlink_block_size(a) THEN <<>> ELSE Requests("request", Size(a))
\* dap_mem_read and dap_mem_write: one transfer when a single one will do, else the
\* address set up (once per 1024 bytes, so once here), the blocks, and a read of
\* RDBUFF that waits for the last write.
dap_requests(a) ==
    CASE Raw(a) -> Requests("register", 1)
      [] ToMemory(a) /\ a.bytes # 2^a.align ->
            <<[kind |-> "setup", piece |-> 0]>> \o Requests("block", Size(a))
              \o (IF Writes(a) THEN <<[kind |-> "register", piece |-> 0]>> ELSE <<>>)
      [] ToMemory(a) /\ a.bytes = 2^a.align -> Requests("single", 1)
      [] OTHER -> Requests("transfer", 1)
\* jlink_adiv5_swdp_low_access: an access port is left alone after a fault.
jlink_requests(a) ==
    IF ToAp(a) /\ dpfault # "ok" THEN <<>>
    ELSE <<[kind |-> "setup", piece |-> 0], [kind |-> "data", piece |-> 1]>>

\* The blocks of a transfer the CMSIS-DAP driver asks for, against the ones it needs.
dap_read_blocks(n, align) == n \div 2^Least(align, 2)
dap_write_blocks(n, align) == n \div 2^Most(align, 2)
Whole(a, c) ==
    c.kind = "block" =>
        LET n == Amount(a, c.piece)
            blocks == IF Writes(a) THEN dap_write_blocks(n, a.align) ELSE dap_read_blocks(n, a.align)
        IN  blocks * 2^Least(a.align, 2) = n

AdInit ==
    /\ adaptor \in {a.adaptor : a \in Accesses}
    /\ access = NoCall /\ todo = <<>> /\ answer = "none"
    /\ dpfault = "ok" /\ probefault = "ok" /\ sticky = FALSE
    /\ waited = FALSE /\ late = FALSE /\ retried = FALSE
    /\ target \in [Pieces -> Values]
    /\ got = Untouched /\ moved = Untouched
    /\ result = [how |-> "none", data |-> Untouched]
    /\ answering = TRUE /\ troubles = 0

\* The caller makes an access; the driver works out its requests.
Call(a) ==
    /\ access = NoCall /\ result.how # "exit"
    /\ a.adaptor = adaptor
    /\ access' = a
    /\ todo' = CASE adaptor \in RemoteProbes -> remote_requests(a)
                 [] adaptor \in StLinks -> stlink_requests(a)
                 [] adaptor \in CmsisDaps -> dap_requests(a)
                 [] OTHER -> jlink_requests(a)
    /\ got' = Untouched /\ moved' = Untouched
    /\ result' = [how |-> "none", data |-> Untouched]
    /\ UNCHANGED <<adaptor, answer, dpfault, probefault, sticky, waited, late, retried,
                   target, answering, troubles>>

(***************************************************************************)
(* The adaptor and the target (external), and the probe's side of the      *)
(* remote protocol.                                                        *)
(***************************************************************************)
\* What the target makes of a request: it may be busy for as long as it likes and
\* refuse others, it refuses the access ports for as long as its sticky error is
\* set, and a register of the debug port itself never faults.  The adaptors tell of
\* an error on the bus behind an access port, and that of CMSIS-DAP answers a block
\* it cut short with a status other than OK.  A remote probe takes the sticky error
\* back and repeats (firmware_swdp_low_access), so that "fault" is one that outlasts
\* this and an error on the bus goes unnoticed; and it does not survive no response
\* to the accesses it would recover, for remote_dp has no error function: that is
\* part of Silence.
Remote == adaptor \in RemoteProbes
Recoverable(a) == a.name \in {"dp_read", "ap_read", "ap_write"}
Outcomes(a) ==
    IF sticky /\ ToAp(a) /\ ~Remote THEN {"fault"}
    ELSE {"ok", "wait"}
         \cup {s \in Troubles \cup {"bus error"} :
                 /\ troubles # MaxTrouble
                 /\ s = "fault" => ToAp(a)
                 /\ s = "bus error" => Remote /\ ~Raw(a)
                 /\ s = "no response" => ~(Remote /\ Recoverable(a))}

\* remote_packet_process_adiv5 refuses a write that is longer than its buffer or
\* whose length does not fit its alignment, and a low access leaves the access
\* ports alone while remote_dp.fault is set.
Misfit(a, c) ==
    /\ a.name = "mem_write"
    /\ Amount(a, c.piece) > 1024 \/ Amount(a, c.piece) % 2^a.align # 0
LeftAlone(a) == ToAp(a) /\ probefault # "ok"

\* firmware_swdp_low_access keeps what it was refused with; a wrong parity is kept,
\* an unknown acknowledge is not.
ProbeFaults(s) ==
    CASE s \in Unseen -> {probefault} [] s = "garbled" -> {probefault, s} [] OTHER -> {s}

\* jlink_adiv5_swdp_low_write leaves the command out of its request (cmd[0] is 0, not
\* CMD_HW_JTAG3): the data never reach the target, whatever the adaptor answers.
Lost(a, c) == a.adaptor = "jlink" /\ Writes(a) /\ c.kind = "data"

\* The accesses the contract is for.  J-Link has no accesses of its own to memory
\* or access ports.  Left out are those that drivers only log, or not even that: a
\* piece the remote probe finds a Misfit (495 bytes fill a packet of protocol 3, so
\* any further aligned write is one), a read too long for an ST-Link, and transfers
\* of CMSIS-DAP that do not cover their bytes (dap_write_blocks of narrow writes).
Adaptors == RemoteProbes \cup StLinks \cup CmsisDaps \cup {"jlink"}
Names == {"dp_read", "dp_write", "raw_read", "raw_write", "ap_read", "ap_write", "mem_read", "mem_write"}
Block(p) == [kind |-> "block", piece |-> p]

ASSUME AccessAssumption ==
    /\ MaxPieces \in Nat
    /\ \A a \in Accesses :
         /\ a.adaptor \in Adaptors /\ a.name \in Names /\ a.align \in 0..3
         /\ Size(a) \in Pieces
         /\ a.adaptor = "jlink" => Raw(a)
         /\ a.adaptor = "remote_v3" => \A p \in 1..Size(a) : ~Misfit(a, Block(p))
         /\ a.adaptor \in StLinks => stlink_requests(a) # <<>>
         /\ a.adaptor \in CmsisDaps => \A p \in 1..Size(a) : Whole(a, Block(p))

\* remote_adiv5_respond, with the exception frame of remote_packet_process around it.
remote_adiv5_respond(status, fault) ==
    CASE status = "garbled" -> "exception"
      [] status # "garbled" /\ fault # "ok" -> "fault"
      [] OTHER -> "ok"

\* The probe or the adaptor carries out the current request and answers it.
Execute ==
    /\ todo # <<>> /\ answer = "none"
    /\ LET c == Head(todo)
           misfit == Remote /\ Misfit(access, c)
           alone == Remote /\ LeftAlone(access)
           kept == misfit \/ alone \/ Lost(access, c)
       IN \E s \in Outcomes(access), v \in Values :
            /\ probefault' \in IF Remote /\ ~misfit /\ ~alone THEN ProbeFaults(s) ELSE {probefault}
            /\ answer' = CASE misfit -> "parameter"
                           [] Remote /\ ~misfit -> remote_adiv5_respond(IF alone THEN "ok" ELSE s, probefault')
                           [] OTHER -> s
            /\ sticky' \in IF kept THEN {sticky}
                           ELSE IF s = "bus error" THEN BOOLEAN
                           ELSE {s = "fault" \/ (sticky /\ ~(Remote /\ ToAp(access)))}
            /\ troubles' = IF misfit \/ alone \/ s \in {"ok", "wait"} \/ (sticky /\ ToAp(access) /\ ~Remote)
                           THEN troubles ELSE troubles + 1
            /\ IF c.piece = 0 \/ ~Whole(access, c) THEN UNCHANGED <<target, moved>>
               ELSE LET reached == ~kept /\ s \in Unseen
                    IN /\ target' = IF reached /\ Writes(access)
                                    THEN [target EXCEPT ![c.piece] = v] ELSE target
                       /\ moved' = [moved EXCEPT ![c.piece] =
                                      IF Lost(access, c) \/ (reached /\ s # "ok") THEN "spoilt"
                                      ELSE IF reached /\ answer' = "ok" THEN target'[c.piece]
                                      ELSE "turned away"]
            /\ Writes(access) \/ v = "a"     \* v only matters to a write
    /\ UNCHANGED <<adaptor, access, todo, dpfault, waited, late, retried, got, result, answering>>

\* What the host takes for the answer when none comes.  platform_buffer_read times
\* out, and from then on takes late answers for those of the next requests;
\* hid_read_timeout times out; the result of a bulk or USB transfer is not looked at
\* (dap_run_cmd compares it as an unsigned number), so that what the buffer happens to
\* hold passes for the answer.
platform_buffer_read == {"timeout"} \cup (IF answering THEN {} ELSE {"ok", "fault", "exception"})
dbg_dap_cmd_hid == {"timeout"}
dbg_dap_cmd_bulk == {"ok"} \cup Troubles
bmda_usb_transfer == {"ok"} \cup Troubles

\* The adaptor does not answer.
Silence ==
    /\ todo # <<>> /\ answer = "none"
    /\ answering' = FALSE
    /\ answer' \in CASE adaptor \in RemoteProbes -> platform_buffer_read
                     [] adaptor = "dap_hid" -> dbg_dap_cmd_hid
                     [] adaptor = "dap_bulk" -> dbg_dap_cmd_bulk
                     [] OTHER -> bmda_usb_transfer
    /\ UNCHANGED <<adaptor, access, todo, dpfault, probefault, sticky, waited, late, retried,
                   got, target, moved, result, troubles>>

\* The time limit of a request that is made again and again passes.
TimePasses ==
    /\ waited /\ ~late
    /\ adaptor \in StLinks \cup {"jlink"}
    /\ late' = TRUE
    /\ UNCHANGED <<adaptor, access, todo, answer, dpfault, probefault, sticky, waited, retried,
                   got, target, moved, result, answering, troubles>>

(***************************************************************************)
(* What the drivers make of an answer: go on with the next request, make   *)
(* the same one again (at once, or after a recovery), give the access up,  *)
(* raise an exception, or end the program; and the fault they keep.        *)
(***************************************************************************)
Go(what, fault) == [what |-> what, fault |-> fault]

\* remote_adiv5_check_error of each version, and the accesses that end at the first
\* packet it finds wrong.  Versions 0 and 1 only log what is wrong; version 3 keeps a
\* fault and raises an exception again.
remote_v0_verdict(x) == Go(IF x = "ok" THEN "next" ELSE "stop", dpfault)
remote_v1_verdict(x) == Go(IF x = "ok" THEN "next" ELSE "stop", dpfault)
remote_v3_faultless(x) ==
    Go(IF x = "ok" THEN "next" ELSE IF x = "exception" THEN "raise" ELSE "stop", dpfault)
remote_v3_verdict(x) ==
    CASE x = "ok" -> Go("next", dpfault)
      [] x = "fault" -> Go("stop", "fault")
      [] x = "exception" -> Go("raise", dpfault)
      [] OTHER -> Go("stop", dpfault)

\* The codes stlink_usb_error_check makes of the status byte.
stlink_usb_error_check(x) ==
    CASE x = "ok" -> "OK" [] x = "wait" -> "WAIT" [] x = "fault" -> "AP_FAULT"
      [] x = "no response" -> "FAIL" [] OTHER -> "raises"
\* stlink_send_recv_retry takes a fault after a wait for one more wait; the memory
\* accesses' stlink_read_retry and stlink_write_retry do not.
stlink_retry(res) == IF res = "AP_FAULT" /\ waited /\ ~ToMemory(access) THEN "WAIT" ELSE res
\* stlink_raw_access keeps a fault or raises; stlink_ap_read, stlink_ap_write and
\* stlink_mem_read go without the answer, stlink_mem_write goes on with its next block.
stlink_gives_up(res) ==
    CASE Raw(access) /\ res = "FAIL" -> Go("raise", dpfault)
      [] Raw(access) /\ res # "FAIL" -> Go("stop", IF res = "WAIT" THEN "wait" ELSE "fault")
      [] access.name = "mem_write" -> Go("next", dpfault)
      [] OTHER -> Go("stop", dpfault)
\* stlink_write_dp_register looks at the last status itself.  (A write of SELECT is
\* kept in the host and never sent: no access in the sense of this module.)
stlink_last(x) ==
    IF Raw(access) /\ Writes(access) THEN stlink_usb_error_check(x)
    ELSE stlink_retry(stlink_usb_error_check(x))
stlink_patient(x) ==
    LET res == stlink_retry(stlink_usb_error_check(x))
    IN  CASE res = "raises" -> Go("raise", dpfault)
          [] res = "OK" -> Go("next", dpfault)
          [] res = "WAIT" -> Go("again", dpfault)
          [] OTHER -> stlink_gives_up(stlink_last(x))
stlink_verdict(x) ==
    LET res == stlink_retry(stlink_usb_error_check(x))
    IN  CASE res = "raises" -> Go("raise", dpfault)
          [] res = "OK" -> Go("next", dpfault)
          [] res = "WAIT" /\ ~late -> Go("again", dpfault)
          [] OTHER -> stlink_gives_up(stlink_last(x))

\* perform_dap_transfer keeps the status as the fault; a bulk adaptor answers a read
\* it failed in fewer bytes than dap_run_cmd wants, and then the status is not looked at.
dap_fault(x) ==
    IF adaptor = "dap_bulk" /\ ~Writes(access) /\ Head(todo).kind # "setup" THEN dpfault ELSE x
\* dap_read_reg and dap_write_reg repeat for as long as the fault is "wait".
dap_register(x) == Go(IF dap_fault(x) = "wait" THEN "again" ELSE "stop", dap_fault(x))
perform_dap_transfer_recoverable(x, otherwise) ==
    IF dap_fault(x) = "no response" /\ ~retried THEN Go("recover", "ok") ELSE Go(otherwise, dap_fault(x))
\* Without an address dap_ap_mem_access_setup ends the program; the other accesses
\* end with the fault that was kept.
dap_verdict(x) ==
    IF x = "timeout" THEN Go("exit", dpfault)
    ELSE IF x = "ok" THEN Go("next", dpfault)
    ELSE CASE Head(todo).kind = "register" -> dap_register(x)
           [] Head(todo).kind = "single" -> perform_dap_transfer_recoverable(x, "stop")
           [] Head(todo).kind = "setup" -> perform_dap_transfer_recoverable(x, "exit")
           [] OTHER -> Go("stop", dap_fault(x))

\* jlink_adiv5_swdp_low_access, and the low read and write it ends with.  An abort
\* after the time limit that fails itself raises, as a garbled answer does.
jlink_verdict(x) ==
    IF x = "ok" THEN Go("next", dpfault)
    ELSE IF Head(todo).kind = "data" THEN Go("raise", IF Writes(access) THEN dpfault ELSE "fault")
    ELSE CASE x = "wait" /\ ~late -> Go("again", dpfault)
           [] x = "garbled" -> Go("raise", dpfault)
           [] OTHER -> Go("stop", x)

Verdict(x) ==
    CASE adaptor = "remote_v0" -> remote_v0_verdict(x)
      [] adaptor = "remote_v1" -> remote_v1_verdict(x)
      [] adaptor = "remote_v3" -> remote_v3_verdict(x)
      [] adaptor \in StLinks -> stlink_verdict(x)
      [] adaptor \in CmsisDaps -> dap_verdict(x)
      [] OTHER -> jlink_verdict(x)

\* The driver looks at the answer, and keeps the data, goes on or ends: the loops of
\* remote_v3_adiv5_mem_read_bytes, dap_mem_read, stlink_read_retry and
\* jlink_adiv5_swdp_low_access, and those like them, around the verdict.
Receive ==
    /\ answer # "none"
    /\ answer' = "none"
    /\ LET c == Head(todo)
           g == Verdict(answer)
           over == g.what \in {"raise", "exit"}
       IN /\ dpfault' = g.fault
          /\ todo' = CASE g.what = "next" -> Tail(todo)
                       [] g.what \in {"again", "recover"} -> todo
                       [] OTHER -> <<>>
          /\ waited' = (g.what = "again")
          /\ retried' = (g.what = "recover")
          /\ late' = (late /\ g.what = "again")
          /\ sticky' = (sticky /\ g.what # "recover")
          /\ \E v \in Values :
                /\ got' = IF answer = "ok" /\ c.piece # 0 /\ ~Writes(access)
                          THEN [got EXCEPT ![c.piece] = v] ELSE got
                /\ v = IF answering /\ c.piece # 0 /\ moved[c.piece] # "spoilt" THEN target[c.piece] ELSE v
          /\ access' = IF over THEN NoCall ELSE access
          /\ result' = IF over THEN [result EXCEPT !.how = IF g.what = "exit" THEN "exit" ELSE "exception"]
                               ELSE result
    /\ UNCHANGED <<adaptor, probefault, target, moved, answering, troubles>>

\* The access returns: the caller has its data, and the fault of the debug port.
Return ==
    /\ access # NoCall /\ todo = <<>>
    /\ access' = NoCall
    /\ result' = [how |-> IF dpfault = "ok" THEN "done" ELSE "fault",
                  data |-> IF Writes(access) THEN Untouched ELSE got]
    /\ UNCHANGED <<adaptor, todo, answer, dpfault, probefault, sticky, waited, late, retried,
                   got, target, moved, answering, troubles>>

\* The debug port's error function of each driver leaves the fault of the host and
\* the sticky error of the target cleared.  With a remote probe it is the
\* firmware_swdp_error of the host, made of SWD packets: remote_dp of the probe takes
\* no part in it.
Cleared == [fault |-> "ok", sticky |-> FALSE]
stlink_dp_error == Cleared
jlink_adiv5_swdp_error == Cleared
swd_clear_error == Cleared
firmware_swdp_error == Cleared

\* The caller recovers.
Recover ==
    /\ access = NoCall /\ result.how # "exit"
    /\ dpfault # "ok" \/ sticky
    /\ LET after == CASE adaptor \in StLinks -> stlink_dp_error
                      [] adaptor \in CmsisDaps -> swd_clear_error
                      [] adaptor = "jlink" -> jlink_adiv5_swdp_error
                      [] OTHER -> firmware_swdp_error
       IN  dpfault' = after.fault /\ sticky' = after.sticky
    /\ UNCHANGED <<adaptor, access, todo, answer, probefault, waited, late, retried, got,
                   target, moved, result, answering, troubles>>

AdNext ==
    \/ \E a \in Accesses : Call(a)
    \/ Execute \/ Silence \/ TimePasses \/ Receive \/ Return \/ Recover

\* The adaptor answers or is given up on, time passes, and the driver goes on.
AdSpec ==
    /\ AdInit /\ [][AdNext]_adVars
    /\ WF_adVars(Execute \/ Silence) /\ WF_adVars(TimePasses) /\ WF_adVars(Receive \/ Return)

(***************************************************************************)
(* Properties                                                              *)
(***************************************************************************)
\* The accesses whose refusal the drivers only log: all of the older remote
\* protocols, the access port and memory accesses of the ST-Link, and the reads of a
\* bulk CMSIS-DAP adaptor.
Quiet(a) ==
    \/ a.adaptor \in {"remote_v0", "remote_v1"}
    \/ a.adaptor \in StLinks /\ ~Raw(a)
    \/ a.adaptor = "dap_bulk" /\ ~Writes(a)

\* The accesses that can go wrong without the driver being told: those to access
\* ports and memory through a remote probe, and the writes of a J-Link.
Blind(a) ==
    \/ a.adaptor \in RemoteProbes /\ ~Raw(a)
    \/ a.adaptor = "jlink" /\ Writes(a)

Promised ==
    INSTANCE AccessContract WITH
        access <- [writes |-> access # NoCall /\ Writes(access),
                   quiet |-> access # NoCall /\ Quiet(access),
                   blind |-> access # NoCall /\ Blind(access),
                   size |-> IF access = NoCall THEN 0 ELSE Size(access)]

\* Whatever is refused and however the requests interleave with time limits, retries
\* and recoveries, every driver keeps the contract of an access: one that ends in
\* order moved every piece, and a read hands over exactly what the target held; what
\* was refused is a fault, an exception or the end of the program, except for the
\* accesses that are Quiet, and what went wrong unseen is that of a Blind access.
Contract == Promised!ContractSpec

\* Every access returns: the ST-Link and J-Link drivers give a target that only ever
\* answers "wait" up after a time limit and the remote probe has its own.  The
\* CMSIS-DAP driver repeats a register access for as long as the fault of the debug
\* port is "wait", and only for that long.
CallsReturn ==
    \/ access # NoCall ~> access = NoCall
    \/ adaptor \in CmsisDaps /\ <>[](dpfault = "wait")
=============================================================================
