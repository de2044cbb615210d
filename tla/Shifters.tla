----------------------------- MODULE Shifters -----------------------------
(***************************************************************************)
(* How the hosted build shifts bits: the operations of jtag_proc and       *)
(* swd_proc over an FTDI chip, a CMSIS-DAP adaptor, a J-Link, and the      *)
(* packets of the remote protocol to another probe.  Each of them cuts a   *)
(* sequence into the commands of its adaptor, and puts the answers         *)
(* together again.                                                         *)
(*                                                                         *)
(* Data is a sequence of bits, the first one shifted first.  The adaptor   *)
(* is external: it clocks the bits of a command, and answers in bytes, the *)
(* bits at their low or at their high end.                                 *)
(***************************************************************************)
EXTENDS Naturals, Sequences, SequencesExt, FiniteSetsExt

CONSTANTS Jobs      \* operations to be performed, each with what TDO or SWDIO carries

VARIABLES
    job,            \* the operation that was performed, or NoJob
    clocked,        \* what the adaptor clocked for it
    captured,       \* what it returns, with a parity error as the last
    ftdi_dir,       \* olddir of libftdi_swdptap.c: which way SWDIO is
    dir_before      \* which way it was before the operation

shiftVars == <<job, clocked, captured, ftdi_dir, dir_before>>

NoJob == [tap |-> "none"]
Lows(n) == [i \in 1..n |-> 0]
Highs(n) == [i \in 1..n |-> 1]
Parity(bits) == Cardinality({i \in DOMAIN bits : bits[i] = 1}) % 2
Part(bits, from, n) == SubSeq(bits, from + 1, from + n)
\* A byte shifted down by s bits.
Down(byte, s) == [i \in 1..8 |-> IF i + s <= 8 THEN byte[i + s] ELSE 0]
BytesFor(n) == (n + 7) \div 8

---------------------------------------------------------------------------
(* The adaptor. *)

\* TMS and TDI of each clock, and at which end of its bytes the answer is.
Command(tms, tdi, read) == [tms |-> tms, tdi |-> tdi, read |-> read]
TmsOf(clocks) == [i \in DOMAIN clocks |-> clocks[i][1]]
TdiOf(clocks) == [i \in DOMAIN clocks |-> clocks[i][2]]
Clocks(commands) == FlattenSeq([c \in DOMAIN commands |->
    [i \in DOMAIN commands[c].tms |-> <<commands[c].tms[i], commands[c].tdi[i]>>]])
Returned(command, tdo) ==
    CASE command.read = "none" -> <<>>
      [] command.read = "high" -> Lows(8 - Len(tdo)) \o tdo
      [] OTHER -> tdo \o Lows(8 * BytesFor(Len(tdo)) - Len(tdo))
ReturnedBy(commands, tdo) ==
    LET before(c) == Len(Clocks(SubSeq(commands, 1, c - 1)))
    IN  FlattenSeq([c \in DOMAIN commands |-> Returned(commands[c], Part(tdo, before(c), Len(commands[c].tms)))])

---------------------------------------------------------------------------
(* jtagtap_tdi_tdo_seq: data in, the last clock with TMS high if final. *)

If(condition, commands) == IF condition THEN commands ELSE <<>>
One(condition) == IF condition THEN 1 ELSE 0
LastHigh(n, final) == [i \in 1..n |-> One(final /\ i = n)]

\* ftdi_jtag_tdi_tdo_seq: whole bytes, what is left of the last, and the bit that goes with TMS.
ftdi_bytes(n, final) == (n - One(final)) \div 8
ftdi_bits_short(n, final) == n % 8      \* mutant: the last byte is forgotten when it is a whole one
ftdi_bits(n, final) == IF n % 8 = 0 /\ final THEN 8 ELSE n % 8
ftdi_commands(data, n, final, read) ==
    LET whole == 8 * ftdi_bytes(n, final)
        left == ftdi_bits(n, final) - One(final)
        at == IF read THEN "high" ELSE "none"
    IN  If(whole > 0, <<Command(Lows(whole), Part(data, 0, whole), IF read THEN "low" ELSE "none")>>)
        \o If(left > 0, <<Command(Lows(left), Part(data, whole, left), at)>>)
        \o If(final, <<Command(<<1>>, <<data[n]>>, at)>>)
ftdi_data_out(answers, n, final) ==
    LET whole == 8 * ftdi_bytes(n, final)
        bits == ftdi_bits(n, final)
        residual == If(bits > 0, Down(Part(answers, whole, 8), 8 - (bits - One(final))))
        out == Part(answers, 0, whole) \o residual
    IN  IF final THEN [out EXCEPT ![n] = Max({@, answers[Len(answers)]})] ELSE out

\* perform_dap_jtag_sequence: one sequence with TMS low, and one of the last bit, which
\* always captures.  What it captures replaces the last byte.
dap_sequences(n, final) == IF final /\ n > 1 THEN 2 ELSE 1
dap_commands(data, n, final, read) ==
    LET cycles == n - (dap_sequences(n, final) - 1)
    IN  <<Command([i \in 1..cycles |-> One(final /\ n = 1)], Part(data, 0, cycles), IF read THEN "low" ELSE "none")>>
        \o If(dap_sequences(n, final) = 2, <<Command(<<1>>, <<data[n]>>, "low")>>)
dap_data_out(answers, n, final) ==
    LET cycles == n - (dap_sequences(n, final) - 1)
        first == Part(answers, 0, 8 * BytesFor(cycles))
        final_byte == cycles \div 8
        last == [i \in 1..8 |-> IF i = (cycles % 8) + 1 THEN answers[Len(first) + 1] ELSE 0]
    IN  IF dap_sequences(n, final) = 1 THEN first ELSE Part(first, 0, 8 * final_byte) \o last

\* jtagtap_tdi_tdo_seq of jlink_jtagtap.c: the bytes of TMS, and those of TDI.
jlink_commands(data, n, final, read) == <<Command(LastHigh(n, final), data, "low")>>
jlink_data_out(answers, n, final) == answers

\* remote_v0_jtag_tdi_tdo_seq: packets of up to 32 cycles; remote_packet_process_jtag has
\* them shifted by the taps of the probe, and answers with a number.
remote_packets(n) == (n + 31) \div 32
remote_packet_length(n, k) == Min({n - 32 * (k - 1), 32})
remote_packet_process_jtag(data, final) == Command(LastHigh(Len(data), final), data, "low")
remote_commands(data, n, final, read) ==
    [k \in 1..remote_packets(n) |->
        remote_packet_process_jtag(Part(data, 32 * (k - 1), remote_packet_length(n, k)),
                                   final /\ k = remote_packets(n))]
remote_data_out(answers, n, final) == answers

---------------------------------------------------------------------------
(* jtagtap_tms_seq, and jtagtap_next. *)

\* ftdi_jtag_tms_seq: seven cycles at a time.
ftdi_tms(states, n) ==
    [k \in 1..((n + 6) \div 7) |->
        LET these == Part(states, 7 * (k - 1), Min({7, n - 7 * (k - 1)}))
        IN  Command(these, Highs(Len(these)), "none")]
\* dap_jtag_tms_seq: a SWJ sequence; TDI is the adaptor's.
dap_tms(states, n) == <<Command(states, Lows(n), "none")>>
\* jtagtap_tms_seq of jlink_jtagtap.c: TDI is the same.
jlink_tms(states, n) == <<Command(states, states, "low")>>
\* remote_v0_jtag_tms_seq: as many digits as it takes, of which the probe reads two.
remote_tms(states, n) ==
    LET digits == Max({(i + 3) \div 4 : i \in {j \in 1..n : states[j] = 1}} \cup {1})
        beyond == 4 * Max({digits - 2, 0})
    IN  <<Command([i \in 1..n |-> IF i + beyond <= n THEN states[i + beyond] ELSE 0], Highs(n), "none")>>

ftdi_next(tms, tdi) == Command(<<tms>>, <<tdi>>, "high")
ftdi_tdo(byte) == byte[8]
dap_next(tms, tdi) == dap_commands(<<tdi>>, 1, tms = 1, TRUE)[1]
dap_tdo(byte) == byte[1]
jlink_next(tms, tdi) == Command(<<tms>>, <<tdi>>, "low")
jlink_tdo(byte) == byte[1]
remote_next(tms, tdi) == Command(<<tms>>, <<tdi>>, "low")
remote_tdo(byte) == byte[1]

---------------------------------------------------------------------------
(* swd_proc.  A clock of SWD carries a bit out or in, or turns the line round. *)

Out(bits) == [i \in DOMAIN bits |-> <<"out", bits[i]>>]
In(bits) == [i \in DOMAIN bits |-> <<"in", bits[i]>>]

\* ftdi_swd_turnaround: with the level of SWDIO switched before or after it.
ftdi_swd_turnaround(dir) == IF dir = ftdi_dir THEN <<>> ELSE <<<<"turn", 0>>>>

\* The MPSSE shifts SWDIO as it does TDI; the parity is put in a byte of its own, and eight
\* idle cycles follow.
ftdi_swd_seq_out(bits, n) == TdiOf(Clocks(ftdi_commands(bits, n, FALSE, FALSE)))
ftdi_swd_seq_out_parity(bits, n) ==
    LET all == [i \in 1..(n + 9) |->
                    IF (i - 1) \div 8 = n \div 8 THEN One(i = n + 1) * Parity(bits)
                    ELSE IF i <= n THEN bits[i] ELSE 0]
    IN  ftdi_swd_seq_out(all, n + 9)
ftdi_swd_seq_in(line, n) ==
    Part(ftdi_data_out(ReturnedBy(ftdi_commands(Lows(n), n, FALSE, TRUE), line), n, FALSE), 0, n)
ftdi_swd_seq_in_parity(line, n) ==
    LET all == ftdi_swd_seq_in(line, n + 1)
    IN  Append(Part(all, 0, n), (Parity(Part(all, 0, n)) + all[33]) % 2)

\* Bit-banged: SWDIO is sampled before every clock, and written with TMS.
ftdi_swd_seq_in_raw(line, n) == Part(line, 0, n)
ftdi_swd_seq_in_parity_raw(line, n) ==
    Append(Part(line, 0, n), (Parity(Part(line, 0, n)) + line[n + 1]) % 2)
\* Every command gets the low seven bits, as tms_states is not shifted.
ftdi_swd_seq_out_raw(bits, n) == [i \in 1..n |-> bits[((i - 1) % 7) + 1]]
\* The command of the parity is made one of seven cycles, and the idle ones follow.
ftdi_swd_seq_out_parity_raw(bits, n) ==
    LET block == 7 * (n \div 7)
        last == [i \in 1..7 |-> Max({bits[i] * One(n % 7 > 0), Parity(bits) * One(i = (n % 7) + 1)})]
    IN  ftdi_swd_seq_out_raw(bits, block) \o If(n % 7 > 0, last) \o Lows((n % 7) + 2)

\* DAP_SWD_SEQUENCE: whole bytes, with the parity in the fifth.
perform_dap_swd_sequences(line, n) == Returned(Command(Lows(n), Lows(n), "low"), Part(line, 0, n))
dap_swd_seq_out(bits, n) == bits
dap_swd_seq_out_parity(bits, n) ==
    [i \in 1..(n + 1) |-> IF i = 33 THEN Parity(bits) ELSE IF i <= n THEN bits[i] ELSE 0]
dap_swd_seq_in(line, n) == Part(perform_dap_swd_sequences(line, n), 0, n)
dap_swd_seq_in_parity(line, n) ==
    LET all == perform_dap_swd_sequences(line, n + 1)
    IN  Append(Part(all, 0, n), 1 - ((Parity(Part(all, 0, n)) + all[33]) % 2))

\* The packets of the remote protocol, performed by the probe's own swd_proc.
remote_packet_process_swd(packet, bits, n) ==
    CASE packet = "So" -> bits
      [] packet = "SO" -> Append(bits, Parity(bits))
      [] packet = "Si" -> Part(bits, 0, n)
      [] packet = "SI" -> Append(Part(bits, 0, n), (Parity(Part(bits, 0, n)) + bits[n + 1]) % 2)
remote_swd_seq_out(bits, n) == remote_packet_process_swd("So", bits, n)
remote_swd_seq_out_parity(bits, n) == remote_packet_process_swd("SO", bits, n)
remote_swd_seq_in(line, n) == remote_packet_process_swd("Si", line, n)
remote_swd_seq_in_parity(line, n) == remote_packet_process_swd("SI", line, n)

---------------------------------------------------------------------------
(* What selects JTAG or SWD, and what resets the line, on TMS or SWDIO. *)

Byte(value) == [i \in 1..8 |-> (value \div 2^(i - 1)) % 2]
JtagCode == Byte(60) \o Byte(231)          \* 0xe73c
SwdCode == Byte(158) \o Byte(231)          \* 0xe79e

ftdi_jtag_init == Highs(51) \o TmsOf(Clocks(ftdi_tms(JtagCode, 16)))
jlink_jtagtap_init == Highs(56) \o JtagCode
jlink_swdp_scan == Highs(56) \o SwdCode \o Highs(48) \o Lows(16)
jlink_line_reset == Lows(40) \o Highs(56) \o Lows(8) \o Byte(165)
dap_reset_link(mode) ==
    IF mode = "jtag" THEN Highs(64) \o JtagCode \o Part(Byte(31), 0, 6)
    ELSE Highs(64) \o SwdCode \o Highs(56) \o Lows(8)
dap_line_reset == Highs(60) \o Lows(4)

---------------------------------------------------------------------------
(* Performing one. *)

Commands(tap, data, n, final, read) ==
    CASE tap = "ftdi" -> ftdi_commands(data, n, final, read)
      [] tap = "dap" -> dap_commands(data, n, final, read)
      [] tap = "jlink" -> jlink_commands(data, n, final, read)
      [] OTHER -> remote_commands(data, n, final, read)
DataOut(tap, answers, n, final) ==
    CASE tap = "ftdi" -> ftdi_data_out(answers, n, final)
      [] tap = "dap" -> dap_data_out(answers, n, final)
      [] tap = "jlink" -> jlink_data_out(answers, n, final)
      [] OTHER -> remote_data_out(answers, n, final)
TmsCommands(tap, states, n) ==
    CASE tap = "ftdi" -> ftdi_tms(states, n)
      [] tap = "dap" -> dap_tms(states, n)
      [] tap = "jlink" -> jlink_tms(states, n)
      [] OTHER -> remote_tms(states, n)
NextCommand(tap, tms, tdi) ==
    CASE tap = "ftdi" -> ftdi_next(tms, tdi)
      [] tap = "dap" -> dap_next(tms, tdi)
      [] tap = "jlink" -> jlink_next(tms, tdi)
      [] OTHER -> remote_next(tms, tdi)
Tdo(tap, byte) ==
    CASE tap = "ftdi" -> ftdi_tdo(byte)
      [] tap = "dap" -> dap_tdo(byte)
      [] tap = "jlink" -> jlink_tdo(byte)
      [] OTHER -> remote_tdo(byte)

Perform(j, clocks, returns) ==
    /\ job' = j /\ clocked' = clocks /\ captured' = returns

TdiTdo(j) ==
    /\ j.op = "tdi_tdo"
    /\ LET commands == Commands(j.tap, j.data, j.n, j.final, j.read)
       IN  Perform(j, Clocks(commands),
                   IF j.read THEN Part(DataOut(j.tap, ReturnedBy(commands, j.line), j.n, j.final), 0, j.n) ELSE <<>>)
    /\ UNCHANGED <<ftdi_dir, dir_before>>
Tms(j) ==
    /\ j.op = "tms"
    /\ Perform(j, Clocks(TmsCommands(j.tap, j.data, j.n)), <<>>)
    /\ UNCHANGED <<ftdi_dir, dir_before>>
NextState(j) ==
    /\ j.op = "next"
    /\ LET command == NextCommand(j.tap, One(j.final), j.data[1])
       IN  Perform(j, Clocks(<<command>>), <<Tdo(j.tap, Returned(command, j.line))>>)
    /\ UNCHANGED <<ftdi_dir, dir_before>>

\* The FTDI taps turn the line round themselves; a DAP adaptor is told the direction with
\* every sequence, and the probe at the other end of the remote protocol does it.
Turned(tap, direction) == IF tap \in {"ftdi", "ftdi_raw"} THEN ftdi_swd_turnaround(direction) ELSE <<>>
Turns(tap, direction) ==
    /\ ftdi_dir' = IF tap \in {"ftdi", "ftdi_raw"} THEN direction ELSE ftdi_dir
    /\ dir_before' = ftdi_dir
SwdOut(j) ==
    /\ j.op = "out"
    /\ LET bits == CASE j.tap = "ftdi" -> ftdi_swd_seq_out(j.data, j.n)
                     [] j.tap = "ftdi_raw" -> ftdi_swd_seq_out_raw(j.data, j.n)
                     [] j.tap = "dap" -> dap_swd_seq_out(j.data, j.n)
                     [] OTHER -> remote_swd_seq_out(j.data, j.n)
       IN  Perform(j, Turned(j.tap, "drive") \o Out(bits), <<>>)
    /\ Turns(j.tap, "drive")
SwdOutParity(j) ==
    /\ j.op = "out_parity"
    /\ LET bits == CASE j.tap = "ftdi" -> ftdi_swd_seq_out_parity(j.data, j.n)
                     [] j.tap = "ftdi_raw" -> ftdi_swd_seq_out_parity_raw(j.data, j.n)
                     [] j.tap = "dap" -> dap_swd_seq_out_parity(j.data, j.n)
                     [] OTHER -> remote_swd_seq_out_parity(j.data, j.n)
       IN  Perform(j, Turned(j.tap, "drive") \o Out(bits), <<>>)
    /\ Turns(j.tap, "drive")
SwdIn(j) ==
    /\ j.op = "in"
    /\ Perform(j, Turned(j.tap, "float") \o In(Lows(j.n)),
               CASE j.tap = "ftdi" -> ftdi_swd_seq_in(j.line, j.n)
                 [] j.tap = "ftdi_raw" -> ftdi_swd_seq_in_raw(j.line, j.n)
                 [] j.tap = "dap" -> dap_swd_seq_in(j.line, j.n)
                 [] OTHER -> remote_swd_seq_in(j.line, j.n))
    /\ Turns(j.tap, "float")
SwdInParity(j) ==
    /\ j.op = "in_parity"
    /\ Perform(j, Turned(j.tap, "float") \o In(Lows(j.n + 1)),
               CASE j.tap = "ftdi" -> ftdi_swd_seq_in_parity(j.line, j.n)
                 [] j.tap = "ftdi_raw" -> ftdi_swd_seq_in_parity_raw(j.line, j.n)
                 [] j.tap = "dap" -> dap_swd_seq_in_parity(j.line, j.n)
                 [] OTHER -> remote_swd_seq_in_parity(j.line, j.n))
    /\ Turns(j.tap, "float")

StartLink(j) ==
    /\ j.op = "start"
    /\ LET bits == CASE j.tap = "ftdi" -> ftdi_jtag_init
                     [] j.tap = "dap" -> IF j.mode = "reset" THEN dap_line_reset ELSE dap_reset_link(j.mode)
                     [] j.mode = "jtag" -> jlink_jtagtap_init
                     [] j.mode = "swd" -> jlink_swdp_scan
                     [] OTHER -> jlink_line_reset
       IN  Perform(j, Out(bits), <<>>)
    /\ UNCHANGED <<ftdi_dir, dir_before>>

JobDone ==
    /\ job # NoJob
    /\ job' = NoJob /\ clocked' = <<>> /\ captured' = <<>> /\ dir_before' = ftdi_dir
    /\ UNCHANGED ftdi_dir

ShiftInit == job = NoJob /\ clocked = <<>> /\ captured = <<>> /\ ftdi_dir = "float" /\ dir_before = "float"

ShiftNext ==
    \/ job = NoJob /\ \E j \in Jobs :
           \/ TdiTdo(j) \/ Tms(j) \/ NextState(j) \/ StartLink(j)
           \/ SwdOut(j) \/ SwdOutParity(j) \/ SwdIn(j) \/ SwdInParity(j)
    \/ JobDone

ShiftSpec == ShiftInit /\ [][ShiftNext]_shiftVars

---------------------------------------------------------------------------
Carried(direction) == SelectSeq(clocked, LAMBDA c : c[1] = direction)

\* Fifty clocks with the line high, then the code; a line reset ends with idle clocks.
HighBefore(bits, k) == k >= 50 /\ \A i \in (k - 49)..k : bits[i] = 1
Resets(bits, k) == HighBefore(bits, k) /\ k + 2 <= Len(bits) /\ bits[k + 1] = 0 /\ bits[k + 2] = 0
Selects(bits, mode) ==
    LET coded(code) == {k \in 0..(Len(bits) - 16) : HighBefore(bits, k) /\ Part(bits, k, 16) = code}
    IN  CASE mode = "jtag" -> coded(JtagCode) # {}
          [] mode = "swd" -> \E k \in coded(SwdCode) : \E l \in (k + 16)..Len(bits) : Resets(bits, l)
          [] OTHER -> \E l \in 1..Len(bits) : Resets(bits, l)

\* Whatever adaptor is used, and however it cuts the sequence: the target sees the bits
\* of the caller, each once and in order, TMS high with the last one if that was asked
\* for, and with the parity that belongs to them ("Shift out a sequence on MS and DI,
\* capture data to DO", jtagtap.h); the caller gets the bits of the target, and hears of
\* a wrong parity.  SWDIO is turned round when its direction changes, and
\* only then.  What starts a link puts the port in the mode it is meant to.
ShiftExact ==
    job # NoJob =>
        /\ job.op \in {"out", "out_parity", "in", "in_parity"} => Len(Carried("turn")) = One(ftdi_dir # dir_before)
        /\ CASE job.op = "tdi_tdo" ->
                  /\ clocked = [i \in 1..job.n |-> <<One(job.final /\ i = job.n), job.data[i]>>]
                  /\ job.read => captured = job.line
             [] job.op = "tms" -> TmsOf(clocked) = job.data
             [] job.op = "next" -> clocked = <<<<One(job.final), job.data[1]>>>> /\ captured = job.line
             [] job.op = "out" -> TdiOf(Carried("out")) = job.data
             [] job.op = "out_parity" ->
                  /\ Part(TdiOf(Carried("out")), 0, job.n + 1) = Append(job.data, Parity(job.data))
                  /\ \A i \in (job.n + 2)..Len(Carried("out")) : TdiOf(Carried("out"))[i] = 0
             [] job.op = "in" -> captured = job.line
             [] job.op = "start" -> Selects(TdiOf(clocked), job.mode)
             [] OTHER -> captured = Append(Part(job.line, 0, job.n), Parity(job.line))
=============================================================================
