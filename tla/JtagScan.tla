------------------------------ MODULE JtagScan ------------------------------
(***************************************************************************)
(* The JTAG scan chain (jtag_scan.c): how the scan learns the chain's      *)
(* devices and the lengths of their instruction registers, and how         *)
(* jtag_dev_write_ir and jtag_dev_shift_dr then reach one device through   *)
(* all the others.  The chain is external: devices in the order in which   *)
(* their bits arrive, each with an instruction register that captures a    *)
(* fixed value, a one-bit bypass register that all ones in the instruction *)
(* register select, and a data register that anything else selects.        *)
(* Registers are sequences of bits, the bit next to TDO first.             *)
(***************************************************************************)
EXTENDS Integers, Sequences, SequencesExt

CONSTANTS
    Chains,      \* the chains that may be connected
    Given,       \* the lists of lengths a user may give with jtag_scan, <<>> for none
    MaxDevs,     \* JTAG_MAX_DEVS
    MaxIrLen,    \* JTAG_MAX_IR_LEN
    DrBits       \* the width of an access to the data register

ASSUME JtagAssumption ==
    /\ MaxDevs \in Nat /\ MaxIrLen \in Nat /\ DrBits \in Nat \ {0}
    /\ \A c \in Chains : \A i \in DOMAIN c : Len(c[i].capture) > 1 /\ Len(c[i].quirk) \in {0, Len(c[i].capture)}

VARIABLES
    jpc,        \* the next stage of the scan, or "ready", or "failed"
    chain,      \* what is connected: capture value, expected one, contents ir and dr
    tap,        \* the state of every TAP controller
    jtag_devs,  \* what the scan learned of each device
    jtag_dev_count,
    given,      \* ir_lengths, the lengths the user gave
    walk,       \* jtag_read_irs: the bits seen of all IRs, device, ir_len
    last        \* the last access: its device, what went in and what came out

jtagVars == <<jpc, chain, tap, jtag_devs, jtag_dev_count, given, walk, last>>

Ones(n) == [i \in 1..n |-> 1]
NoIr == <<>>            \* UINT32_MAX in current_ir
Blank == [ir_len |-> 0, ir_prescan |-> 0, ir_postscan |-> 0,
          dr_prescan |-> 0, dr_postscan |-> 0, current_ir |-> NoIr]
NoAccess == [dev |-> 0, ir |-> <<>>, in |-> <<>>, out |-> <<>>, held |-> <<>>]
Content(i) == [b \in 1..DrBits |-> (i + b) % 2]

JtagInit ==
    /\ jpc = "start"
    /\ \E c \in Chains : chain = [i \in DOMAIN c |-> c[i] @@ [ir |-> c[i].capture, dr |-> Content(i)]]
    /\ tap \in {"Idle", "ShiftDR", "ShiftIR", "Reset"}
    /\ jtag_devs = [d \in 1..MaxDevs |-> Blank] /\ jtag_dev_count = 0
    /\ given \in Given
    /\ walk = [seen |-> 0, device |-> 1, len |-> 0, prescan |-> 0]
    /\ last = NoAccess

---------------------------------------------------------------------------
(* The TAP controllers and the registers they shift.                       *)

TapStep(s, tms) ==
    LET go == [Reset |-> <<"Idle", "Reset">>, Idle |-> <<"Idle", "SelectDR">>,
               SelectDR |-> <<"CaptureDR", "SelectIR">>, CaptureDR |-> <<"ShiftDR", "Exit1DR">>,
               ShiftDR |-> <<"ShiftDR", "Exit1DR">>, Exit1DR |-> <<"PauseDR", "UpdateDR">>,
               PauseDR |-> <<"PauseDR", "Exit2DR">>, Exit2DR |-> <<"ShiftDR", "UpdateDR">>,
               UpdateDR |-> <<"Idle", "SelectDR">>,
               SelectIR |-> <<"CaptureIR", "Reset">>, CaptureIR |-> <<"ShiftIR", "Exit1IR">>,
               ShiftIR |-> <<"ShiftIR", "Exit1IR">>, Exit1IR |-> <<"PauseIR", "UpdateIR">>,
               PauseIR |-> <<"PauseIR", "Exit2IR">>, Exit2IR |-> <<"ShiftIR", "UpdateIR">>,
               UpdateIR |-> <<"Idle", "SelectDR">>]
    IN go[s][tms + 1]

tms_seq(s, bits) == FoldLeft(TapStep, s, bits)

soft_reset == <<1, 1, 1, 1, 1, 0>>
shift_ir == <<1, 1, 0, 0>>
shift_dr == <<1, 0, 0>>
return_idle == <<1, 0>>
\* n bits shifted, TMS set with the last of them: jtagtap_tdi_seq with final_tms.
Final(n) == [i \in 1..n |-> IF i = n THEN 1 ELSE 0]

Bypassed(dev) == dev.ir = Ones(Len(dev.ir))
Flat(f(_)) == FlattenSeq([i \in DOMAIN chain |-> f(i)])

\* Shifting bits into a row of registers that hold the bits old.
Shifted(old, bits) == LET all == old \o bits IN SubSeq(all, Len(all) - Len(old) + 1, Len(all))
Total(lengths) == FoldLeft(+, 0, lengths)
Slice(bits, widths, i) ==
    LET before == Total(SubSeq(widths, 1, i - 1)) IN SubSeq(bits, before + 1, before + widths[i])

IrWidths == [i \in DOMAIN chain |-> Len(chain[i].capture)]
Captured == Flat(LAMBDA i : chain[i].capture)
WithIr(bits) ==
    LET row == Shifted(Captured, bits)
    IN [i \in DOMAIN chain |-> [chain[i] EXCEPT !.ir = Slice(row, IrWidths, i)]]

DrRow(devs) == FlattenSeq([i \in DOMAIN devs |-> IF Bypassed(devs[i]) THEN <<0>> ELSE devs[i].dr])
WithDr(devs, bits) ==
    LET widths == [i \in DOMAIN devs |-> IF Bypassed(devs[i]) THEN 1 ELSE DrBits]
        row == Shifted(DrRow(devs), bits)
    IN [i \in DOMAIN devs |-> IF Bypassed(devs[i]) THEN devs[i]
                              ELSE [devs[i] EXCEPT !.dr = Slice(row, widths, i)]]

---------------------------------------------------------------------------
(* jtag_scan.                                                              *)

Fails ==
    /\ jpc' = "failed" /\ jtag_dev_count' = 0
    /\ UNCHANGED <<given, walk, last>>

\* jtag_read_idcodes, which resets the chain first: a device is counted for
\* each ID code until the ones that were shifted in come back.
ReadIdcodes ==
    /\ jpc = "start"
    /\ chain' = chain
    /\ \/ /\ Len(chain) > MaxDevs
          /\ tap' = tms_seq(tap, soft_reset \o shift_dr)
          /\ Fails /\ UNCHANGED jtag_devs
       \/ /\ Len(chain) <= MaxDevs
          /\ jtag_dev_count' = Len(chain)
          /\ tap' = tms_seq(tap, soft_reset \o shift_dr \o <<1>> \o return_idle)
          /\ jpc' = IF given = <<>> THEN "irs" ELSE "lengths"
          /\ UNCHANGED <<jtag_devs, given, walk, last>>

\* jtag_read_irs: one bit of the row of instruction registers.
IrBit(n) == IF n <= Len(Captured) THEN Captured[n] ELSE 1
Quirk == walk.device <= Len(chain) /\ chain[walk.device].quirk # <<>>

Learned(device, len) ==
    [jtag_devs EXCEPT ![device].ir_len = IF Quirk THEN len ELSE len - 1,
                      ![device].ir_prescan = walk.prescan]

TooLong(len) == len > MaxIrLen

ReadIrBit ==
    /\ jpc = "irs"
    /\ LET bit == IrBit(walk.seen + 1)
           len == walk.len + 1
           ends == IF Quirk THEN len = Len(chain[walk.device].quirk) ELSE bit = 1 /\ len > 1
       IN \/ /\ Quirk /\ bit # chain[walk.device].quirk[len]
             /\ Fails /\ UNCHANGED jtag_devs
          \/ /\ ends /\ ~Quirk /\ len = 2        \* two ones in a row: the end of the chain
             /\ jpc' = "sanity"
             /\ UNCHANGED <<jtag_devs, jtag_dev_count, given, walk, last>>
          \/ /\ ends /\ (Quirk \/ len # 2)
             /\ jtag_devs' = Learned(walk.device, len)
             /\ walk' = [seen |-> walk.seen + 1, device |-> walk.device + 1,
                         len |-> IF Quirk THEN 0 ELSE 1,
                         prescan |-> walk.prescan + jtag_devs'[walk.device].ir_len]
             /\ UNCHANGED <<jpc, jtag_dev_count, given, last>>
          \/ /\ ~ends /\ ~TooLong(len)
             /\ walk' = [walk EXCEPT !.seen = @ + 1, !.len = len]
             /\ UNCHANGED <<jpc, jtag_devs, jtag_dev_count, given, last>>
          \/ /\ ~ends /\ TooLong(len)
             /\ Fails /\ UNCHANGED jtag_devs
    /\ chain' = WithIr(Ones(walk.seen + 1))
    /\ tap' = LET s == IF walk.seen = 0 THEN tms_seq(tap, shift_ir) ELSE tap
              IN IF jpc' = "sanity" THEN tms_seq(s, <<0, 1>> \o return_idle) ELSE tms_seq(s, <<0>>)

\* jtag_validate_irs: the lengths are given.  As many ones as they say are
\* shifted in, one length at a time until one is refused; the bits that come out
\* are not compared with anything.
Refused(length) == length = 0 \/ length > MaxIrLen

Told(lengths) ==
    [d \in 1..MaxDevs |->
        IF d \notin DOMAIN lengths THEN jtag_devs[d]
        ELSE [jtag_devs[d] EXCEPT !.ir_len = lengths[d],
                                  !.ir_prescan = Total(SubSeq(lengths, 1, d - 1))]]

ValidateIrs ==
    /\ jpc = "lengths"
    /\ \/ /\ Len(given) # jtag_dev_count
          /\ Fails
          /\ UNCHANGED <<chain, tap, jtag_devs>>
       \/ /\ Len(given) = jtag_dev_count
          /\ \E d \in DOMAIN given :
                /\ Refused(given[d]) /\ \A x \in 1..(d - 1) : ~Refused(given[x])
                /\ jtag_devs' = Told(SubSeq(given, 1, d - 1))
                /\ chain' = WithIr(Ones(Total(SubSeq(given, 1, d - 1))))
          /\ tap' = tms_seq(tap, shift_ir)
          /\ Fails
       \/ /\ Len(given) = jtag_dev_count
          /\ \A d \in DOMAIN given : ~Refused(given[d])
          /\ jtag_devs' = Told(given)
          /\ chain' = WithIr(Ones(Total(given) + 1))
          /\ tap' = tms_seq(tap, shift_ir \o Final(Total(given) + 1) \o return_idle)
          /\ jpc' = "sanity"
          /\ UNCHANGED <<jtag_dev_count, given, walk, last>>

\* jtag_sanity_check counts the zeros that come out, at most one more than there
\* are devices, while ones go in; then the postscan lengths are filled in.
Zeros ==
    LET row == DrRow(chain)
        most == IF Len(row) <= jtag_dev_count THEN Len(row) ELSE jtag_dev_count + 1
    IN CHOOSE n \in 0..most : (\A i \in 1..n : row[i] = 0) /\ (n < most => row[n + 1] = 1)

Counted(n) ==
    [d \in 1..MaxDevs |->
        IF d > n THEN jtag_devs[d]
        ELSE [jtag_devs[d] EXCEPT !.dr_prescan = d - 1, !.dr_postscan = (jtag_dev_count - d) % 256]]

Postscan(devs) ==
    [d \in 1..MaxDevs |->
        [devs[d] EXCEPT !.ir_postscan =
            IF d > jtag_dev_count THEN @
            ELSE Total([i \in 1..(jtag_dev_count - d) |-> devs[d + i].ir_len])]]

SanityCheck ==
    /\ jpc = "sanity"
    /\ \/ /\ Zeros # jtag_dev_count
          /\ tap' = tms_seq(tap, shift_dr)
          /\ chain' = WithDr(chain, Ones(IF Zeros > jtag_dev_count THEN Zeros ELSE Zeros + 1))
          /\ jtag_devs' = Counted(Zeros)
          /\ Fails
       \/ /\ Zeros = jtag_dev_count
          /\ tap' = tms_seq(tap, shift_dr \o <<0, 1>> \o return_idle)
          /\ chain' = WithDr(chain, Ones(jtag_dev_count + 2))
          /\ \/ /\ jtag_dev_count = 0
                /\ jtag_devs' = jtag_devs /\ Fails
             \/ /\ jtag_dev_count > 0
                /\ jtag_devs' = Postscan(Counted(jtag_dev_count))
                /\ jpc' = "ready"
                /\ UNCHANGED <<jtag_dev_count, given, walk, last>>

---------------------------------------------------------------------------
(* What the debug port does with a device: jtag_dev_write_ir, then         *)
(* jtag_dev_shift_dr.                                                      *)

Remembered(d, ir) ==    \* mutant: the other devices' instructions are not forgotten
    [jtag_devs EXCEPT ![d].current_ir = ir]
Forgotten(d, ir) ==
    [x \in 1..MaxDevs |-> [jtag_devs[x] EXCEPT !.current_ir = IF x = d THEN ir ELSE NoIr]]

IrBits(d, ir) == Ones(jtag_devs[d].ir_prescan) \o ir \o Ones(jtag_devs[d].ir_postscan)
DrBitsFor(d, data) == Ones(jtag_devs[d].dr_prescan) \o data \o Ones(jtag_devs[d].dr_postscan)

Access(d, ir, data) ==
    /\ jpc = "ready"
    /\ d <= jtag_dev_count
    /\ LET same == jtag_devs[d].current_ir = ir
           devs == IF same THEN chain ELSE WithIr(IrBits(d, ir))
           idle == IF same THEN tap
                   ELSE tms_seq(tap, shift_ir \o Final(Len(IrBits(d, ir))) \o return_idle)
       IN /\ jtag_devs' = IF same THEN jtag_devs ELSE Forgotten(d, ir)
          /\ chain' = WithDr(devs, DrBitsFor(d, data))
          /\ tap' = tms_seq(idle, shift_dr \o Final(Len(DrBitsFor(d, data))) \o return_idle)
          /\ last' = [dev |-> d, ir |-> ir, in |-> data, held |-> chain[d].dr,
                      out |-> SubSeq(DrRow(devs) \o DrBitsFor(d, data),
                                     jtag_devs[d].dr_prescan + 1, jtag_devs[d].dr_prescan + DrBits)]
    /\ UNCHANGED <<jpc, jtag_dev_count, given, walk>>

\* Instructions are any bits but all ones.
Instructions(n) == {[i \in 1..n |-> 0], [i \in 1..n |-> IF i = 1 THEN 1 ELSE 0]} \ {Ones(n)}

Accesses == jpc = "ready" /\ \E d \in DOMAIN chain : \E ir \in Instructions(jtag_devs[d].ir_len) :
                \E data \in {[b \in 1..DrBits |-> 0], Ones(DrBits)} : Access(d, ir, data)

JtagEnd == jpc = "failed" /\ UNCHANGED jtagVars

JtagNext == ReadIdcodes \/ ReadIrBit \/ ValidateIrs \/ SanityCheck \/ Accesses \/ JtagEnd

JtagSpec == JtagInit /\ [][JtagNext]_jtagVars

---------------------------------------------------------------------------
JtagTypeOK ==
    /\ jpc \in {"start", "irs", "lengths", "sanity", "ready", "failed"}
    /\ given \in Given /\ jtag_dev_count \in 0..MaxDevs /\ DOMAIN jtag_devs = 1..MaxDevs
    /\ walk.device \in 1..(MaxDevs + 1) /\ walk.len \in 0..MaxIrLen

\* The lengths were measured, or the user gave those of the chain.
LengthsRight == given \in {<<>>, IrWidths}

\* A scan that succeeds has counted the devices and knows the data bits before and
\* after each, whatever mix of lengths and of devices with a known quirk is
\* connected and whatever lengths were given.  It knows the instruction registers
\* too unless it was given others than the chain's.
ChainLearned ==
    jpc = "ready" =>
        /\ jtag_dev_count = Len(chain)
        /\ \A d \in DOMAIN chain :
              /\ jtag_devs[d].dr_prescan = d - 1 /\ jtag_devs[d].dr_postscan = Len(chain) - d
              /\ LengthsRight =>
                    /\ jtag_devs[d].ir_len = IrWidths[d]
                    /\ jtag_devs[d].ir_prescan = Total(SubSeq(IrWidths, 1, d - 1))
                    /\ jtag_devs[d].ir_prescan + IrWidths[d] + jtag_devs[d].ir_postscan = Len(Captured)

\* The instruction a device is believed to hold is the one it holds, and every
\* other device is then bypassed, after any sequence of accesses.
OneSelected ==
    jpc = "ready" /\ LengthsRight =>
        \A d \in DOMAIN chain : jtag_devs[d].current_ir # NoIr =>
            /\ chain[d].ir = jtag_devs[d].current_ir
            /\ \A x \in DOMAIN chain \ {d} : Bypassed(chain[x])

\* An access reads what the device's register held and leaves there what was sent.
AccessReaches ==
    last # NoAccess /\ LengthsRight => last.out = last.held /\ chain[last.dev].dr = last.in

\* Every operation leaves the chain in Run-Test/Idle, where the next one starts.
ReturnsIdle == jpc \in {"irs", "lengths", "sanity", "ready"} /\ (jpc = "irs" => walk.seen = 0) => tap = "Idle"

\* The scan learns the chain that is connected, and any sequence of accesses that
\* follows (jtag_dev_write_ir, jtag_dev_shift_dr) reaches the device it is meant
\* for and no other, unless the user gave lengths that are not the chain's, which
\* jtag_validate_irs does not notice.
ChainExact == ChainLearned /\ OneSelected /\ AccessReaches /\ ReturnsIdle

=============================================================================
