----------------------------- MODULE MCDebugLink -----------------------------
(***************************************************************************)
(* The five parts of the link to the target, side by side: the edges on    *)
(* the SWD wire, the bits captured on JTAG, the JTAG chain, the accesses   *)
(* to memory and the scan.  Each keeps its own state and none waits for    *)
(* another, so that a behaviour exercises one of them, which the initial   *)
(* state chooses, while the others rest.                                   *)
(***************************************************************************)
EXTENDS AdiMem, AdiScan, JtagScan, JtagTap, SwdWire

VARIABLE part

linkVars == <<part, memVars, scanVars, jtagVars, tapVars, wireVars>>

\* One initial state of each part at rest.
MemRests ==
    /\ transport = "swd" /\ op.kind = "read" /\ op.addr = 0 /\ op.len = 1 /\ fault = "none"
    /\ port.tar = 0 /\ port.size = 1 /\ ~port.sticky /\ ~port.mine
JtagRests == chain = <<>> /\ tap = "Idle" /\ given = <<>>
TapRests == clock_cycles = 1
WireRests == ~deaf

LinkInit ==
    /\ part \in {"mem", "scan", "jtag", "tap", "wire"}
    /\ MemInit /\ (part # "mem" => MemRests)
    /\ ScanInit
    /\ JtagInit /\ (part # "jtag" => JtagRests)
    /\ TapInit /\ (part # "tap" => TapRests)
    /\ WireInit /\ (part # "wire" => WireRests)

LinkNext ==
    /\ UNCHANGED part
    /\ \/ part = "mem" /\ MemNext /\ UNCHANGED <<scanVars, jtagVars, tapVars, wireVars>>
       \/ part = "scan" /\ ScanNext /\ UNCHANGED <<memVars, jtagVars, tapVars, wireVars>>
       \/ part = "jtag" /\ JtagNext /\ UNCHANGED <<memVars, scanVars, tapVars, wireVars>>
       \/ part = "tap" /\ TapNext /\ UNCHANGED <<memVars, scanVars, jtagVars, wireVars>>
       \/ part = "wire" /\ WireNext /\ UNCHANGED <<memVars, scanVars, jtagVars, tapVars>>

LinkSpec == LinkInit /\ [][LinkNext]_linkVars

---------------------------------------------------------------------------
(* The instance: memory with a hole inside a page and one at the start of  *)
(* another, and chains of up to four devices.                              *)

MCHoles == {0, 13}

Plain(n) == [capture |-> [i \in 1..n |-> IF i = 1 THEN 1 ELSE 0], quirk |-> <<>>]
Quirky == [capture |-> <<1, 0, 1, 0>>, quirk |-> <<1, 0, 1, 0>>]
Wrong == [capture |-> <<1, 1, 1, 0>>, quirk |-> <<1, 0, 1, 0>>]
Devices == {Plain(2), Plain(4), Quirky}
MCChains == (UNION {[1..n -> Devices] : n \in 0..3})
            \cup {<<Plain(2), Wrong>>, <<Plain(5)>>, <<Plain(2), Plain(2), Plain(2), Plain(2)>>}
\* Lengths that fit chains, that have too many or too few bits or devices for
\* them, and that are refused.
MCGiven == {<<>>, <<4>>, <<0>>, <<2, 4>>, <<4, 2>>, <<2, 5>>, <<2, 4, 4>>, <<1, 4, 4>>}
=============================================================================
