------------------------------- MODULE JtagTap -------------------------------
(***************************************************************************)
(* How jtagtap_tdi_tdo_seq gathers the bits that arrive on TDO into bytes  *)
(* (platforms/common/jtagtap.c): one routine for full speed and one for a  *)
(* slowed-down clock.  A byte holds the bits that were stored in it, by    *)
(* the clock cycle they arrived in; -1 is a bit nothing was stored in.     *)
(***************************************************************************)
EXTENDS Integers

CONSTANTS
    ByteBits,    \* 8
    Lengths,     \* numbers of clock cycles
    Delays       \* whether the clock is slowed down: a subset of BOOLEAN

ASSUME TapAssumption == ByteBits \in Nat \ {0} /\ Lengths \subseteq Nat \ {0} /\ Delays \subseteq BOOLEAN

VARIABLES swd_delay, clock_cycles, cycle, value, data_out

tapVars == <<swd_delay, clock_cycles, cycle, value, data_out>>

Empty == [b \in 0..(ByteBits - 1) |-> -1]
Zero == [b \in 0..(ByteBits - 1) |-> -2]      \* value = 0

TapInit ==
    /\ swd_delay \in Delays /\ clock_cycles \in Lengths
    /\ cycle = 0 /\ value = Zero
    /\ data_out = [i \in 0..((clock_cycles - 1) \div ByteBits) |-> Empty]

\* One cycle: the bit goes into value, and a full byte into data_out.
Shift ==
    /\ cycle < clock_cycles
    /\ LET bit == cycle % ByteBits
           gathered == [value EXCEPT ![bit] = cycle]
       IN IF bit = ByteBits - 1
          THEN value' = Zero /\ data_out' = [data_out EXCEPT ![cycle \div ByteBits] = gathered]
          ELSE value' = gathered /\ UNCHANGED data_out
    /\ cycle' = cycle + 1
    /\ UNCHANGED <<swd_delay, clock_cycles>>

\* What is left over after the loop.
LeftOverNever == FALSE     \* mutant: a part of a byte is not stored
LeftOver == IF swd_delay THEN (clock_cycles - 1) % ByteBits # 0
            ELSE clock_cycles % ByteBits # 0

Finish ==
    /\ cycle = clock_cycles
    /\ cycle' = cycle + 1
    /\ data_out' = IF LeftOver THEN [data_out EXCEPT ![(clock_cycles - 1) \div ByteBits] = value]
                   ELSE data_out
    /\ UNCHANGED <<swd_delay, clock_cycles, value>>

TapEnd == cycle > clock_cycles /\ UNCHANGED tapVars

TapNext == Shift \/ Finish \/ TapEnd

TapSpec == TapInit /\ [][TapNext]_tapVars

---------------------------------------------------------------------------
\* Every bit that arrived is in its place in data_out: "Shift out a sequence on
\* MS and DI, capture data to DO" (include/jtagtap.h:45).
AllCaptured ==
    cycle > clock_cycles =>
        \A c \in 0..(clock_cycles - 1) : data_out[c \div ByteBits][c % ByteBits] = c

=============================================================================
