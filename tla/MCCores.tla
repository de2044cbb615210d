------------------------------ MODULE MCCores ------------------------------
(***************************************************************************)
(* What the probe does with a core once a session has attached to it: run  *)
(* control of a Cortex-M and of a Cortex-A, the calls of a program that    *)
(* asks for semihosting, and the polling of one that uses real time        *)
(* transfer.  A behaviour exercises one of the four, which the initial     *)
(* state chooses, while the others rest: they share no state.              *)
(***************************************************************************)
EXTENDS CortexM, CortexA, Semihosting, RttPoll

VARIABLE unit

coresVars == <<unit, coreMVars, cortexAVars, semiVars, rttPollVars>>

CoresInit ==
    /\ unit \in {"cortexm", "cortexa", "program", "rtt"}
    /\ CoreInit /\ CortexAInit /\ SemiInit /\ RttPollInit
    /\ unit # "program" => build = "probe"
    /\ unit # "rtt" => block = "ready"

CoresNext ==
    /\ UNCHANGED unit
    /\ \/ unit = "cortexm" /\ CoreNext /\ UNCHANGED <<cortexAVars, semiVars, rttPollVars>>
       \/ unit = "cortexa" /\ CortexANext /\ UNCHANGED <<coreMVars, semiVars, rttPollVars>>
       \/ unit = "program" /\ SemiNext /\ UNCHANGED <<coreMVars, cortexAVars, rttPollVars>>
       \/ unit = "rtt" /\ RttPollNext /\ UNCHANGED <<coreMVars, cortexAVars, semiVars>>

CoresSpec == CoresInit /\ [][CoresNext]_coresVars

---------------------------------------------------------------------------
(* The instance.  Cortex-M: a program of three instructions with a         *)
(* breakpoint and a semihosting call, and a stub; two breakpoint           *)
(* comparators for two addresses.  Cortex-A: two comparators, one of which *)
(* single step borrows.                                                    *)

MCCode == [a \in 0..4 |-> <<"plain", "bkpt", "hostio", "stub", "exit">>[a + 1]]
Break(a) == [type |-> "break", addr |-> a]
MCPlaces == {Break(0), Break(1), [type |-> "watch", addr |-> 0]}
Point(kind, a) == [kind |-> kind, addr |-> a]
MCPoints == {Point("hard", 0), Point("hard", 4), Point("soft", 0), Point("watch", 0), Point("wide", 0)}
MCData == <<1, 2, 3>>

=============================================================================
