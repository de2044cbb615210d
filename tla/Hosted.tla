------------------------------- MODULE Hosted -------------------------------
(***************************************************************************)
(* The hosted build over its adaptors: accesses to the debug port that an  *)
(* adaptor performs as a whole, and the bits it shifts for the code that   *)
(* does it itself.  An adaptor is used in one of the two ways, which the   *)
(* initial state chooses.                                                  *)
(***************************************************************************)
EXTENDS Adapters, Shifters

VARIABLE way

hostedVars == <<way, adVars, shiftVars>>

HostedInit ==
    /\ way \in {"accesses", "shifts"}
    /\ AdInit /\ (way # "accesses" => adaptor = (CHOOSE a \in Accesses : TRUE).adaptor)
    /\ ShiftInit

HostedNext ==
    /\ UNCHANGED way
    /\ \/ way = "accesses" /\ AdNext /\ UNCHANGED shiftVars
       \/ way = "shifts" /\ ShiftNext /\ UNCHANGED adVars

\* The fairness of Adapters, when it is the one that runs.
HostedSpec ==
    /\ HostedInit /\ [][HostedNext]_hostedVars
    /\ WF_adVars(way = "accesses" /\ (Execute \/ Silence))
    /\ WF_adVars(way = "accesses" /\ TimePasses)
    /\ WF_adVars(way = "accesses" /\ (Receive \/ Return))
=============================================================================
