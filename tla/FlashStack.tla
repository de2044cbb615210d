----------------------------- MODULE FlashStack -----------------------------
(***************************************************************************)
(* Flash programming: the buffering of requests, in which a call of a      *)
(* driver is one step that succeeds or fails, and the drivers, in which it *)
(* is a sequence of accesses to a flash controller.  A behaviour exercises *)
(* one of the two, which the initial state chooses, while the other rests. *)
(***************************************************************************)
EXTENDS TargetFlash, FlashDriver

VARIABLE part

stackVars == <<part, vars, driverVars>>

StackInit ==
    /\ part \in {"buffer", "driver"}
    /\ Init /\ (part # "buffer" => mem[0] = Old)
    /\ DriverInit /\ (part # "driver" => case = CHOOSE c \in Cases : TRUE)

StackNext ==
    /\ UNCHANGED part
    /\ \/ part = "buffer" /\ Next /\ UNCHANGED driverVars
       \/ part = "driver" /\ DriverNext /\ UNCHANGED vars

\* The probe runs a request to its end before it looks at the next one, and
\* the flash controller of the target works by itself.
StackSpec ==
    /\ StackInit /\ [][StackNext]_stackVars
    /\ WF_vars(part = "buffer" /\ Step)
    /\ WF_driverVars(part = "driver" /\ DriverStep)
    /\ WF_driverVars(part = "driver" /\ Finish)

---------------------------------------------------------------------------
\* Every request of GDB is answered (target_flash.c), and every call of a driver
\* returns: no wait loop outlives the operation it waits for, or the failure of a
\* page or of the link that the driver checks.
FlashReturns == RequestsEnd /\ DriverReturns

=============================================================================
