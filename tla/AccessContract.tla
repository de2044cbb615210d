--------------------------- MODULE AccessContract ---------------------------
(***************************************************************************)
(* What the code above an adaptor may rely on when it makes an access to   *)
(* the target, whichever adaptor carries it.  An access moves a number of  *)
(* pieces.  The target takes a piece or turns it away; the access ends in  *)
(* order, which says that every piece was taken and hands over exactly     *)
(* what was, or it ends with a fault, an exception or the end of the       *)
(* program.  Only a quiet access may end in order with a piece turned      *)
(* away, and only a blind one with a piece spoilt that nobody was told of. *)
(* Once the adaptor itself stopped answering nothing is promised.          *)
(***************************************************************************)
EXTENDS Naturals

CONSTANTS Pieces,     \* the pieces an access can have, 1..n
          Values      \* what a piece can hold

VARIABLES access,     \* the access in progress
          target,     \* what the target holds
          moved,      \* what became of each piece of the access
          result,     \* how the last access ended, and what it handed over
          answering   \* whether the adaptor always answered so far

contractVars == <<access, target, moved, result, answering>>

NoAccess == [writes |-> FALSE, quiet |-> FALSE, blind |-> FALSE, size |-> 0]
Untouched == [p \in Pieces |-> "not yet"]
NoResult == [how |-> "none", data |-> Untouched]

ContractInit ==
    /\ access = NoAccess
    /\ target \in [Pieces -> Values]
    /\ moved = Untouched
    /\ result = NoResult
    /\ answering = TRUE

\* The caller asks for an access.
Ask ==
    /\ access = NoAccess
    /\ access' # NoAccess
    /\ moved' = Untouched
    /\ result' = NoResult
    /\ UNCHANGED <<target, answering>>

\* The target takes a piece: a write is stored, a read hands over what is there.
Take(p) ==
    /\ p <= access.size
    /\ \E v \in Values :
        /\ target' = [target EXCEPT ![p] = v]
        /\ access.writes \/ v = target[p]
        /\ moved' = [moved EXCEPT ![p] = v]
    /\ UNCHANGED <<access, result, answering>>

\* A piece is turned away: refused, or taken with its answer thrown away.  A piece
\* of a blind access may be spoilt instead: acknowledged and not moved.
TurnAway(p) ==
    /\ p <= access.size
    /\ \E v \in Values : target' \in {target, [target EXCEPT ![p] = v]}
    /\ access.writes \/ target' = target
    /\ \E how \in {"turned away"} \cup (IF access.blind THEN {"spoilt"} ELSE {}) :
           moved' = [moved EXCEPT ![p] = how]
    /\ UNCHANGED <<access, result, answering>>

\* The access ends in order.
Finish ==
    /\ access # NoAccess
    /\ \A p \in 1..access.size : moved[p] \in Values
    /\ result' = [how |-> "done", data |-> IF access.writes THEN Untouched ELSE moved]
    /\ access' = NoAccess
    /\ UNCHANGED <<target, moved, answering>>

\* The access ends with the failure told to the caller.
Tell ==
    /\ access # NoAccess
    /\ result'.how \in {"fault", "exception", "exit"}
    /\ access' = NoAccess
    /\ UNCHANGED <<target, moved, answering>>

\* What a quiet access was refused goes unsaid, and what was spoilt.
LeaveUnsaid ==
    /\ \E p \in 1..access.size :
           moved[p] = "spoilt" \/ (access.quiet /\ moved[p] = "turned away")
    /\ result'.how = "done"
    /\ access' = NoAccess
    /\ UNCHANGED <<target, moved, answering>>

\* The adaptor stops answering, and from then on nothing is promised.
GoSilent == answering' = FALSE

ContractNext ==
    \/ Ask \/ Finish \/ Tell \/ LeaveUnsaid \/ GoSilent
    \/ \E p \in Pieces : Take(p) \/ TurnAway(p)

ContractSpec == ContractInit /\ [][ContractNext]_contractVars
=============================================================================
