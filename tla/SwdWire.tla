------------------------------- MODULE SwdWire -------------------------------
(***************************************************************************)
(* Who drives the SWDIO line at each clock edge: swdptap.c turns the line  *)
(* round lazily, when a sequence needs the other direction, and the        *)
(* accesses of adiv5_swdp.c are built from such sequences.  The debug port *)
(* is external: after a request it has a fixed order of edges to come, and *)
(* a request it cannot take, or one that never was, leaves it deaf until a *)
(* line reset.                                                             *)
(***************************************************************************)
EXTENDS Integers, Sequences

CONSTANT DataBits   \* 33 with the parity

ASSUME WireAssumption == DataBits \in Nat \ {0}

VARIABLES
    wpc,      \* "idle", "sent", "acked", "again"; in a recovery "resetting" and Stages
    olddir,   \* which way the line is: "drive" or "float"
    todo,     \* edges the port still expects of this transaction, by their driver
    access,       \* the access: whether it reads, may recover, and clears errors for another
    acknowledge,      \* the acknowledge of the port
    deaf,     \* the port waits for a line reset
    clash     \* an edge was not driven by the one who should

wireVars == <<wpc, olddir, todo, access, acknowledge, deaf, clash>>

Of(who, n) == [i \in 1..n |-> who]
Acks == {"ok", "wait", "fault", "bad"}
Stages == {"select", "check", "status", "clear"}

\* After the line reset of a scan.
WireInit ==
    /\ wpc = "idle" /\ olddir = "drive" /\ todo = <<>> /\ acknowledge = "ok"
    /\ access = [read |-> FALSE, recoverable |-> FALSE, again |-> FALSE]
    /\ deaf \in BOOLEAN /\ clash = FALSE

---------------------------------------------------------------------------
(* swdptap.c: the edges of a sequence, after the turnaround it may need.   *)

TurnNever(dir) == <<>>     \* mutant: the line changes hands without the extra clock
\* swdptap_turnaround
Turn(dir) == IF olddir = dir THEN <<>> ELSE <<"turn">>

seq_out(n) == Turn("drive") \o Of("host", n)
seq_in(n) == Turn("float") \o Of("port", n)
\* The read ends with the line turned back.
seq_in_parity == seq_in(DataBits) \o <<"turn">>

\* What the port still expects once these edges have passed.
Rest(edges, due) ==
    IF Len(edges) >= Len(due) THEN <<>> ELSE SubSeq(due, Len(edges) + 1, Len(due))
\* Edges beyond what it expects are idle ones, which the host has to drive low.
Matches(edges, due) ==
    \A i \in DOMAIN edges : IF i \in DOMAIN due THEN edges[i] = due[i] ELSE edges[i] = "host"

Pass(edges, due, to) ==
    /\ clash' = (clash \/ (~deaf /\ ~Matches(edges, due)))
    /\ todo' = Rest(edges, due)
    /\ olddir' = to

---------------------------------------------------------------------------
(* The debug port.                                                         *)

Answer(read, a) ==
    <<"turn">> \o Of("port", 3) \o
    (IF a # "ok" THEN <<"turn">>
     ELSE IF read THEN Of("port", DataBits) \o <<"turn">>
     ELSE <<"turn">> \o Of("host", DataBits))

---------------------------------------------------------------------------
(* firmware_swdp_low_access and what calls it.                             *)

\* The eight bits of a request, which the port takes in at the end of what it
\* expected before.
Send ==
    /\ Pass(seq_out(8), todo \o Of("host", 8), "drive")
    /\ wpc' = "sent"
    /\ UNCHANGED <<acknowledge, deaf>>

Request(read, recoverable) ==
    /\ wpc = "idle"
    /\ access' = [read |-> read, recoverable |-> recoverable, again |-> FALSE]
    /\ Send

AckBits == 3

ReadAck ==
    /\ wpc = "sent"
    /\ \E a \in IF access.again THEN {"ok"} ELSE Acks : \E deaf1 \in BOOLEAN :
          /\ deaf => deaf1
          /\ acknowledge' = IF deaf1 THEN "none" ELSE a
          /\ deaf' = deaf1
          /\ clash' = (clash \/ (~deaf1 /\ ~Matches(seq_in(AckBits), Answer(access.read, a))))
          /\ todo' = IF deaf1 THEN <<>> ELSE Rest(seq_in(AckBits), Answer(access.read, a))
    /\ olddir' = "float"
    /\ wpc' = "acked"
    /\ UNCHANGED access

Data ==
    /\ wpc = "acked" /\ acknowledge = "ok"
    /\ IF access.read THEN Pass(seq_in_parity, todo, "drive")
       ELSE Pass(seq_out(DataBits) \o Of("host", 8), todo, "drive")
    /\ wpc' = IF access.again THEN "again" ELSE "idle"
    /\ UNCHANGED <<access, acknowledge, deaf>>

\* WAIT and FAULT are tried again; a FAULT is cleared through ABORT before.
Retry ==
    /\ wpc = "acked" /\ acknowledge = "wait" /\ Send /\ UNCHANGED access

ClearFault ==
    /\ wpc = "acked" /\ acknowledge = "fault"
    /\ access' = [read |-> FALSE, recoverable |-> access.recoverable, again |-> TRUE]
    /\ Send

Again ==
    /\ wpc = "again"
    /\ \E read \in BOOLEAN : access' = [read |-> read, recoverable |-> access.recoverable, again |-> FALSE]
    /\ Send

\* The timeout has passed, or the acknowledge is unknown: the access ends there.
GiveUp ==
    /\ wpc = "acked" /\ (acknowledge \in {"wait", "fault", "bad"} \/ (acknowledge = "none" /\ ~access.recoverable))
    /\ wpc' = IF acknowledge = "bad" THEN "resetting" ELSE "idle"    \* the exception ends in a new scan
    /\ UNCHANGED <<olddir, todo, access, acknowledge, deaf, clash>>

\* adiv5_dp_recoverable_access: the response period passes, the line is reset.
Recover ==
    /\ wpc = "acked" /\ acknowledge = "none" /\ access.recoverable
    /\ Pass(seq_in_parity, todo, "drive")
    /\ wpc' = "resetting"
    /\ UNCHANGED <<access, acknowledge, deaf>>

\* firmware_swdp_error: TARGETSEL is written to a debug port of version 2, DPIDR
\* and CTRL/STAT are read, and ABORT is written when there is an error to clear.
LineReset ==
    /\ wpc = "resetting"
    /\ olddir' = "drive" /\ todo' = <<>> /\ UNCHANGED clash
    /\ deaf' = FALSE
    /\ wpc' \in {"select", "check"}
    /\ UNCHANGED <<access, acknowledge>>

\* firmware_dp_low_read: the data is clocked in whatever the acknowledge, which for
\* these registers is never WAIT or FAULT.
LowRead ==
    /\ wpc \in {"check", "status"}
    /\ LET edges == seq_out(8) \o <<"turn">> \o Of("port", 3) \o Of("port", DataBits) \o <<"turn">>
       IN Pass(edges, Of("host", 8) \o Answer(TRUE, "ok"), "drive")
    /\ wpc' \in IF wpc = "check" THEN {"status"} ELSE {"clear", "again"}
    /\ access' = [access EXCEPT !.recoverable = FALSE]
    /\ UNCHANGED <<acknowledge, deaf>>

\* firmware_dp_low_write: nobody acknowledges TARGETSEL, but its edges are the same.
LowWrite ==
    /\ wpc \in {"select", "clear"}
    /\ LET edges == seq_out(8) \o <<"turn">> \o Of("port", 3) \o <<"turn">> \o Of("host", DataBits)
       IN Pass(edges \o Of("host", 8), Of("host", 8) \o Answer(FALSE, "ok"), "drive")
    /\ wpc' = IF wpc = "select" THEN "check" ELSE "again"
    /\ UNCHANGED <<access, acknowledge, deaf>>

WireNext ==
    \/ \E read, recoverable \in BOOLEAN : Request(read, recoverable)
    \/ ReadAck \/ Data \/ Retry \/ ClearFault \/ Again \/ GiveUp
    \/ Recover \/ LineReset \/ LowRead \/ LowWrite

WireSpec == WireInit /\ [][WireNext]_wireVars

---------------------------------------------------------------------------
WireTypeOK ==
    /\ wpc \in {"idle", "sent", "acked", "again", "resetting"} \cup Stages
    /\ olddir \in {"drive", "float"}
    /\ acknowledge \in Acks \cup {"none"}
    /\ Len(todo) <= DataBits + 1

\* Host and port agree on every edge: neither drives the line while the other
\* does, and no transaction ends an edge early or late, across retries, the
\* clearing of a fault, accesses that were given up, and recovery; and a port
\* that went deaf hears again after a recoverable access.
InStep == ~clash /\ (wpc \in Stages \cup {"again"} => ~deaf)

=============================================================================
