------------------------------ MODULE GdbLink ------------------------------
(***************************************************************************)
(* The exchange between GDB and the probe, frame by frame: commands, acks, *)
(* replies, retransmissions and Ctrl-C (gdb_packet.c and the poll loop of  *)
(* main.c), over two queues that keep the order of characters.             *)
(*                                                                         *)
(* GDB is external: it sends one command at a time, waits for its ack,     *)
(* repeats it on a nack, acks and drops a frame that comes instead of the  *)
(* ack, and then waits for the reply.                                      *)
(***************************************************************************)
EXTENDS Integers, Sequences

CONSTANTS
    MaxCommands,
    MaxCorrupt,    \* frames that the line damages
    MaxTimeouts,   \* acks that come too late for the probe
    MaxInterrupts  \* of Ctrl-C

ASSUME LinkAssumption == {MaxCommands, MaxCorrupt, MaxTimeouts, MaxInterrupts} \subseteq Nat

VARIABLES
    toProbe,   \* characters and frames on their way to the probe
    toGdb,     \* and to GDB
    probe,     \* "get", "exec", "running", "stopping", "ack"
    cmd,       \* the command the probe executes or answers
    tries,     \* retransmissions of the reply
    executed,  \* the commands the probe executed
    gdb,       \* "idle", "ack", "reply"
    asks,      \* commands GDB has sent
    asked,     \* GDB has sent Ctrl-C since its last command
    corrupt, late, interrupts  \* budgets used up

linkVars == <<toProbe, toGdb, probe, cmd, tries, executed, gdb, asks, asked, corrupt, late, interrupts>>

probeVars == <<probe, cmd, tries, executed>>
gdbVars == <<gdb, asks, asked>>
budgets == <<corrupt, late, interrupts>>

Char(c) == [kind |-> c, n |-> 0, ok |-> TRUE]
Frame(n) == [kind |-> "frame", n |-> n, ok |-> TRUE]
IsFrame(c) == c.kind = "frame"

LinkInit ==
    /\ toProbe = <<>> /\ toGdb = <<>>
    /\ probe = "get" /\ cmd = 0 /\ tries = 0 /\ executed = <<>>
    /\ gdb = "idle" /\ asks = 0 /\ asked = FALSE
    /\ corrupt = 0 /\ late = 0 /\ interrupts = 0

---------------------------------------------------------------------------
(* The probe.                                                              *)

ChecksumIgnored(f) == TRUE   \* mutant: the checksum is not compared
ChecksumOk(f) == f.ok

\* gdb_getpacket: anything but a frame is skipped.
GetPacket ==
    /\ probe = "get" /\ toProbe # <<>>
    /\ toProbe' = Tail(toProbe)
    /\ LET f == Head(toProbe) IN
       \/ /\ ~IsFrame(f)
          /\ UNCHANGED <<toGdb, probe, cmd>>
       \/ /\ IsFrame(f) /\ ~ChecksumOk(f)
          /\ toGdb' = Append(toGdb, Char("-"))
          /\ UNCHANGED <<probe, cmd>>
       \/ /\ IsFrame(f) /\ ChecksumOk(f)
          /\ toGdb' = Append(toGdb, Char("+"))
          /\ probe' = "exec" /\ cmd' = f.n
    /\ UNCHANGED <<tries, executed, gdbVars, budgets>>

\* The reply goes out, and the probe waits for one character.
SendStale == toGdb' = Append(toGdb, Frame(IF tries > 0 THEN cmd - 1 ELSE cmd))   \* mutant: an old buffer is repeated
Send == toGdb' = Append(toGdb, Frame(cmd))

PutPacket == Send /\ probe' = "ack" /\ tries' = 0

\* gdb_main: a command is answered at once, or it resumes the target.
Execute ==
    /\ probe = "exec"
    /\ executed' = Append(executed, cmd)
    /\ \/ PutPacket
       \/ probe' = "running" /\ UNCHANGED <<toGdb, tries>>
    /\ UNCHANGED <<toProbe, cmd, gdbVars, budgets>>

Interrupts(c) == c.kind = "int"

\* bmp_poll_loop reads a character while the target runs.
PollChar ==
    /\ probe = "running" /\ toProbe # <<>>
    /\ toProbe' = Tail(toProbe)
    /\ probe' = IF Interrupts(Head(toProbe)) THEN "stopping" ELSE "running"
    /\ UNCHANGED <<toGdb, cmd, tries, executed, gdbVars, budgets>>

\* gdb_poll_target finds the target halted, by itself or on request.
PollHalted ==
    /\ probe \in {"running", "stopping"}
    /\ PutPacket
    /\ UNCHANGED <<toProbe, cmd, executed, gdbVars, budgets>>

TriesLeft == tries < 3

\* gdb_putpacket after a character other than the ack, or none in time.
Retry ==
    \/ /\ TriesLeft
       /\ Send
       /\ tries' = tries + 1
       /\ UNCHANGED probe
    \/ /\ ~TriesLeft
       /\ probe' = "get"
       /\ UNCHANGED <<toGdb, tries>>

\* Of a frame only the '$' is read; what is left of it is noise.
ReadOne == toProbe' = IF IsFrame(Head(toProbe)) THEN <<Char("noise")>> \o Tail(toProbe)
                      ELSE Tail(toProbe)

GetAckAny ==   \* mutant: any character counts as the ack
    /\ probe = "ack" /\ toProbe # <<>>
    /\ ReadOne
    /\ probe' = "get"
    /\ UNCHANGED <<toGdb, tries, cmd, executed, gdbVars, budgets>>

GetAck ==
    /\ probe = "ack" /\ toProbe # <<>>
    /\ ReadOne
    /\ \/ /\ Head(toProbe).kind = "+"
          /\ probe' = "get"
          /\ UNCHANGED <<toGdb, tries>>
       \/ /\ Head(toProbe).kind # "+"
          /\ Retry
    /\ UNCHANGED <<cmd, executed, gdbVars, budgets>>

AckTimeout ==
    /\ probe = "ack" /\ toProbe = <<>>
    /\ late < MaxTimeouts
    /\ late' = late + 1
    /\ Retry
    /\ UNCHANGED <<toProbe, cmd, executed, gdbVars, corrupt, interrupts>>

---------------------------------------------------------------------------
(* GDB and the line.                                                       *)

SendCommand ==
    /\ gdb = "idle" /\ asks < MaxCommands
    /\ asks' = asks + 1
    /\ toProbe' = Append(toProbe, Frame(asks + 1))
    /\ gdb' = "ack" /\ asked' = FALSE
    /\ UNCHANGED <<toGdb, probeVars, budgets>>

\* GDB sends Ctrl-C once its command is acknowledged.
SendInterrupt ==
    /\ gdb = "reply" /\ interrupts < MaxInterrupts
    /\ toProbe' = Append(toProbe, Char("int"))
    /\ interrupts' = interrupts + 1 /\ asked' = TRUE
    /\ UNCHANGED <<toGdb, probeVars, gdb, asks, corrupt, late>>

GdbWaitsAck ==
    /\ gdb = "ack" /\ toGdb # <<>>
    /\ toGdb' = Tail(toGdb)
    /\ LET c == Head(toGdb) IN
       \/ /\ c.kind = "+"
          /\ gdb' = "reply"
          /\ UNCHANGED toProbe
       \/ /\ c.kind = "-"
          /\ toProbe' = Append(toProbe, Frame(asks))
          /\ UNCHANGED gdb
       \/ /\ IsFrame(c)
          /\ toProbe' = Append(toProbe, Char("+"))
          /\ UNCHANGED gdb
    /\ UNCHANGED <<probeVars, asks, asked, budgets>>

GdbWaitsReply ==
    /\ gdb = "reply" /\ toGdb # <<>>
    /\ toGdb' = Tail(toGdb)
    /\ LET c == Head(toGdb) IN
       \/ /\ ~IsFrame(c)
          /\ UNCHANGED <<toProbe, gdb>>
       \/ /\ IsFrame(c) /\ ~c.ok
          /\ toProbe' = Append(toProbe, Char("-"))
          /\ UNCHANGED gdb
       \/ /\ IsFrame(c) /\ c.ok
          /\ toProbe' = Append(toProbe, Char("+"))
          /\ gdb' = "idle"
    /\ UNCHANGED <<probeVars, asks, asked, budgets>>

Damaged == [kind |-> "frame", n |-> 0, ok |-> FALSE]

Corrupt ==
    /\ corrupt < MaxCorrupt
    /\ corrupt' = corrupt + 1
    /\ \/ \E i \in DOMAIN toProbe :
            /\ IsFrame(toProbe[i])
            /\ toProbe' = [toProbe EXCEPT ![i] = Damaged] /\ UNCHANGED toGdb
       \/ \E i \in DOMAIN toGdb :
            /\ IsFrame(toGdb[i])
            /\ toGdb' = [toGdb EXCEPT ![i] = Damaged] /\ UNCHANGED toProbe
    /\ UNCHANGED <<probeVars, gdbVars, late, interrupts>>

\* Every command was answered and everything on the line was read.
Finished ==
    /\ asks = MaxCommands /\ gdb = "idle" /\ toProbe = <<>> /\ probe = "get"
    /\ UNCHANGED linkVars

Probe == GetPacket \/ Execute \/ PollChar \/ PollHalted \/ GetAck \/ AckTimeout
Gdb == SendCommand \/ GdbWaitsAck \/ GdbWaitsReply
LinkNext == Probe \/ Gdb \/ SendInterrupt \/ Corrupt \/ Finished

\* Both ends keep working; a target that was told to halt halts, one that
\* was not may run for ever, and so may a GDB that waits for it.
LinkSpec == LinkInit /\ [][LinkNext]_linkVars

LinkFairSpec ==
    /\ LinkSpec
    /\ WF_linkVars(GetPacket) /\ WF_linkVars(Execute) /\ WF_linkVars(PollChar) /\ WF_linkVars(GetAck)
    /\ WF_linkVars(PollHalted /\ probe = "stopping")
    /\ WF_linkVars(GdbWaitsAck) /\ WF_linkVars(GdbWaitsReply)

---------------------------------------------------------------------------
LinkTypeOK ==
    /\ \A q \in {toProbe, toGdb} : \A i \in DOMAIN q :
          q[i] \in [kind : {"frame", "+", "-", "int", "noise"}, n : 0..asks, ok : BOOLEAN]
    /\ probe \in {"get", "exec", "running", "stopping", "ack"}
    /\ gdb \in {"idle", "ack", "reply"}
    /\ cmd \in 0..asks /\ tries \in 0..3

\* The probe executes each command once, in order: no retransmission by GDB,
\* after a nack, repeats what was done (a repeated flash write or
\* step would not be harmless).
ExecutedOnce == \A i \in DOMAIN executed : executed[i] = i

\* The reply that GDB takes for the answer to a command answers that command:
\* a retransmitted reply or stop reply is never taken for the next one.
ReplyMatches ==
    [][gdb = "reply" /\ gdb' = "idle" => Head(toGdb) = Frame(asks)]_linkVars

\* The ack of a reply carries no number, so one that is late can be taken for
\* the ack of the next reply: a damaged reply is then not repeated.
Confused == corrupt > 0 /\ late + interrupts > 0

\* A command is answered unless it resumes a target that keeps running; Ctrl-C
\* gets GDB its stop reply, when it crosses one as well.
Answered ==
    /\ (gdb = "ack") ~> (gdb = "idle" \/ probe = "running" \/ Confused)
    /\ asked ~> (gdb = "idle" \/ Confused)

=============================================================================
