------------------------------ MODULE Sessions ------------------------------
(***************************************************************************)
(* GDB's sessions with the targets, in five worlds.  In two of them a      *)
(* target is what GdbSession makes of it: in the troubled one every access *)
(* may raise, attaching and cleaning up may fail, targets make semihosting *)
(* calls and GDB comes and goes at any time; in the sound one nothing of   *)
(* this happens, and the session keeps its promises to GDB as well.  The   *)
(* third looks into one target and at the drivers that a scan, attaching   *)
(* and detaching run (TargetProbe), the fourth at the frames that carry    *)
(* GDB's packets (GdbPacket), and the fifth at the endpoint that their     *)
(* characters come and go through (GdbEndpoint).                           *)
(***************************************************************************)
EXTENDS GdbSession, TargetProbe, GdbPacket, GdbEndpoint

VARIABLE world

AnyCase == CHOOSE any \in Cases : TRUE

Sound == INSTANCE GdbSession WITH
    Faults <- {}, CleanupFaults <- FALSE, Semihosting <- FALSE,
    EofInSyscall <- FALSE, QuickReopen <- FALSE

worldVars == <<world, vars, probeVars, packetVars, endpointVars>>

WorldInit ==
    /\ world \in {"sound", "troubled", "chips", "frames", "endpoint"}
    /\ Init /\ PacketInit
    /\ ProbeInit /\ (world # "chips" => case = AnyCase)
    /\ EndpointInit /\ (world # "endpoint" => double)

WorldNext ==
    /\ UNCHANGED world
    /\ \/ world = "troubled" /\ Next /\ UNCHANGED <<probeVars, packetVars, endpointVars>>
       \/ world = "sound" /\ Sound!Next /\ UNCHANGED <<probeVars, packetVars, endpointVars>>
       \/ world = "chips" /\ ProbeNext /\ UNCHANGED <<vars, packetVars, endpointVars>>
       \/ world = "frames" /\ PacketNext /\ UNCHANGED <<vars, probeVars, endpointVars>>
       \/ world = "endpoint" /\ EndpointNext /\ UNCHANGED <<vars, probeVars, packetVars>>

\* In the sound world the main loop keeps going, and a core that was told to
\* halt does so.  GdbPacket and GdbEndpoint explain the fairness of
\* their worlds.
WorldSpec ==
    /\ WorldInit /\ [][WorldNext]_worldVars
    /\ WF_vars(world = "sound" /\ Sound!LoopExit)
    /\ WF_vars(world = "sound" /\ (Sound!PollRunning \/ Sound!PollHalted))
    /\ WF_vars(world = "sound" /\ Sound!ReadChar)
    /\ WF_vars(world = "sound" /\ Sound!Detach /\ ~dtr)
    /\ WF_vars(world = "sound" /\ Sound!CoreObeys)
    /\ WF_packetVars(world = "frames" /\ gdb_if_getchar) /\ WF_packetVars(world = "frames" /\ NextPacket)
    /\ WF_endpointVars(world = "endpoint" /\ gdb_usb_out_cb) /\ WF_endpointVars(world = "endpoint" /\ gdb_if_update_buf)
    /\ WF_endpointVars(world = "endpoint" /\ ReadGdbChar) /\ WF_endpointVars(world = "endpoint" /\ WritePacket)
    /\ WF_endpointVars(world = "endpoint" /\ HostReads)

---------------------------------------------------------------------------
\* GDB gets one stop reply for each resume or '?', and none unasked, from the
\* poll loop of main.c and gdb_main.c.
RepliesOwed == world = "sound" => StopRepliesOwed

\* A target that GDB detached from is really released ("Resume target and disable
\* debug, re-enabling interrupts in the process", cortexm.c:851), and when the
\* port is closed for good, the loop of main.c lets the target go.
Released == world = "sound" => ([]LastReleased /\ PortClosedReleases)

\* A Ctrl-C, or any other halt, is reported: GDB is not left waiting for a
\* target that stopped (gdb_poll_target).
Reported == world = "sound" => StopReported

=============================================================================
