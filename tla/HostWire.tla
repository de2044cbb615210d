------------------------------ MODULE HostWire ------------------------------
(***************************************************************************)
(* The channels between the host and the probe, side by side: GDB's frames *)
(* with their acks, the serial port in both directions, and the trace.     *)
(* They share no state, so that a behaviour exercises one of them, which   *)
(* the initial state chooses, while the others rest.                       *)
(***************************************************************************)
EXTENDS GdbLink, UartEndpoint, AuxToHost, TraceSwo

VARIABLE part

hostVars == <<part, linkVars, uartVars, auxHostVars, traceVars>>

UartRests == mode = "block" /\ ~rtt_enabled

HostInit ==
    /\ part \in {"link", "uart", "aux", "trace"}
    /\ LinkInit
    /\ UartInit /\ (part # "uart" => UartRests)
    /\ AuxHostInit /\ TraceInit

HostNext ==
    /\ UNCHANGED part
    /\ \/ part = "link" /\ LinkNext /\ UNCHANGED <<uartVars, auxHostVars, traceVars>>
       \/ part = "uart" /\ UartNext /\ UNCHANGED <<linkVars, auxHostVars, traceVars>>
       \/ part = "aux" /\ AuxHostNext /\ UNCHANGED <<linkVars, uartVars, traceVars>>
       \/ part = "trace" /\ TraceNext /\ UNCHANGED <<linkVars, uartVars, auxHostVars>>

\* The part that is exercised is fair in the way its module explains.
HostSpec ==
    /\ HostInit /\ [][HostNext]_hostVars
    /\ WF_linkVars(part = "link" /\ GetPacket) /\ WF_linkVars(part = "link" /\ Execute)
    /\ WF_linkVars(part = "link" /\ PollChar) /\ WF_linkVars(part = "link" /\ GetAck)
    /\ WF_linkVars(part = "link" /\ PollHalted /\ probe = "stopping")
    /\ WF_linkVars(part = "link" /\ GdbWaitsAck) /\ WF_linkVars(part = "link" /\ GdbWaitsReply)
    /\ WF_uartVars(part = "uart" /\ DmaShift) /\ WF_uartVars(part = "uart" /\ DmaDone)
    /\ WF_uartVars(part = "uart" /\ PollRtt)
    /\ WF_auxHostVars(part = "aux" /\ aux_serial_dma_receive_isr) /\ WF_auxHostVars(part = "aux" /\ aux_serial_receive_isr)
    /\ WF_auxHostVars(part = "aux" /\ debug_serial_send_callback) /\ WF_auxHostVars(part = "aux" /\ usb_serial_set_config)
    /\ WF_auxHostVars(part = "aux" /\ LineIdle) /\ WF_auxHostVars(part = "aux" /\ HostTakes)
    /\ WF_traceVars(part = "trace" /\ SWO_DMA_ISR) /\ WF_traceVars(part = "trace" /\ UsbDrain)
    /\ WF_traceVars(part = "trace" /\ HostTakesTrace)

=============================================================================
