------------------------------ MODULE TraceSwo ------------------------------
(***************************************************************************)
(* Capture of asynchronous trace output (traceswoasync.c): DMA fills the   *)
(* two halves of a buffer in turn, its interrupt copies a full half into a *)
(* ring of packets and tries to send one, and so does the end of a         *)
(* transfer to the host.  The DMA interrupt has the higher priority: it    *)
(* comes between any two steps of the USB interrupt, and a flag keeps the  *)
(* two out of each other's way.                                            *)
(*                                                                         *)
(* A packet is the number of its arrival.                                  *)
(***************************************************************************)
EXTENDS Integers, Sequences

CONSTANTS NUM_TRACE_PACKETS, MaxTrace   \* MaxTrace: packets that arrive

ASSUME TraceAssumption == NUM_TRACE_PACKETS \in Nat \ {0, 1} /\ MaxTrace \in Nat

VARIABLES
    pingpong,      \* the packets of the two halves
    half,          \* the half that DMA fills
    full,          \* halves whose interrupt is pending
    trace_rx_buf, write_index, trace_read,   \* the ring; read_index
    reentry_flag,
    drain,         \* where trace_buf_drain is in the USB interrupt
    endpoint,      \* the packet in the endpoint, 0 for none
    trace_irq,     \* the end of a transfer is to be handled
    traced, seen,  \* packets arrived, packets the host received
    dropped,       \* a packet was overwritten before it was copied or sent
    turned_away    \* since the last attempt to send, an interrupt found the flag set

traceVars == <<pingpong, half, full, trace_rx_buf, write_index, trace_read, reentry_flag, drain,
               endpoint, trace_irq, traced, seen, dropped, turned_away>>

TraceInit ==
    /\ pingpong = [h \in 0..1 |-> 0] /\ half = 0 /\ full = {}
    /\ trace_rx_buf = [i \in 0..(NUM_TRACE_PACKETS - 1) |-> 0]
    /\ write_index = 0 /\ trace_read = 0
    /\ reentry_flag = FALSE /\ drain = "out"
    /\ endpoint = 0 /\ trace_irq = FALSE
    /\ traced = 0 /\ seen = <<>> /\ dropped = FALSE /\ turned_away = FALSE

---------------------------------------------------------------------------
Succ(i) == (i + 1) % NUM_TRACE_PACKETS

\* DMA completes a half, whether or not the one before has been copied.
HalfFull ==
    /\ traced < MaxTrace
    /\ traced' = traced + 1
    /\ pingpong' = [pingpong EXCEPT ![half] = traced + 1]
    /\ half' = 1 - half /\ full' = full \cup {half}
    /\ dropped' = (dropped \/ half \in full)
    /\ UNCHANGED <<trace_rx_buf, write_index, trace_read, reentry_flag, drain, endpoint, trace_irq, seen, turned_away>>

SendAnyway(ring) ==   \* mutant: the packet counts as sent when the endpoint is busy
    IF endpoint = 0 THEN endpoint' = ring[trace_read] /\ trace_read' = Succ(trace_read)
    ELSE trace_read' = Succ(trace_read) /\ UNCHANGED endpoint

\* The packet is sent if the endpoint takes it.
SendNext(ring) ==
    IF endpoint = 0 THEN endpoint' = ring[trace_read] /\ trace_read' = Succ(trace_read)
    ELSE UNCHANGED <<endpoint, trace_read>>

\* With both halves full the later copy replaces the earlier one in the ring; a
\* full ring becomes an empty one.
SWO_DMA_ISR ==
    LET last == IF 1 \in full THEN pingpong[1] ELSE pingpong[0]
        ring == [trace_rx_buf EXCEPT ![write_index] = last]
    IN
    /\ full # {} /\ full' = {}
    /\ trace_rx_buf' = ring
    /\ write_index' = Succ(write_index)
    /\ dropped' = (dropped \/ full = {0, 1} \/ Succ(write_index) = trace_read)
    /\ IF reentry_flag
       THEN turned_away' = TRUE /\ UNCHANGED <<endpoint, trace_read>>
       ELSE /\ turned_away' = FALSE
            /\ IF write_index' # trace_read THEN SendNext(ring) ELSE UNCHANGED <<endpoint, trace_read>>
    /\ UNCHANGED <<pingpong, half, reentry_flag, drain, trace_irq, traced, seen>>

\* trace_buf_drain in the USB interrupt, which the DMA interrupt may interrupt.
DrainEnter ==
    /\ trace_irq /\ drain = "out"
    /\ trace_irq' = FALSE /\ reentry_flag' = TRUE /\ drain' = "test" /\ turned_away' = FALSE
    /\ UNCHANGED <<pingpong, half, full, trace_rx_buf, write_index, trace_read, endpoint, traced, seen, dropped>>

DrainTest ==
    /\ drain = "test"
    /\ drain' = IF write_index # trace_read THEN "write" ELSE "leave"
    /\ UNCHANGED <<pingpong, half, full, trace_rx_buf, write_index, trace_read, reentry_flag, endpoint,
                   trace_irq, traced, seen, dropped, turned_away>>

DrainWrite ==
    /\ drain = "write" /\ drain' = "leave"
    /\ SendNext(trace_rx_buf)
    /\ UNCHANGED <<pingpong, half, full, trace_rx_buf, write_index, reentry_flag,
                   trace_irq, traced, seen, dropped, turned_away>>

DrainLeave ==
    /\ drain = "leave" /\ drain' = "out" /\ reentry_flag' = FALSE
    /\ UNCHANGED <<pingpong, half, full, trace_rx_buf, write_index, trace_read, endpoint,
                   trace_irq, traced, seen, dropped, turned_away>>

\* The host takes the packet from the endpoint.
HostTakesTrace ==
    /\ endpoint # 0
    /\ seen' = Append(seen, endpoint)
    /\ endpoint' = 0 /\ trace_irq' = TRUE
    /\ UNCHANGED <<pingpong, half, full, trace_rx_buf, write_index, trace_read, reentry_flag, drain,
                   traced, dropped, turned_away>>

UsbDrain == DrainEnter \/ DrainTest \/ DrainWrite \/ DrainLeave
TraceNext == HalfFull \/ SWO_DMA_ISR \/ UsbDrain \/ HostTakesTrace

\* Both interrupts are served and the host goes on reading.
TraceSpec ==
    TraceInit /\ [][TraceNext]_traceVars
    /\ WF_traceVars(SWO_DMA_ISR) /\ WF_traceVars(UsbDrain) /\ WF_traceVars(HostTakesTrace)

---------------------------------------------------------------------------
TraceInOrder ==
    /\ \A i \in 1..(Len(seen) - 1) : seen[i] < seen[i + 1]
    /\ ~dropped => \A i \in 1..Len(seen) : seen[i] = i

Behind == write_index # trace_read

\* The host sees the trace in order and no packet twice, and all of it unless a
\* buffer overran, however the two interrupts come between each other.  Packets
\* that wait are sent, unless the DMA interrupt found trace_buf_drain under way:
\* then they wait for the next one.
TraceSent ==
    [](/\ TraceInOrder
       /\ Behind /\ ~turned_away => <>(~Behind \/ turned_away))

\* What the comment in trace_buf_drain promises: an interrupt that finds the
\* routine under way need not come in, since that run sends what there is.
TraceNeverLeft == []<>~Behind

=============================================================================
