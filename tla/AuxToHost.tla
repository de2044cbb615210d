----------------------------- MODULE AuxToHost -----------------------------
(***************************************************************************)
(* The way from the AUX serial port to the host (aux_serial.c,             *)
(* usb_serial.c): DMA fills a circular buffer, interrupts at its middle,   *)
(* at its end and when the line falls idle start a transfer if none is     *)
(* under way, and the end of a transfer starts the next one.  The probe's  *)
(* own debug output shares the endpoint, and so does real time transfer.   *)
(*                                                                         *)
(* The three interrupts mask each other, so that each is one step.  The    *)
(* host may reset the bus and configure the device again.                  *)
(***************************************************************************)
EXTENDS Integers, Sequences

CONSTANTS
    RxSize,        \* AUX_UART_BUFFER_SIZE
    RxPacket,      \* characters in a packet, CDCACM_PACKET_SIZE - 1
    MaxLine,       \* characters that arrive on the line
    MaxDebug,      \* characters of debug output
    MaxOther,      \* packets of real time transfer
    MaxResets      \* resets of the bus

ASSUME AuxToHostAssumption ==
    {RxSize, RxPacket, MaxLine, MaxDebug, MaxOther, MaxResets} \subseteq Nat /\ RxSize > 1

VARIABLES
    receive_buffer, rx_pos,   \* aux_serial_receive_buffer, where DMA writes next
    read_index,               \* aux_serial_receive_read_index
    line,                     \* the line is "busy" or "quiet"
    dma_irq, idle_irq, usb_irq,   \* interrupts that are pending
    send_complete,            \* debug_serial_send_complete
    debug_buffer,             \* characters in debug_serial_debug_buffer
    usb_config,
    attached,                 \* the host has configured the device and reads
    in_flight,                \* the packet in the endpoint, or NoPacket
    arrived, written, others, resets,   \* counters
    got,                      \* for each source, the characters the host received
    gap                       \* characters were overrun, drained or lost in a reset

lineVars == <<receive_buffer, rx_pos, arrived, line>>
auxHostVars == <<lineVars, read_index, dma_irq, idle_irq, usb_irq, send_complete, debug_buffer, usb_config,
                 attached, in_flight, written, others, resets, got, gap>>

NoPacket == [from |-> "none", data |-> <<>>]
Packet(from, data) == [from |-> from, data |-> data]

AuxHostInit ==
    /\ receive_buffer = [i \in 0..(RxSize - 1) |-> 0] /\ rx_pos = 0
    /\ read_index = 0 /\ line = "quiet"
    /\ dma_irq = FALSE /\ idle_irq = FALSE /\ usb_irq = FALSE
    /\ send_complete = TRUE /\ debug_buffer = <<>>
    /\ usb_config = 0 /\ attached = FALSE /\ in_flight = NoPacket
    /\ arrived = 0 /\ written = 0 /\ others = 0 /\ resets = 0
    /\ got = [s \in {"aux", "debug"} |-> <<>>] /\ gap = FALSE

---------------------------------------------------------------------------
(* The probe.                                                              *)

Waiting == (rx_pos + RxSize - read_index) % RxSize
AtMost(n) == IF n > RxPacket THEN RxPacket ELSE n

\* debug_serial_fifo_send: only as much as the endpoint took leaves the buffer.
Took == in_flight = NoPacket

fifo_send(debug) ==
    IF ~Took
    THEN debug_buffer' = debug /\ UNCHANGED <<in_flight, read_index>>
    ELSE IF debug # <<>>
    THEN /\ in_flight' = Packet("debug", SubSeq(debug, 1, AtMost(Len(debug))))
         /\ debug_buffer' = SubSeq(debug, AtMost(Len(debug)) + 1, Len(debug))
         /\ UNCHANGED read_index
    ELSE /\ in_flight' = Packet("aux", [i \in 1..AtMost(Waiting) |-> receive_buffer[(read_index + i - 1) % RxSize]])
         /\ read_index' = (read_index + AtMost(Waiting)) % RxSize
         /\ UNCHANGED debug_buffer

\* There is nothing to send, or nobody to send it to.
Drained(debug) ==
    /\ read_index' = rx_pos /\ debug_buffer' = <<>>
    /\ send_complete' = TRUE
    /\ gap' = (gap \/ Waiting > 0 \/ debug # <<>>)
    /\ UNCHANGED in_flight

send_data(debug) ==
    IF usb_config # 1 \/ (Waiting = 0 /\ debug = <<>>)
    THEN Drained(debug)
    ELSE send_complete' = FALSE /\ fifo_send(debug) /\ UNCHANGED gap

debug_serial_run(debug) ==
    IF send_complete
    THEN send_data(debug)
    ELSE debug_buffer' = debug /\ UNCHANGED <<read_index, send_complete, in_flight, gap>>

\* Half of the buffer is full, or all of it.
aux_serial_dma_receive_isr ==
    /\ dma_irq /\ dma_irq' = FALSE
    /\ debug_serial_run(debug_buffer)
    /\ UNCHANGED <<lineVars, idle_irq, usb_irq, usb_config, attached, written, others, resets, got>>

\* The line is idle.
aux_serial_receive_isr ==
    /\ idle_irq /\ idle_irq' = FALSE
    /\ debug_serial_run(debug_buffer)
    /\ UNCHANGED <<lineVars, dma_irq, usb_irq, usb_config, attached, written, others, resets, got>>

\* The host has taken a packet.
debug_serial_send_callback ==
    /\ usb_irq /\ usb_irq' = FALSE
    /\ send_data(debug_buffer)
    /\ UNCHANGED <<lineVars, dma_irq, idle_irq, usb_config, attached, written, others, resets, got>>

\* The main program writes debug output: n is what there is room for.
debug_serial_debug_write ==
    \E n \in 0..2 :
        /\ written + n <= MaxDebug /\ Len(debug_buffer) + n < RxSize
        /\ written' = written + n
        /\ debug_serial_run(debug_buffer \o [i \in 1..n |-> written + i])
        /\ UNCHANGED <<lineVars, dma_irq, idle_irq, usb_irq, usb_config, attached, others, resets, got>>

\* rtt_write waits for the endpoint.
rtt_write ==
    /\ usb_config = 1 /\ in_flight = NoPacket /\ others < MaxOther
    /\ in_flight' = Packet("rtt", <<>>)
    /\ others' = others + 1
    /\ UNCHANGED <<lineVars, read_index, dma_irq, idle_irq, usb_irq, send_complete, debug_buffer, usb_config,
                   attached, written, resets, got, gap>>

NoticeNone == NoPacket   \* mutant: no notification
Notice == Packet("notice", <<>>)

\* Setting up the endpoint empties it; then a notification is written to it.
usb_serial_set_config ==
    /\ ~attached
    /\ attached' = TRUE /\ usb_config' = 1
    /\ in_flight' = Notice
    /\ gap' = (gap \/ in_flight.data # <<>>)
    /\ UNCHANGED <<lineVars, read_index, dma_irq, idle_irq, usb_irq, send_complete, debug_buffer,
                   written, others, resets, got>>

---------------------------------------------------------------------------
(* The line, the DMA and the host, which are external.                     *)

LineChar ==
    /\ arrived < MaxLine
    /\ receive_buffer' = [receive_buffer EXCEPT ![rx_pos] = arrived + 1]
    /\ rx_pos' = (rx_pos + 1) % RxSize
    /\ arrived' = arrived + 1 /\ line' = "busy"
    /\ dma_irq' = (dma_irq \/ rx_pos' \in {0, RxSize \div 2})
    /\ gap' = (gap \/ Waiting = RxSize - 1)
    /\ UNCHANGED <<read_index, idle_irq, usb_irq, send_complete, debug_buffer, usb_config,
                   attached, in_flight, written, others, resets, got>>

LineIdle ==
    /\ line = "busy" /\ line' = "quiet" /\ idle_irq' = TRUE
    /\ UNCHANGED <<receive_buffer, rx_pos, arrived, read_index, dma_irq, usb_irq, send_complete, debug_buffer,
                   usb_config, attached, in_flight, written, others, resets, got, gap>>

HostTakes ==
    /\ attached /\ in_flight # NoPacket
    /\ got' = [s \in DOMAIN got |-> IF s = in_flight.from THEN got[s] \o in_flight.data ELSE got[s]]
    /\ in_flight' = NoPacket /\ usb_irq' = TRUE
    /\ UNCHANGED <<lineVars, read_index, dma_irq, idle_irq, send_complete, debug_buffer, usb_config,
                   attached, written, others, resets, gap>>

\* A packet in the endpoint is lost, and so is the report of one that was taken.
BusReset ==
    /\ attached /\ resets < MaxResets
    /\ resets' = resets + 1
    /\ attached' = FALSE /\ in_flight' = NoPacket /\ usb_irq' = FALSE
    /\ gap' = (gap \/ in_flight.data # <<>>)
    /\ UNCHANGED <<lineVars, read_index, dma_irq, idle_irq, send_complete, debug_buffer, usb_config,
                   written, others, got>>

AuxHostNext ==
    \/ aux_serial_dma_receive_isr \/ aux_serial_receive_isr \/ debug_serial_send_callback
    \/ debug_serial_debug_write \/ rtt_write \/ usb_serial_set_config
    \/ LineChar \/ LineIdle \/ HostTakes \/ BusReset

\* Interrupts are served, a line that is busy falls idle, and the host configures
\* the device and goes on reading.
AuxHostFairness ==
    /\ WF_auxHostVars(aux_serial_dma_receive_isr) /\ WF_auxHostVars(aux_serial_receive_isr)
    /\ WF_auxHostVars(debug_serial_send_callback) /\ WF_auxHostVars(usb_serial_set_config)
    /\ WF_auxHostVars(LineIdle) /\ WF_auxHostVars(HostTakes)

AuxHostSpec == AuxHostInit /\ [][AuxHostNext]_auxHostVars /\ AuxHostFairness

---------------------------------------------------------------------------
InSequence(s) ==
    /\ \A i \in 1..(Len(s) - 1) : s[i] < s[i + 1]
    /\ ~gap => \A i \in 1..Len(s) : s[i] = i

\* What arrived on the AUX port and what the probe has to say reaches the host in
\* order and nothing twice, and nothing is missing unless the buffer overran or the
\* bus was reset.  No transfer is forgotten: whatever shares the endpoint, and
\* after every reset, the buffers are empty again and again
\* (debug_serial_send_complete is only set when a transfer finds nothing to send).
AuxReceived ==
    /\ [](InSequence(got["aux"]) /\ InSequence(got["debug"]))
    /\ []<>(Waiting = 0 /\ debug_buffer = <<>> /\ in_flight = NoPacket)

=============================================================================
