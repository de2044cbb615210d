---------------------------- MODULE UartEndpoint ----------------------------
(***************************************************************************)
(* The USB endpoint that carries host data to the AUX serial port or, when *)
(* RTT is enabled, to the RTT buffer (usb_serial.c, aux_serial.c).  The    *)
(* AUX side has two transmit buffers: one is filled by the USB interrupt   *)
(* while the DMA sends the other.  Both sides open and close the flow      *)
(* control of the one endpoint.                                            *)
(***************************************************************************)
EXTENDS RttIf, Sequences

CONSTANTS
    AUX_UART_BUFFER_SIZE,
    MaxToggles    \* monitor commands that enable or disable RTT

ASSUME UartAssumption ==
    /\ AUX_UART_BUFFER_SIZE \in Nat /\ MaxToggles \in Nat
    /\ AUX_UART_BUFFER_SIZE >= CDCACM_PACKET_SIZE

VARIABLES
    rtt_enabled,
    toggles,
    transmit_buffer,   \* aux_serial_transmit_buffer[2]
    index,             \* aux_serial_transmit_buffer_index
    consumed,          \* aux_serial_transmit_buffer_consumed
    complete,          \* aux_serial_transmit_complete
    dma,               \* what the DMA sends: buffer, position, length
    aux_sent,          \* characters received for the AUX port
    aux_out,           \* characters that left the AUX port
    overruled          \* history: who needed the endpoint closed when the other opened it

auxVars == <<transmit_buffer, index, consumed, complete, dma, aux_sent, aux_out, overruled>>
uartVars == <<rttVars, rtt_enabled, toggles, auxVars>>

\* usb_serial_set_config gives the endpoint half the packet size.
MaxPacket == CDCACM_PACKET_SIZE \div 2

UartInit ==
    /\ RttInit
    /\ rtt_enabled \in BOOLEAN
    /\ toggles = 0
    /\ transmit_buffer = [i \in 0..1 |-> <<>>]
    /\ index = 0 /\ consumed = 0
    /\ complete = TRUE
    /\ dma = [buf |-> 1, pos |-> 0, len |-> 0]
    /\ aux_sent = 0 /\ aux_out = <<>> /\ overruled = {}

---------------------------------------------------------------------------
SwitchBuffersNoSwap(count) ==   \* mutant: the buffers are not swapped
    /\ dma' = [buf |-> index, pos |-> 0, len |-> count]
    /\ consumed' = 0
    /\ index' = index

\* aux_serial_switch_transmit_buffers
SwitchBuffers(count) ==
    /\ dma' = [buf |-> index, pos |-> 0, len |-> count]
    /\ consumed' = 0
    /\ index' = 1 - index

\* debug_serial_receive_callback closes the endpoint when the buffer that is
\* filled has no room for a packet.
NoSpace(count) == AUX_UART_BUFFER_SIZE - count < CDCACM_PACKET_SIZE

\* debug_serial_receive_callback and aux_serial_send.
AuxReceive(len) ==
    LET packet == [i \in 1..len |-> aux_sent + i]
        filled == SubSeq(transmit_buffer[index], 1, consumed) \o packet
    IN
    /\ ~rtt_enabled
    /\ ~nak
    /\ transmit_buffer' = [transmit_buffer EXCEPT ![index] = filled]
    /\ aux_sent' = aux_sent + len
    /\ IF complete
       THEN /\ complete' = FALSE
            /\ SwitchBuffers(consumed + len)
       ELSE /\ consumed' = consumed + len
            /\ UNCHANGED <<complete, index, dma>>
    /\ nak' = NoSpace(consumed')
    /\ UNCHANGED <<recv_buf, recv_head, recv_tail, mode, pc, ch, sent, lost>>
    /\ UNCHANGED <<rtt_enabled, toggles, aux_out, overruled>>

HostSendsAux ==
    \E len \in 1..MaxPacket : aux_sent + len <= MaxBytes /\ AuxReceive(len)

\* With RTT enabled the callback hands the packet to rtt_serial_receive_callback.
HostSendsRtt ==
    /\ rtt_enabled
    /\ \E len \in 1..MaxPacket : sent + len <= MaxBytes /\ Receive(len)
    /\ UNCHANGED auxVars /\ UNCHANGED <<rtt_enabled, toggles>>

\* The main loop polls RTT.
PollRtt ==
    /\ rtt_enabled
    /\ GetChar
    /\ overruled' = overruled \cup {u \in {"aux"} : pc = "open" /\ NoSpace(consumed)}
    /\ UNCHANGED <<transmit_buffer, index, consumed, complete, dma, aux_sent, aux_out>>
    /\ UNCHANGED <<rtt_enabled, toggles>>

\* The DMA sends one character.
DmaShift ==
    /\ dma.pos < dma.len
    /\ aux_out' = Append(aux_out, transmit_buffer[dma.buf][dma.pos + 1])
    /\ dma' = [dma EXCEPT !.pos = @ + 1]
    /\ UNCHANGED <<transmit_buffer, index, consumed, complete, aux_sent, overruled, rtt_enabled, toggles>>
    /\ UNCHANGED rttVars

BufferReadyLate == consumed > 1   \* mutant: a single character does not count
BufferReady == consumed > 0

Reopen ==
    /\ nak' = FALSE
    /\ overruled' = overruled \cup {u \in {"rtt"} : recv_set_nak(recv_bytes_free)}

\* aux_serial_dma_transmit_isr
DmaDone ==
    /\ ~complete
    /\ dma.pos = dma.len
    /\ IF BufferReady
       THEN SwitchBuffers(consumed) /\ Reopen /\ UNCHANGED complete
       ELSE complete' = TRUE /\ UNCHANGED <<index, consumed, dma, nak, overruled>>
    /\ UNCHANGED <<transmit_buffer, aux_sent, aux_out, rtt_enabled, toggles>>
    /\ UNCHANGED <<recv_buf, recv_head, recv_tail, mode, pc, ch, sent, lost>>

\* monitor rtt enable and disable: neither looks at the endpoint.
Toggle ==
    /\ toggles < MaxToggles
    /\ pc = "idle"
    /\ toggles' = toggles + 1
    /\ rtt_enabled' = ~rtt_enabled
    /\ UNCHANGED auxVars /\ UNCHANGED rttVars

UartNext == HostSendsAux \/ HostSendsRtt \/ PollRtt \/ DmaShift \/ DmaDone \/ Toggle

\* The DMA runs, its interrupt is served and the main loop keeps polling.
UartSpec == UartInit /\ [][UartNext]_uartVars /\ WF_uartVars(DmaShift) /\ WF_uartVars(DmaDone) /\ WF_uartVars(PollRtt)

---------------------------------------------------------------------------
UartTypeOK ==
    /\ RttTypeOK
    /\ rtt_enabled \in BOOLEAN /\ toggles \in 0..MaxToggles
    /\ index \in 0..1
    /\ consumed \in Nat
    /\ complete \in BOOLEAN /\ overruled \subseteq {"rtt", "aux"}
    /\ dma.buf \in 0..1 /\ dma.len \in Nat /\ dma.pos \in 0..dma.len
    /\ aux_sent \in 0..MaxBytes

\* Neither side reorders or repeats: the RTT ring buffer keeps its order across
\* every wrap, and what leaves the AUX port is what the host sent to it (the USB
\* interrupt never writes to the buffer that the DMA still reads), packets
\* staying inside their buffer, as long as rtt_getchar does not open the
\* endpoint that AUX closed: it does not ask, and after that nothing is claimed.
AuxFits == consumed <= AUX_UART_BUFFER_SIZE /\ dma.len <= AUX_UART_BUFFER_SIZE
AuxInOrder == \A i \in 1..Len(aux_out) : aux_out[i] = i
InOrder == RttInOrder /\ ("aux" \notin overruled => AuxFits /\ AuxInOrder)

\* A blocking RTT channel loses nothing on the endpoint it shares with AUX, as
\* long as the end of a transfer to the AUX port does not open the endpoint
\* while the RTT buffer is short of room: aux_serial_dma_transmit_isr does not ask.
SharedNoLoss == "rtt" \notin overruled => BlockingNoLoss

\* RTT was switched off while its buffer keeps the endpoint closed: only the end of
\* a transfer to the AUX port would open it, and none is under way.
Orphaned == ~rtt_enabled /\ complete

\* Everything the host sends to the AUX port leaves it, whatever happens to
\* RTT: again and again nothing is waiting.  And the endpoint does not stay
\* closed, unless it is Orphaned.
AuxDelivered ==
    /\ []<>(Len(aux_out) = aux_sent)
    /\ nak ~> (~nak \/ Orphaned)

=============================================================================
