---------------------------- MODULE GdbEndpoint ----------------------------
(***************************************************************************)
(* GDB's characters between the main loop and the USB endpoint             *)
(* (platforms/stm32/gdb_if.c).  On some chips an interrupt moves a packet  *)
(* to a second buffer and keeps the host from sending until the main loop  *)
(* has emptied it, on the others the main loop reads the endpoint itself.  *)
(* The host may close and open the port at any time.                       *)
(*                                                                         *)
(* A character is the number of its place in its stream; 0 is the null     *)
(* character that ends a transfer of full packets.                         *)
(***************************************************************************)
EXTENDS Integers, Sequences

CONSTANTS GdbPacketSize, MaxFromHost, MaxToHost   \* CDCACM_PACKET_SIZE, characters each way

ASSUME EndpointAssumption ==
    /\ GdbPacketSize \in Nat \ {0}
    /\ MaxFromHost \in Nat /\ MaxToHost \in Nat

VARIABLES
    double,                \* double_buffer_out is compiled in
    ep_full, ep_out,       \* the packet in the endpoint
    out_nak,               \* the endpoint refuses packets
    double_buffer,         \* double_buffer_out, count_new characters
    buffer_out, out_ptr,
    from_host, taken,      \* characters the host sent, characters the main loop read
    gdb_dtr,               \* gdb_serial_dtr
    buffer_in, putting,    \* characters to send; "fill", "write", "flush" or "null"
    ep_in,                 \* the packet on its way to the host
    put, host_in,          \* characters put, characters the host received
    unheard                \* characters were put while the port was closed

outVars == <<ep_full, ep_out, out_nak, double_buffer, buffer_out, out_ptr, from_host, taken>>
inVars == <<buffer_in, putting, ep_in, put, host_in, unheard>>
endpointVars == <<double, gdb_dtr, outVars, inVars>>

EndpointInit ==
    /\ double \in BOOLEAN /\ gdb_dtr = TRUE
    /\ ep_full = FALSE /\ ep_out = <<>> /\ out_nak = FALSE /\ double_buffer = <<>>
    /\ buffer_out = <<>> /\ out_ptr = 0 /\ from_host = 0 /\ taken = <<>>
    /\ buffer_in = <<>> /\ putting = "fill" /\ ep_in = <<>> /\ put = 0 /\ host_in = <<>> /\ unheard = FALSE

---------------------------------------------------------------------------
(* From the host.                                                          *)

\* A packet, which may be empty.
HostSendsGdb ==
    \E n \in 0..GdbPacketSize :
        /\ gdb_dtr /\ ~ep_full /\ ~out_nak /\ from_host + n <= MaxFromHost
        /\ ep_full' = TRUE /\ ep_out' = [i \in 1..n |-> from_host + i]
        /\ from_host' = from_host + n
        /\ UNCHANGED <<double, gdb_dtr, out_nak, double_buffer, buffer_out, out_ptr, taken, inVars>>

NakAlways == TRUE   \* mutant: an empty packet closes the endpoint, too
NakUntilRead == ep_out # <<>>

gdb_usb_out_cb ==
    /\ double /\ ep_full
    /\ ep_full' = FALSE /\ double_buffer' = ep_out /\ out_nak' = NakUntilRead
    /\ UNCHANGED <<double, gdb_dtr, ep_out, buffer_out, out_ptr, from_host, taken, inVars>>

Consumed == out_ptr >= Len(buffer_out)

\* With interrupts masked where there is a second buffer.
gdb_if_update_buf ==
    /\ putting = "fill" /\ Consumed /\ gdb_dtr
    /\ IF double
       THEN /\ double_buffer # <<>>
            /\ buffer_out' = double_buffer /\ double_buffer' = <<>> /\ out_ptr' = 0 /\ out_nak' = FALSE
            /\ UNCHANGED <<ep_full, ep_out>>
       ELSE /\ buffer_out' = IF ep_full THEN ep_out ELSE <<>>
            /\ out_ptr' = 0 /\ ep_full' = FALSE
            /\ UNCHANGED <<ep_out, out_nak, double_buffer>>
    /\ UNCHANGED <<double, gdb_dtr, from_host, taken, inVars>>

\* gdb_if_getchar and gdb_if_getchar_to; a closed port and a timeout change nothing.
ReadGdbChar ==
    /\ putting = "fill" /\ ~Consumed
    /\ taken' = Append(taken, buffer_out[out_ptr + 1])
    /\ out_ptr' = out_ptr + 1
    /\ UNCHANGED <<double, gdb_dtr, ep_full, ep_out, out_nak, double_buffer, buffer_out, from_host, inVars>>

---------------------------------------------------------------------------
(* To the host.                                                            *)

gdb_if_putchar(flush) ==
    LET full == Len(buffer_in) + 1 = GdbPacketSize IN
    /\ putting = "fill" /\ put < MaxToHost
    /\ put' = put + 1
    /\ IF (flush \/ full) /\ ~gdb_dtr
       THEN buffer_in' = <<>> /\ unheard' = TRUE /\ UNCHANGED putting
       ELSE /\ buffer_in' = Append(buffer_in, put + 1)
            /\ putting' = IF flush THEN "flush" ELSE IF full THEN "write" ELSE "fill"
            /\ UNCHANGED unheard
    /\ UNCHANGED <<double, gdb_dtr, outVars, ep_in, host_in>>

\* It waits for the endpoint, also when the port has been closed.
WritePacket ==
    /\ putting \in {"write", "flush", "null"} /\ ep_in = <<>>
    /\ ep_in' = IF putting = "null" THEN <<0>> ELSE buffer_in
    /\ putting' = IF putting = "flush" /\ Len(buffer_in) = GdbPacketSize THEN "null" ELSE "fill"
    /\ buffer_in' = <<>>
    /\ UNCHANGED <<double, gdb_dtr, outVars, put, host_in, unheard>>

\* The host reads while the port is open.
HostReads ==
    /\ gdb_dtr /\ ep_in # <<>>
    /\ host_in' = host_in \o ep_in /\ ep_in' = <<>>
    /\ UNCHANGED <<double, gdb_dtr, outVars, buffer_in, putting, put, unheard>>

\* gdb_serial_control_request: the host opens and closes the port.
SetControlLineState ==
    /\ gdb_dtr' = ~gdb_dtr
    /\ UNCHANGED <<double, outVars, inVars>>

EndpointNext ==
    \/ HostSendsGdb \/ gdb_usb_out_cb \/ gdb_if_update_buf \/ ReadGdbChar
    \/ (\E flush \in BOOLEAN : gdb_if_putchar(flush)) \/ WritePacket \/ HostReads \/ SetControlLineState

\* The main loop goes on, interrupts are served, and the host reads while the port is open.
EndpointFairness ==
    /\ WF_endpointVars(gdb_usb_out_cb) /\ WF_endpointVars(gdb_if_update_buf)
    /\ WF_endpointVars(ReadGdbChar) /\ WF_endpointVars(WritePacket) /\ WF_endpointVars(HostReads)

EndpointSpec == EndpointInit /\ [][EndpointNext]_endpointVars /\ EndpointFairness

---------------------------------------------------------------------------
Counts(s) == \A i \in 1..Len(s) : s[i] = i
ReadInOrder == Counts(taken)
Heard == SelectSeq(host_in, LAMBDA c : c # 0)

\* The main loop reads what the host sent, and the host what the probe put, in order,
\* nothing twice and nothing missing but what was put while the port was closed.
\* While the port stays open, nothing is left behind, neither a packet nor characters
\* that were flushed, and the endpoint is open for the next packet again and again.
GdbStream ==
    /\ []ReadInOrder
    /\ []\A i \in 1..(Len(Heard) - 1) : Heard[i] < Heard[i + 1]
    /\ [](~unheard => Counts(Heard))
    /\ []<>(~gdb_dtr \/ (Len(taken) = from_host /\ ~out_nak /\ putting = "fill" /\ ep_in = <<>>))

=============================================================================
