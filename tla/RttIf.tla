------------------------------- MODULE RttIf -------------------------------
(***************************************************************************)
(* Host-to-target RTT data in the probe (platforms/stm32/rtt_if.c): the    *)
(* USB interrupt fills a ring buffer, the main loop empties it one         *)
(* character at a time, and both open and close the flow control of the    *)
(* endpoint.  The interrupt may come between any two accesses of the main  *)
(* loop; the main loop never runs inside the interrupt.                    *)
(*                                                                         *)
(* A character is the number of its place in the stream from the host.     *)
(***************************************************************************)
EXTENDS Integers

CONSTANTS
    RTT_DOWN_BUF_SIZE,
    CDCACM_PACKET_SIZE,
    Modes,     \* flags of the down channel: "skip", "trim", "block"
    MaxBytes   \* characters the host sends

ASSUME RttIfAssumption ==
    /\ CDCACM_PACKET_SIZE \in Nat \ {0}
    /\ RTT_DOWN_BUF_SIZE \in Nat
    /\ RTT_DOWN_BUF_SIZE > 2 * CDCACM_PACKET_SIZE     \* assert in recv_set_nak
    /\ Modes \subseteq {"skip", "trim", "block"}
    /\ MaxBytes \in Nat

VARIABLES
    recv_buf, recv_head, recv_tail,
    nak,        \* the endpoint refuses packets
    mode,       \* rtt_flag_skip, rtt_flag_block
    pc, ch,     \* rtt_getchar: where it is and the character it took
    sent,       \* characters received from the host so far
    lost        \* characters dropped so far

rttVars == <<recv_buf, recv_head, recv_tail, nak, mode, pc, ch, sent, lost>>

Index == 0..(RTT_DOWN_BUF_SIZE - 1)

RttInit ==
    /\ recv_buf = [i \in Index |-> 0]
    /\ recv_head = 0 /\ recv_tail = 0
    /\ nak = FALSE
    /\ mode \in Modes
    /\ pc = "idle" /\ ch = 0
    /\ sent = 0 /\ lost = 0

---------------------------------------------------------------------------
recv_bytes_free ==
    IF recv_tail <= recv_head THEN RTT_DOWN_BUF_SIZE - recv_head + recv_tail - 1
    ELSE recv_tail - recv_head - 1

recv_set_nak_none(free) == FALSE   \* mutant: no margin

\* True if flow control has to be closed.
recv_set_nak(free) == free < 2 * CDCACM_PACKET_SIZE

\* n characters of the packet go to the ring buffer.
Copy(n) ==
    /\ recv_buf' = [i \in Index |->
          LET k == (i - recv_head) % RTT_DOWN_BUF_SIZE IN
          IF k < n THEN sent + 1 + k ELSE recv_buf[i]]
    /\ recv_head' = (recv_head + n) % RTT_DOWN_BUF_SIZE

\* rtt_serial_receive_callback: a packet of len characters arrives.
Receive(len) ==
    LET free == recv_bytes_free
        n == IF mode = "skip" /\ len > free THEN 0
             ELSE IF len > free THEN free ELSE len
    IN
    /\ ~nak
    /\ Copy(n)
    /\ sent' = sent + len
    /\ lost' = lost + (len - n)
    /\ nak' = (mode = "block" /\ recv_set_nak(free - n))
    /\ UNCHANGED <<recv_tail, mode, pc, ch>>

HostSends ==
    \E len \in 1..CDCACM_PACKET_SIZE :
        /\ sent + len <= MaxBytes
        /\ Receive(len)

---------------------------------------------------------------------------
(* rtt_getchar, step by step.                                              *)

TakeChar ==
    /\ pc = "idle"
    /\ recv_head # recv_tail
    /\ ch' = recv_buf[recv_tail]
    /\ pc' = "advance"
    /\ UNCHANGED <<recv_buf, recv_head, recv_tail, nak, mode, sent, lost>>

Advance ==
    /\ pc = "advance"
    /\ recv_tail' = (recv_tail + 1) % RTT_DOWN_BUF_SIZE
    /\ pc' = "test"
    /\ UNCHANGED <<recv_buf, recv_head, nak, mode, ch, sent, lost>>

TestSpace ==
    /\ pc = "test"
    /\ pc' = IF recv_set_nak(recv_bytes_free) THEN "idle" ELSE "open"
    /\ UNCHANGED <<recv_buf, recv_head, recv_tail, nak, mode, ch, sent, lost>>

OpenFlow ==
    /\ pc = "open"
    /\ nak' = FALSE
    /\ pc' = "idle"
    /\ UNCHANGED <<recv_buf, recv_head, recv_tail, mode, ch, sent, lost>>

GetChar == TakeChar \/ Advance \/ TestSpace \/ OpenFlow

RttNext == HostSends \/ GetChar

RttSpec == RttInit /\ [][RttNext]_rttVars

---------------------------------------------------------------------------
\* The characters in the buffer, oldest first: count and i-th index.
Used == RTT_DOWN_BUF_SIZE - 1 - recv_bytes_free
Slot(i) == (recv_tail + i) % RTT_DOWN_BUF_SIZE

RttTypeOK ==
    /\ recv_buf \in [Index -> Nat]
    /\ recv_head \in Index /\ recv_tail \in Index
    /\ nak \in BOOLEAN
    /\ mode \in Modes
    /\ pc \in {"idle", "advance", "test", "open"}
    /\ ch \in Nat
    /\ sent \in 0..MaxBytes /\ lost \in 0..sent

\* A blocking channel loses nothing: whenever the endpoint is open there is
\* room for the packet that may arrive, even when the interrupt comes between
\* rtt_getchar's look at the free space and its opening of the flow control.
BlockingNoLoss == mode = "block" => lost = 0

\* Characters are delivered in the order in which the host sent them, none
\* twice: the buffer is increasing from tail to head and newer than what was
\* delivered last.
RttInOrder ==
    /\ \A i \in 1..(Used - 1) : recv_buf[Slot(i - 1)] < recv_buf[Slot(i)]
    /\ Used > 0 /\ pc # "advance" => ch < recv_buf[recv_tail]

=============================================================================
