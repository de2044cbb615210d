----------------------------- MODULE GdbPacket -----------------------------
(***************************************************************************)
(* gdb_getpacket (gdb_packet.c), character by character: GDB's frames      *)
(* $body#cc, with escapes and a checksum, among noise, packets of the      *)
(* probe's own remote protocol (!...#) and the end of transmission that    *)
(* gdb_if_getchar returns for a closed port.                               *)
(*                                                                         *)
(* The alphabet has one character of each kind: the three frame marks, the *)
(* escape, a digit, and the end of transmission.  Checksums count modulo 4 *)
(* and have two binary digits.                                             *)
(***************************************************************************)
EXTENDS Integers, Sequences, SequencesExt

CONSTANTS
    Size,      \* of the packet buffer
    Window,    \* characters of the input that the model remembers
    EscapedHash  \* the host also escapes a character whose escape is a '#'

ASSUME PacketAssumption == Size \in Nat \ {0} /\ Window \in Nat \ {0} /\ EscapedHash \in BOOLEAN

Chars == {"$", "!", "#", "}", "1", "eot"}

VARIABLES
    st,        \* where gdb_getpacket waits for a character, "done" or "eot" when it returned
    packet,    \* what is in the buffer so far
    csum,      \* sum of the characters of the body
    ck,        \* first character of the checksum
    closed,    \* the port is closed
    recent     \* the last characters since a packet was looked for

packetVars == <<st, packet, csum, ck, closed, recent>>

PacketInit ==
    /\ st = "start"
    /\ packet = <<>> /\ csum = 0 /\ ck = "eot"
    /\ closed = FALSE
    /\ recent = <<>>

---------------------------------------------------------------------------
Val(c) == CASE c = "1" -> 1 [] c = "!" -> 2 [] c = "}" -> 3 [] c = "$" -> 2 [] OTHER -> 0

\* An escaped character stands for the one that differs from it in one bit.
Unescape(c) == CASE c = "1" -> "$" [] c = "$" -> "1" [] c = "eot" -> "#" [] c = "#" -> "eot"
                 [] c = "!" -> "}" [] c = "}" -> "!"

\* strtol of the two characters of the checksum.
Strtol(a, b) == IF a # "1" THEN 0 ELSE IF b = "1" THEN 3 ELSE 1

\* What the code does with a character, by the place where it waits for it.

\* Lines 42-52: a start of packet.
AtStart(c) ==
    /\ st = "start"
    /\ st' = CASE c = "eot" -> "eot" [] c = "$" -> "body" [] c = "!" -> "remote" [] OTHER -> "start"
    /\ packet' = <<>> /\ csum' = 0
    /\ UNCHANGED ck

\* The buffer takes Size characters, and the zero that ends them.
Full == Len(packet) = Size

RemoteEndsAtMarks(c) == c \in {"#", "$"}   \* mutant: a full buffer does not end the packet
RemoteEnds(c) == c \in {"#", "$"} \/ (Full /\ c # "!")

\* Lines 56-92: a packet of the remote protocol.
AtRemote(c) ==
    /\ st = "remote"
    /\ packet' = IF c = "!" THEN <<>>
                 ELSE IF Full \/ RemoteEnds(c) THEN packet ELSE Append(packet, c)
    /\ st' = IF RemoteEnds(c) THEN "start" ELSE "remote"
    /\ UNCHANGED <<csum, ck>>

RestartedKeepsSum == packet' = <<>> /\ csum' = csum   \* mutant: the sum goes on
Restarted == packet' = <<>> /\ csum' = 0

\* Lines 101-122: the body of a frame.
AtBody(c) ==
    /\ st = "body"
    /\ \/ /\ c = "#" \/ Full
          /\ st' = "ck1"
          /\ UNCHANGED <<packet, csum>>
       \/ /\ ~Full
          /\ c = "$"
          /\ Restarted
          /\ UNCHANGED st
       \/ /\ ~Full
          /\ c = "}"
          /\ st' = "escape"
          /\ UNCHANGED <<packet, csum>>
       \/ /\ ~Full
          /\ c \notin {"#", "$", "}"}
          /\ packet' = Append(packet, c) /\ csum' = (csum + Val(c)) % 4
          /\ UNCHANGED st
    /\ UNCHANGED ck

\* Lines 115-118; the loop's condition looks at the character once more.
AtEscape(c) ==
    /\ st = "escape"
    /\ c = "#" => EscapedHash
    /\ packet' = Append(packet, Unescape(c))
    /\ csum' = (csum + Val("}") + Val(c)) % 4
    /\ st' = IF c = "#" THEN "ck1" ELSE "body"
    /\ UNCHANGED ck

AtChecksum1(c) ==
    /\ st = "ck1"
    /\ ck' = c
    /\ st' = "ck2"
    /\ UNCHANGED <<packet, csum>>

\* Lines 124-134: ack and return, or nack and start over.
AtChecksum2(c) ==
    /\ st = "ck2"
    /\ st' = IF csum = Strtol(ck, c) THEN "done" ELSE "start"
    /\ UNCHANGED <<packet, csum, ck>>

Remember(c) ==
    recent' = IF st \in {"start", "remote"} THEN <<c>>
              ELSE IF Len(recent) < Window THEN Append(recent, c)
              ELSE Append(Tail(recent), c)

\* A character of the host, or the end of transmission once the port is closed.
gdb_if_getchar ==
    /\ \E c \in IF closed THEN {"eot"} ELSE Chars :
          /\ \/ AtStart(c) \/ AtRemote(c) \/ AtBody(c) \/ AtEscape(c)
             \/ AtChecksum1(c) \/ AtChecksum2(c)
          /\ Remember(c)
    /\ UNCHANGED closed

\* The main loop handles the packet and asks for the next one.
NextPacket ==
    /\ st \in {"done", "eot"}
    /\ st' = "start"
    /\ packet' = <<>> /\ csum' = 0
    /\ UNCHANGED <<ck, closed, recent>>

HostCloses ==
    /\ ~closed
    /\ closed' = TRUE
    /\ UNCHANGED <<st, packet, csum, ck, recent>>

PacketNext == gdb_if_getchar \/ NextPacket \/ HostCloses

PacketSpec == PacketInit /\ [][PacketNext]_packetVars /\ WF_packetVars(gdb_if_getchar) /\ WF_packetVars(NextPacket)

---------------------------------------------------------------------------
(* The reference: what a frame is.                                         *)

\* A body has no bare '$' or '#': the escapes pair off from the left.
EscapedAt(b, i) ==
    \E k \in 1..i : /\ b[i - 1] = "}" /\ k % 2 = 1
                    /\ \A j \in (i - k)..(i - 1) : b[j] = "}"
                    /\ i - k = 1 \/ b[i - k - 1] # "}"
IsEscaped(b, i) == i > 1 /\ EscapedAt(b, i)
IsBody(b) ==
    /\ \A i \in 1..Len(b) : b[i] \in {"$", "#"} => IsEscaped(b, i)
    /\ Len(b) > 0 /\ b[Len(b)] = "}" => IsEscaped(b, Len(b))

\* The characters of the body that are not escape marks, unescaped.
Kept(b) == {i \in 1..Len(b) : b[i] # "}" \/ IsEscaped(b, i)}
Decode(b) ==
    LET order == SetToSortSeq(Kept(b), <)
    IN [n \in 1..Len(order) |-> IF IsEscaped(b, order[n]) THEN Unescape(b[order[n]]) ELSE b[order[n]]]
Checksum(b) == FoldSeq(LAMBDA c, acc : acc + Val(c), 0, b) % 4

\* What gdb_putpacket sends for a packet, between the '$' and the '#'.
gdb_next_char(c) == IF c \in {"$", "#", "}"} THEN <<"}", Unescape(c)>> ELSE <<c>>
SentBody(p) == FlattenSeq([i \in 1..Len(p) |-> gdb_next_char(p[i])])

\* A packet is returned only for a frame whose checksum is right, and it is
\* the decoded body of that frame, whatever came before it: noise, a frame
\* that was cut off, a packet of the remote protocol.  It fits the buffer (a
\* body longer than that is cut at its end).
PacketIsFrame ==
    /\ Len(packet) <= Size
    /\ st = "done" /\ Len(packet) < Size =>
        \E i \in 1..(Len(recent) - 3) :
            LET n == Len(recent)
                body == SubSeq(recent, i + 1, n - 3)
            IN
            /\ recent[i] = "$" /\ recent[n - 2] = "#"
            /\ IsBody(body)
            /\ packet = Decode(body)
            /\ Checksum(body) = Strtol(recent[n - 1], recent[n])

\* What gdb_putpacket makes of a packet is a body, and decodes to the packet.
SentIsFrame == IsBody(SentBody(packet)) /\ Decode(SentBody(packet)) = packet

\* gdb_getpacket and gdb_putpacket agree with the protocol on what a frame is.
FramesExact == PacketIsFrame /\ SentIsFrame

\* When the port is closed, gdb_getpacket returns the end of transmission,
\* wherever in a packet it was.
CloseIsSeen == closed ~> (st = "eot")

=============================================================================
