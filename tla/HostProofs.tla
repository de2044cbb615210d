----------------------------- MODULE HostProofs -----------------------------
(***************************************************************************)
(* What passes between the host and the probe.  GDB's commands are executed*)
(* once, for any number of damaged frames, late acks and interrupts.  RTT's*)
(* margin of two packets suffices, for every size of the buffer and of the *)
(* packets that the assertion in recv_set_nak allows, by itself and on the *)
(* endpoint it shares with AUX; both sides keep the order.  And the main   *)
(* loop reads every character the host sends to GDB's endpoint, once and in*)
(* order, with the second buffer and without it.                           *)
(***************************************************************************)
EXTENDS GdbLink, UartEndpoint, GdbEndpoint, TLAPS

---------------------------------------------------------------------------
(* Packets.  A command is on its way from the time GDB sends it to the     *)
(* time GDB has the ack: as a frame, as the nack that asks for it again,   *)
(* or as the ack.  There is never more than one of these three, and before *)
(* the ack the command has not been taken.                                 *)

Kinds == {"frame", "+", "-", "int", "noise"}
Chars == [kind : Kinds, n : Nat, ok : BOOLEAN]

LinkTypes ==
    /\ toProbe \in Seq(Chars) /\ toGdb \in Seq(Chars)
    /\ probe \in {"get", "exec", "running", "stopping", "ack"}
    /\ gdb \in {"idle", "ack", "reply"}
    /\ cmd \in Nat /\ asks \in Nat /\ executed \in Seq(Nat)

\* The commands the probe has taken from the line.
Taken == IF probe = "exec" THEN Len(executed) + 1 ELSE Len(executed)

IsSign(c) == c.kind \in {"+", "-"}

\* What is on its way, and that it is one thing.
OneFrame == \A i, j \in 1..Len(toProbe) : IsFrame(toProbe[i]) /\ IsFrame(toProbe[j]) => i = j
OneSign == \A i, j \in 1..Len(toGdb) : IsSign(toGdb[i]) /\ IsSign(toGdb[j]) => i = j
NotBoth == \A i \in 1..Len(toProbe), j \in 1..Len(toGdb) : ~(IsFrame(toProbe[i]) /\ IsSign(toGdb[j]))

\* Before the ack the last command is still to be taken.
TakenOnce == (Taken = asks \/ (Taken = asks - 1 /\ gdb = "ack")) /\ cmd = Taken
FrameNew ==
    \A i \in 1..Len(toProbe) : IsFrame(toProbe[i]) =>
        gdb = "ack" /\ Taken = asks - 1 /\ (toProbe[i].ok => toProbe[i].n = asks)
SignFits ==
    \A i \in 1..Len(toGdb) : IsSign(toGdb[i]) =>
        gdb = "ack" /\ Taken = IF toGdb[i].kind = "+" THEN asks ELSE asks - 1

\* Replies behind the ack, or that come when GDB has it, answer the last command.
Current(c, n) == IsFrame(c) /\ c.ok => c = Frame(n)
RepliesCurrent ==
    /\ gdb = "reply" => \A i \in 1..Len(toGdb) : Current(toGdb[i], asks)
    /\ \A i, j \in 1..Len(toGdb) : toGdb[i].kind = "+" /\ i < j => Current(toGdb[j], asks)

WireInv ==
    /\ LinkTypes /\ OneFrame /\ OneSign /\ NotBoth
    /\ TakenOnce /\ FrameNew /\ SignFits /\ RepliesCurrent /\ ExecutedOnce

USE DEF IsFrame, IsSign, Char, Frame, Damaged

LEMMA CharsTyped == \A n \in Nat : Frame(n) \in Chars
BY Zenon DEF Chars, Kinds

LEMMA OthersTyped == Damaged \in Chars /\ \A c \in Kinds : Char(c) \in Chars
BY Zenon DEF Chars, Kinds

LEMMA WireInit ==
    ASSUME LinkInit
    PROVE  WireInv
BY DEF LinkInit, WireInv, LinkTypes, OneFrame, OneSign, NotBoth, TakenOnce, FrameNew, SignFits, Taken,
       RepliesCurrent, ExecutedOnce

---------------------------------------------------------------------------
(* Steps by which no command and no sign gets on the line.                 *)

\* The frames of a queue, and its signs, were there before; frames may be damaged.
NoNewFrames(q1, q) ==
    \E d \in {0, 1} : \A i \in 1..Len(q1) : IsFrame(q1[i]) =>
        i + d \in 1..Len(q) /\ IsFrame(q[i + d]) /\ (q1[i].ok => q1[i] = q[i + d])
NoNewSigns(q1, q) ==
    \E d \in {0, 1} : \A i \in 1..Len(q1) : IsSign(q1[i]) => i + d \in 1..Len(q) /\ q1[i] = q[i + d]

LEMMA Tails ==
    ASSUME NEW q \in Seq(Chars), q # <<>>
    PROVE  NoNewFrames(Tail(q), q) /\ NoNewSigns(Tail(q), q) /\ Tail(q) \in Seq(Chars)
<1>1. Tail(q) \in Seq(Chars) /\ Len(Tail(q)) = Len(q) - 1 /\ \A i \in 1..Len(Tail(q)) : Tail(q)[i] = q[i + 1]
  OBVIOUS
<1> HIDE DEF IsFrame, IsSign
<1>2. \A i \in 1..Len(Tail(q)) : i + 1 \in 1..Len(q)
  BY <1>1
<1> QED BY <1>1, <1>2, Zenon DEF NoNewFrames, NoNewSigns

LEMMA Appends ==
    ASSUME NEW q \in Seq(Chars), NEW c \in Chars
    PROVE  /\ Append(q, c) \in Seq(Chars)
           /\ ~IsFrame(c) => NoNewFrames(Append(q, c), q)
           /\ ~IsSign(c) => NoNewSigns(Append(q, c), q)
<1>1. /\ Append(q, c) \in Seq(Chars) /\ Len(Append(q, c)) = Len(q) + 1
      /\ \A i \in 1..Len(Append(q, c)) : Append(q, c)[i] = IF i = Len(q) + 1 THEN c ELSE q[i]
  OBVIOUS
<1> HIDE DEF IsFrame, IsSign
<1>2. \A i \in 1..Len(Append(q, c)) : i = Len(q) + 1 \/ (i + 0 = i /\ i + 0 \in 1..Len(q))
  BY <1>1
<1> QED BY <1>1, <1>2, Zenon DEF NoNewFrames, NoNewSigns

LEMMA Same ==
    ASSUME NEW q \in Seq(Chars)
    PROVE  NoNewFrames(q, q) /\ NoNewSigns(q, q)
<1>1. \A i \in 1..Len(q) : i + 0 = i
  OBVIOUS
<1> HIDE DEF IsFrame, IsSign
<1> QED BY <1>1, Zenon DEF NoNewFrames, NoNewSigns

LEMMA Replaced ==
    ASSUME NEW q \in Seq(Chars), NEW k \in 1..Len(q), IsFrame(q[k]), NEW c \in Chars,
           ~IsSign(c), IsFrame(c) => ~c.ok
    PROVE  LET r == [q EXCEPT ![k] = c]
           IN r \in Seq(Chars) /\ NoNewFrames(r, q) /\ NoNewSigns(r, q)
<1> DEFINE r == [q EXCEPT ![k] = c]
<1>1. /\ r \in Seq(Chars) /\ Len(r) = Len(q)
      /\ \A i \in 1..Len(r) : r[i] = IF i = k THEN c ELSE q[i]
  OBVIOUS
<1> HIDE DEF r, IsFrame, IsSign
<1>2. \A i \in 1..Len(r) : i + 0 = i /\ i + 0 \in 1..Len(q)
  BY <1>1
<1>3. NoNewFrames(r, q) /\ NoNewSigns(r, q)
  BY <1>1, <1>2, Zenon DEF NoNewFrames, NoNewSigns
<1> QED BY <1>1, <1>3, Zenon DEF r

LEMMA LineInv ==
    ASSUME WireInv, LinkTypes', NoNewFrames(toProbe', toProbe), NoNewSigns(toGdb', toGdb),
           gdb' = gdb \/ (gdb # "ack" /\ gdb' # "ack"), asks' = asks, cmd' = cmd, Taken' = Taken
    PROVE  (OneFrame /\ OneSign /\ NotBoth /\ TakenOnce /\ FrameNew /\ SignFits)'
<1>1. PICK d \in {0, 1} : \A i \in 1..Len(toProbe') : IsFrame(toProbe'[i]) =>
        /\ i + d \in 1..Len(toProbe) /\ IsFrame(toProbe[i + d])
        /\ toProbe'[i].ok => toProbe'[i] = toProbe[i + d]
  BY Zenon DEF NoNewFrames
<1>2. PICK e \in {0, 1} : \A i \in 1..Len(toGdb') : IsSign(toGdb'[i]) =>
        i + e \in 1..Len(toGdb) /\ toGdb'[i] = toGdb[i + e]
  BY Zenon DEF NoNewSigns
<1>3. OneFrame'
  BY <1>1, SMTT(60) DEF WireInv, OneFrame, LinkTypes
<1>4. OneSign'
  <2> SUFFICES ASSUME NEW i \in 1..Len(toGdb'), NEW j \in 1..Len(toGdb'),
                      IsSign(toGdb'[i]), IsSign(toGdb'[j])
               PROVE  i = j
    BY Zenon DEF OneSign
  <2>1. i + e \in 1..Len(toGdb) /\ IsSign(toGdb[i + e]) /\ j + e \in 1..Len(toGdb) /\ IsSign(toGdb[j + e])
    BY <1>2, Zenon
  <2>2. i + e = j + e
    BY <2>1, Zenon DEF WireInv, OneSign
  <2> QED BY <2>2 DEF LinkTypes
<1>5. NotBoth'
  BY <1>1, <1>2, Zenon DEF WireInv, NotBoth, LinkTypes
<1>6. TakenOnce'
  BY Zenon DEF WireInv, TakenOnce
<1>7. FrameNew'
  BY <1>1, Zenon DEF WireInv, FrameNew, LinkTypes
<1>8. SignFits'
  BY <1>2, ZenonT(30) DEF WireInv, SignFits, LinkTypes
<1> QED BY <1>3, <1>4, <1>5, <1>6, <1>7, <1>8, Zenon

\* What is left of a queue, some of it damaged.
LeftOf(q1, q) ==
    \E d \in {0, 1} : \A i \in 1..Len(q1) : i + d \in 1..Len(q) /\ (q1[i] = q[i + d] \/ q1[i] = Damaged)

LEMMA Left ==
    ASSUME NEW q \in Seq(Chars)
    PROVE  /\ LeftOf(q, q)
           /\ q # <<>> => LeftOf(Tail(q), q)
           /\ \A k \in 1..Len(q) : LeftOf([q EXCEPT ![k] = Damaged], q)
<1> HIDE DEF Damaged
<1>1. LeftOf(q, q)
  <2>1. \A i \in 1..Len(q) : i + 0 = i
    OBVIOUS
  <2> QED BY <2>1, Zenon DEF LeftOf
<1>2. ASSUME q # <<>> PROVE LeftOf(Tail(q), q)
  <2>1. \A i \in 1..Len(Tail(q)) : Tail(q)[i] = q[i + 1] /\ i + 1 \in 1..Len(q)
    BY <1>2
  <2> QED BY <2>1, Zenon DEF LeftOf
<1>3. ASSUME NEW k \in 1..Len(q) PROVE LeftOf([q EXCEPT ![k] = Damaged], q)
  <2> DEFINE r == [q EXCEPT ![k] = Damaged]
  <2>1. \A i \in 1..Len(r) : i + 0 = i /\ i + 0 \in 1..Len(q) /\ (r[i] = q[i] \/ r[i] = Damaged)
    OBVIOUS
  <2> HIDE DEF r
  <2>2. LeftOf(r, q)
    BY <2>1, Zenon DEF LeftOf
  <2> QED BY <2>2, Zenon DEF r
<1> QED BY <1>1, <1>2, <1>3, Zenon

LEMMA RepliesKept ==
    ASSUME WireInv, LinkTypes', asks' = asks, gdb' = "reply" => gdb = "reply", LeftOf(toGdb', toGdb)
    PROVE  RepliesCurrent'
<1>1. PICK d \in {0, 1} : \A i \in 1..Len(toGdb') :
        i + d \in 1..Len(toGdb) /\ (toGdb'[i] = toGdb[i + d] \/ toGdb'[i] = Damaged)
  BY Zenon DEF LeftOf
<1>2. \A i \in 1..Len(toGdb') : Current(toGdb[i + d], asks) => Current(toGdb'[i], asks')
  BY <1>1 DEF Current
<1>3. \A i \in 1..Len(toGdb') : toGdb'[i].kind = "+" => toGdb[i + d].kind = "+"
  BY <1>1
<1> HIDE DEF Damaged
<1>4. gdb' = "reply" => \A i \in 1..Len(toGdb') : Current(toGdb'[i], asks')
  BY <1>1, <1>2, Zenon DEF WireInv, RepliesCurrent
<1>5. ASSUME NEW i \in 1..Len(toGdb'), NEW j \in 1..Len(toGdb'), toGdb'[i].kind = "+", i < j
      PROVE  Current(toGdb'[j], asks')
  <2>1. toGdb[i + d].kind = "+" /\ i + d < j + d /\ i + d \in 1..Len(toGdb) /\ j + d \in 1..Len(toGdb)
    BY <1>1, <1>3, <1>5
  <2>2. Current(toGdb[j + d], asks)
    BY <2>1, Zenon DEF WireInv, RepliesCurrent
  <2> QED BY <2>2, <1>2, Zenon
<1> QED BY <1>4, <1>5, Zenon DEF RepliesCurrent

LEMMA RepliesSent ==
    ASSUME WireInv, UNCHANGED <<gdb, asks>>, toGdb' = Append(toGdb, Frame(cmd))
    PROVE  RepliesCurrent'
<1>1. /\ Len(toGdb') = Len(toGdb) + 1
      /\ \A i \in 1..Len(toGdb') : toGdb'[i] = IF i = Len(toGdb) + 1 THEN Frame(cmd) ELSE toGdb[i]
  BY DEF WireInv, LinkTypes
<1>2. gdb = "reply" => cmd = asks
  BY Zenon DEF WireInv, TakenOnce
<1>3. \A i \in 1..Len(toGdb) : toGdb[i].kind = "+" => cmd = asks
  BY Zenon DEF WireInv, TakenOnce, SignFits
<1>4. Frame(cmd).kind = "frame" /\ (cmd = asks => Current(Frame(cmd), asks))
  BY Zenon DEF Current
<1> HIDE DEF Frame
<1>5. ASSUME gdb' = "reply", NEW i \in 1..Len(toGdb') PROVE Current(toGdb'[i], asks')
  <2>1. CASE i = Len(toGdb) + 1
    BY <1>1, <1>2, <1>4, <1>5, <2>1, Zenon
  <2>2. CASE i \in 1..Len(toGdb) /\ i # Len(toGdb) + 1
    <3>1. Current(toGdb[i], asks)
      BY <1>5, <2>2, Zenon DEF WireInv, RepliesCurrent
    <3> QED BY <1>1, <2>2, <3>1, Zenon
  <2>3. Len(toGdb) \in Nat
    BY DEF WireInv, LinkTypes
  <2> QED BY <1>1, <1>5, <2>1, <2>2, <2>3
<1>6. ASSUME NEW i \in 1..Len(toGdb'), NEW j \in 1..Len(toGdb'), toGdb'[i].kind = "+", i < j
      PROVE  Current(toGdb'[j], asks')
  <2>1. i \in 1..Len(toGdb) /\ toGdb[i].kind = "+"
    BY <1>1, <1>4, <1>6 DEF WireInv, LinkTypes
  <2>2. CASE j \in 1..Len(toGdb)
    BY <2>1, <2>2, <1>1, <1>6 DEF WireInv, RepliesCurrent, LinkTypes
  <2>3. CASE j = Len(toGdb) + 1
    BY <2>1, <2>3, <1>1, <1>3, <1>4, Zenon
  <2> QED BY <2>2, <2>3, <1>1 DEF WireInv, LinkTypes
<1> QED BY <1>5, <1>6, Zenon DEF RepliesCurrent

---------------------------------------------------------------------------
(* The probe.                                                              *)

LEMMA Quiet ==
    ASSUME WireInv, LinkTypes', NoNewFrames(toProbe', toProbe), NoNewSigns(toGdb', toGdb),
           gdb' = gdb \/ (gdb # "ack" /\ gdb' # "ack"), asks' = asks, cmd' = cmd, Taken' = Taken,
           RepliesCurrent', ExecutedOnce'
    PROVE  WireInv'
BY LineInv, Zenon DEF WireInv

\* A frame is taken off the line, and what it leads to put on the other one.
LEMMA FrameTaken ==
    ASSUME WireInv, LinkTypes', toProbe # <<>>, IsFrame(Head(toProbe)), toProbe' = Tail(toProbe),
           NEW c \in {"+", "-"}, toGdb' = Append(toGdb, Char(c)),
           UNCHANGED <<gdb, asks, executed>>, cmd' = Taken',
           Taken' = IF c = "+" THEN asks ELSE asks - 1
    PROVE  WireInv'
<1> USE DEF WireInv, LinkTypes
<1>1. /\ Head(toProbe) = toProbe[1] /\ 1 \in 1..Len(toProbe)
      /\ \A i \in 1..Len(toProbe') : toProbe'[i] = toProbe[i + 1] /\ i + 1 \in 1..Len(toProbe)
  OBVIOUS
<1>2. gdb = "ack" /\ Taken = asks - 1
  BY <1>1, Zenon DEF FrameNew
<1>3. \A i \in 1..Len(toProbe') : ~IsFrame(toProbe'[i])
  BY <1>1 DEF OneFrame
<1>4. /\ Len(toGdb') = Len(toGdb) + 1
      /\ \A i \in 1..Len(toGdb') : toGdb'[i] = IF i = Len(toGdb) + 1 THEN Char(c) ELSE toGdb[i]
  OBVIOUS
<1>5. \A i \in 1..Len(toGdb) : ~IsSign(toGdb[i])
  BY <1>1, Zenon DEF NotBoth
<1>6. \A i \in 1..Len(toGdb') : IsSign(toGdb'[i]) => i = Len(toGdb) + 1 /\ toGdb'[i].kind = c
  BY <1>4, <1>5
<1>7. OneFrame' /\ NotBoth' /\ FrameNew'
  BY <1>3, Zenon DEF OneFrame, NotBoth, FrameNew
<1>8. OneSign'
  BY <1>6, Zenon DEF OneSign
<1>9. SignFits'
  BY <1>2, <1>6, Zenon DEF SignFits
<1>10. TakenOnce'
  BY <1>2, Zenon DEF TakenOnce
<1>11. RepliesCurrent'
  <2>1. gdb' # "reply"
    BY <1>2, Zenon
  <2>2. \A i, j \in 1..Len(toGdb') : toGdb'[i].kind = "+" /\ i < j => FALSE
    BY <1>4, <1>6, SMTT(60)
  <2> QED BY <2>1, <2>2, Zenon DEF RepliesCurrent
<1>12. ExecutedOnce'
  BY Zenon DEF ExecutedOnce
<1> QED BY <1>7, <1>8, <1>9, <1>10, <1>11, <1>12, Zenon

LEMMA GetPacketInv ==
    ASSUME WireInv, GetPacket
    PROVE  WireInv'
<1> USE DEF GetPacket, gdbVars, budgets
<1>1. /\ toProbe \in Seq(Chars) /\ toGdb \in Seq(Chars) /\ toProbe # <<>>
      /\ Head(toProbe) \in Chars /\ Head(toProbe) = toProbe[1] /\ 1 \in 1..Len(toProbe)
  BY DEF WireInv, LinkTypes
<1>2. toProbe' \in Seq(Chars) /\ NoNewFrames(toProbe', toProbe)
  BY <1>1, Tails, Zenon
<1>3. \A c \in {"+", "-"} : Append(toGdb, Char(c)) \in Seq(Chars)
  BY <1>1, OthersTyped, Appends, Zenon DEF Kinds
<1>4. CASE ~IsFrame(Head(toProbe))
  <2>1. UNCHANGED <<toGdb, probe, cmd>>
    BY <1>4, Zenon
  <2>2. LinkTypes' /\ Taken' = Taken
    BY <1>2, <2>1, Zenon DEF WireInv, LinkTypes, Taken
  <2>3. NoNewSigns(toGdb', toGdb) /\ LeftOf(toGdb', toGdb)
    BY <1>1, <2>1, Same, Left, Zenon
  <2>4. ExecutedOnce'
    BY Zenon DEF WireInv, ExecutedOnce
  <2>5. RepliesCurrent'
    BY <2>2, <2>3, RepliesKept, Zenon
  <2> QED BY <1>2, <2>1, <2>2, <2>3, <2>4, <2>5, Quiet, Zenon
<1>5. CASE IsFrame(Head(toProbe)) /\ ~ChecksumOk(Head(toProbe))
  <2>1. UNCHANGED <<probe, cmd>> /\ toGdb' = Append(toGdb, Char("-"))
    BY <1>5, Zenon
  <2>2. LinkTypes' /\ Taken' = Taken /\ cmd' = Taken'
    BY <1>2, <1>3, <2>1, Zenon DEF WireInv, LinkTypes, Taken, TakenOnce
  <2>3. Taken = asks - 1
    BY <1>1, <1>5, Zenon DEF WireInv, FrameNew
  <2> QED BY <1>1, <1>5, <2>1, <2>2, <2>3, FrameTaken, Zenon
<1>6. CASE IsFrame(Head(toProbe)) /\ ChecksumOk(Head(toProbe))
  <2>1. probe' = "exec" /\ cmd' = Head(toProbe).n /\ toGdb' = Append(toGdb, Char("+"))
    BY <1>6, Zenon
  <2>2. Taken = asks - 1 /\ cmd' = asks
    BY <1>1, <1>6, <2>1, Zenon DEF WireInv, FrameNew, ChecksumOk
  <2>3. LinkTypes' /\ Taken' = asks
    BY <1>2, <1>3, <2>1, <2>2 DEF WireInv, LinkTypes, Taken
  <2> QED BY <1>1, <1>6, <2>1, <2>2, <2>3, FrameTaken, Zenon
<1> QED BY <1>4, <1>5, <1>6, Zenon

\* The probe works on, sending the reply or sending nothing, and reads
\* from the line or does not.
LEMMA ProbeWorks ==
    ASSUME WireInv, UNCHANGED <<cmd, gdb, asks>>, toProbe' \in Seq(Chars), NoNewFrames(toProbe', toProbe),
           toGdb' = toGdb \/ Send, probe' \in {"get", "exec", "running", "stopping", "ack"},
           executed' \in Seq(Nat), Taken' = Taken, ExecutedOnce'
    PROVE  WireInv'
<1>1. toGdb \in Seq(Chars) /\ cmd \in Nat
  BY Zenon DEF WireInv, LinkTypes
<1>2. CASE toGdb' = toGdb
  <2>1. LinkTypes'
    BY <1>2, Zenon DEF WireInv, LinkTypes
  <2>2. NoNewSigns(toGdb', toGdb) /\ LeftOf(toGdb', toGdb)
    BY <1>1, <1>2, Same, Left, Zenon
  <2>3. RepliesCurrent'
    BY <2>1, <2>2, RepliesKept, Zenon
  <2> QED BY <2>1, <2>2, <2>3, Quiet, Zenon
<1>3. CASE Send
  <2>1. toGdb' = Append(toGdb, Frame(cmd)) /\ Frame(cmd) \in Chars /\ ~IsSign(Frame(cmd))
    BY <1>1, <1>3, CharsTyped, Zenon DEF Send
  <2>2. toGdb' \in Seq(Chars) /\ NoNewSigns(toGdb', toGdb)
    BY <1>1, <2>1, Appends, Zenon
  <2>3. LinkTypes'
    BY <2>2, Zenon DEF WireInv, LinkTypes
  <2>4. RepliesCurrent'
    BY <2>1, RepliesSent, Zenon
  <2> QED BY <2>2, <2>3, <2>4, Quiet, Zenon
<1> QED BY <1>2, <1>3, Zenon

LEMMA ExecuteInv ==
    ASSUME WireInv, Execute
    PROVE  WireInv'
<1> USE DEF Execute, gdbVars, budgets
<1>1. toProbe' \in Seq(Chars) /\ NoNewFrames(toProbe', toProbe)
  BY Same, Zenon DEF WireInv, LinkTypes
<1>2. /\ UNCHANGED <<cmd, gdb, asks>> /\ probe = "exec" /\ probe' \in {"running", "ack"}
      /\ (toGdb' = toGdb \/ Send)
  BY Zenon DEF PutPacket
<1>3. /\ executed' \in Seq(Nat) /\ Len(executed') = Len(executed) + 1
      /\ \A i \in 1..Len(executed') : executed'[i] = IF i = Len(executed) + 1 THEN cmd ELSE executed[i]
  BY DEF WireInv, LinkTypes
<1>4. cmd = Len(executed) + 1
  BY Zenon DEF WireInv, TakenOnce, Taken
<1> HIDE DEF Execute
<1>5. Taken' = Taken
  BY <1>2, <1>3, Zenon DEF Taken
<1>6. ExecutedOnce'
  <2>1. /\ DOMAIN executed = 1..Len(executed) /\ Len(executed) \in Nat
        /\ DOMAIN executed' = 1..Len(executed')
    BY <1>3 DEF WireInv, LinkTypes
  <2>2. \A i \in 1..Len(executed) : executed[i] = i
    BY <2>1, Zenon DEF WireInv, ExecutedOnce
  <2>3. \A i \in 1..Len(executed') : executed'[i] = i
    BY <1>3, <1>4, <2>1, <2>2
  <2> QED BY <2>1, <2>3, Zenon DEF ExecutedOnce
<1> QED BY <1>1, <1>2, <1>3, <1>5, <1>6, ProbeWorks, Zenon

LEMMA PollCharInv ==
    ASSUME WireInv, PollChar
    PROVE  WireInv'
<1> USE DEF PollChar, gdbVars, budgets
<1>1. toProbe' \in Seq(Chars) /\ NoNewFrames(toProbe', toProbe)
  BY Tails, Zenon DEF WireInv, LinkTypes
<1>2. Taken' = Taken /\ ExecutedOnce' /\ executed' \in Seq(Nat)
  BY Zenon DEF Taken, WireInv, ExecutedOnce, LinkTypes
<1> QED BY <1>1, <1>2, ProbeWorks, Zenon

LEMMA PollHaltedInv ==
    ASSUME WireInv, PollHalted
    PROVE  WireInv'
<1> USE DEF PollHalted, PutPacket, gdbVars, budgets
<1>1. toProbe' \in Seq(Chars) /\ NoNewFrames(toProbe', toProbe)
  BY Same, Zenon DEF WireInv, LinkTypes
<1>2. Taken' = Taken /\ ExecutedOnce' /\ executed' \in Seq(Nat)
  BY Zenon DEF Taken, WireInv, ExecutedOnce, LinkTypes
<1> QED BY <1>1, <1>2, ProbeWorks, Zenon

LEMMA AckTimeoutInv ==
    ASSUME WireInv, AckTimeout
    PROVE  WireInv'
<1> USE DEF AckTimeout, Retry, gdbVars, budgets
<1>1. toProbe' \in Seq(Chars) /\ NoNewFrames(toProbe', toProbe)
  BY Same, Zenon DEF WireInv, LinkTypes
<1>2. Taken' = Taken /\ ExecutedOnce' /\ executed' \in Seq(Nat)
  BY Zenon DEF Taken, WireInv, ExecutedOnce, LinkTypes
<1> QED BY <1>1, <1>2, ProbeWorks, Zenon

\* What is left of a command that came instead of the ack is no frame.
LEMMA ReadOneKeeps ==
    ASSUME NEW q \in Seq(Chars), q # <<>>
    PROVE  LET r == <<Char("noise")>> \o Tail(q)
           IN IsFrame(Head(q)) => r \in Seq(Chars) /\ NoNewFrames(r, q)
<1> SUFFICES ASSUME IsFrame(Head(q))
             PROVE  LET r == <<Char("noise")>> \o Tail(q) IN r \in Seq(Chars) /\ NoNewFrames(r, q)
  BY Zenon
<1> DEFINE r == <<Char("noise")>> \o Tail(q)
           s == [q EXCEPT ![1] = Char("noise")]
<1>1. 1 \in 1..Len(q) /\ IsFrame(q[1]) /\ Char("noise") \in Chars
  BY OthersTyped DEF Kinds
<1>2. s \in Seq(Chars) /\ NoNewFrames(s, q)
  BY <1>1, Replaced, Zenon
<1>3. <<Char("noise")>> \in Seq(Chars) /\ Tail(q) \in Seq(Chars)
  BY <1>1
<1>4. r \in Seq(Chars) /\ Len(r) = Len(q)
  BY <1>3
<1>5. \A i \in 1..Len(q) : r[i] = s[i]
  <2>1. r[1] = Char("noise") /\ s[1] = Char("noise")
    BY <1>1, <1>3
  <2> SUFFICES ASSUME NEW i \in 1..Len(q), i # 1 PROVE r[i] = s[i]
    BY <2>1, Zenon
  <2> HIDE DEF Char
  <2>2. i - 1 \in 1..Len(Tail(q)) /\ Tail(q)[i - 1] = q[i] /\ Len(<<Char("noise")>>) = 1
    OBVIOUS
  <2>3. r[i] = Tail(q)[i - 1]
    BY <2>2, <1>3
  <2> QED BY <2>2, <2>3
<1>6. r = s
  BY <1>2, <1>4, <1>5
<1> QED BY <1>2, <1>6, Zenon

LEMMA GetAckInv ==
    ASSUME WireInv, GetAck
    PROVE  WireInv'
<1> USE DEF GetAck, Retry, gdbVars, budgets
<1>1. toProbe \in Seq(Chars) /\ toProbe # <<>>
  BY Zenon DEF WireInv, LinkTypes
<1>2. toProbe' \in Seq(Chars) /\ NoNewFrames(toProbe', toProbe)
  BY <1>1, Tails, ReadOneKeeps, Zenon DEF ReadOne
<1>3. Taken' = Taken /\ ExecutedOnce' /\ executed' \in Seq(Nat)
  BY Zenon DEF Taken, WireInv, ExecutedOnce, LinkTypes
<1> QED BY <1>2, <1>3, ProbeWorks, Zenon

---------------------------------------------------------------------------
(* GDB and the line.                                                       *)

\* GDB puts its last command on the line when nothing else is on its way.
LEMMA CommandSent ==
    ASSUME WireInv, LinkTypes', UNCHANGED <<probe, cmd, executed>>, toProbe' = Append(toProbe, Frame(asks')),
           Taken = asks' - 1, gdb' = "ack",
           \A i \in 1..Len(toProbe) : ~IsFrame(toProbe[i]),
           \A i \in 1..Len(toGdb') : ~IsSign(toGdb'[i])
    PROVE  WireInv'
<1>1. /\ Len(toProbe') = Len(toProbe) + 1
      /\ \A i \in 1..Len(toProbe') : toProbe'[i] = IF i = Len(toProbe) + 1 THEN Frame(asks') ELSE toProbe[i]
  <2>1. toProbe \in Seq(Chars)
    BY Zenon DEF WireInv, LinkTypes
  <2> HIDE DEF Frame, Chars
  <2> QED BY <2>1
<1> USE DEF WireInv, LinkTypes
<1>2. Taken' = Taken /\ cmd = Taken
  BY Zenon DEF Taken, TakenOnce
<1>3. OneFrame'
  BY <1>1, SMTT(60) DEF OneFrame
<1>4. OneSign' /\ NotBoth' /\ SignFits'
  BY Zenon DEF OneSign, NotBoth, SignFits
<1>5. TakenOnce'
  BY <1>2, Zenon DEF TakenOnce
<1>6. FrameNew'
  BY <1>1, <1>2, SMTT(60) DEF FrameNew
<1>7. RepliesCurrent'
  BY Zenon DEF RepliesCurrent
<1>8. ExecutedOnce'
  BY Zenon DEF ExecutedOnce
<1> QED BY <1>3, <1>4, <1>5, <1>6, <1>7, <1>8, Zenon

LEMMA SendCommandInv ==
    ASSUME WireInv, SendCommand
    PROVE  WireInv'
<1> USE DEF SendCommand, probeVars, budgets
<1>1. /\ asks' \in Nat /\ Frame(asks') \in Chars /\ asks' - 1 = asks /\ toProbe \in Seq(Chars)
      /\ toProbe' = Append(toProbe, Frame(asks'))
  BY CharsTyped DEF WireInv, LinkTypes
<1>2. toProbe' \in Seq(Chars)
  BY <1>1, Appends, Zenon
<1>3. LinkTypes'
  BY <1>1, <1>2, Zenon DEF WireInv, LinkTypes
<1>4. Taken = asks' - 1
  BY <1>1, Zenon DEF WireInv, TakenOnce
<1>5. /\ \A i \in 1..Len(toProbe) : ~IsFrame(toProbe[i])
      /\ \A i \in 1..Len(toGdb') : ~IsSign(toGdb'[i])
  BY Zenon DEF WireInv, FrameNew, SignFits
<1> QED BY <1>1, <1>3, <1>4, <1>5, CommandSent, Zenon

\* GDB works on what it has read, without a command.
LEMMA GdbWorks ==
    ASSUME WireInv, UNCHANGED <<probe, cmd, executed, asks>>,
           \/ toProbe' = toProbe
           \/ \E c \in {"+", "-", "int"} : toProbe' = Append(toProbe, Char(c)),
           toGdb' = toGdb \/ (toGdb # <<>> /\ toGdb' = Tail(toGdb)),
           gdb' = gdb \/ (gdb = "reply" /\ gdb' = "idle")
    PROVE  WireInv'
<1>1. toProbe \in Seq(Chars) /\ toGdb \in Seq(Chars)
  BY Zenon DEF WireInv, LinkTypes
<1>2. toProbe' \in Seq(Chars) /\ NoNewFrames(toProbe', toProbe)
  <2>1. CASE toProbe' = toProbe
    BY <1>1, <2>1, Same, Zenon
  <2>2. ASSUME NEW c \in {"+", "-", "int"}, toProbe' = Append(toProbe, Char(c))
        PROVE  toProbe' \in Seq(Chars) /\ NoNewFrames(toProbe', toProbe)
    <3>1. Char(c) \in Chars /\ ~IsFrame(Char(c))
      BY OthersTyped, Zenon DEF Kinds
    <3> QED BY <1>1, <2>2, <3>1, Appends, Zenon
  <2> QED BY <2>1, <2>2, Zenon
<1>3. toGdb' \in Seq(Chars) /\ NoNewSigns(toGdb', toGdb) /\ LeftOf(toGdb', toGdb)
  BY <1>1, Tails, Same, Left, Zenon
<1>4. LinkTypes' /\ Taken' = Taken /\ ExecutedOnce'
  BY <1>2, <1>3, Zenon DEF WireInv, LinkTypes, Taken, ExecutedOnce
<1>5. RepliesCurrent'
  BY <1>3, <1>4, RepliesKept, Zenon
<1> QED BY <1>2, <1>3, <1>4, <1>5, Quiet, Zenon

LEMMA SendInterruptInv ==
    ASSUME WireInv, SendInterrupt
    PROVE  WireInv'
BY GdbWorks, Zenon DEF SendInterrupt, probeVars

LEMMA GdbWaitsReplyInv ==
    ASSUME WireInv, GdbWaitsReply
    PROVE  WireInv'
BY GdbWorks, Zenon DEF GdbWaitsReply, probeVars

\* GDB takes the ack: what it will read now are replies to its last command.
LEMMA AckTaken ==
    ASSUME WireInv, UNCHANGED <<toProbe, probe, cmd, executed, asks>>, toGdb # <<>>, toGdb' = Tail(toGdb),
           Head(toGdb).kind = "+", gdb' = "reply"
    PROVE  WireInv'
<1> USE DEF WireInv, LinkTypes
<1>1. /\ Head(toGdb) = toGdb[1] /\ 1 \in 1..Len(toGdb) /\ toGdb' \in Seq(Chars)
      /\ \A i \in 1..Len(toGdb') : toGdb'[i] = toGdb[i + 1] /\ i + 1 \in 1..Len(toGdb) /\ 1 < i + 1
  OBVIOUS
<1>2. \A i \in 1..Len(toGdb') : ~IsSign(toGdb'[i])
  BY <1>1 DEF OneSign
<1>3. \A i \in 1..Len(toProbe) : ~IsFrame(toProbe[i])
  BY <1>1, Zenon DEF NotBoth
<1>4. Taken = asks /\ Taken' = Taken
  BY <1>1, Zenon DEF SignFits, Taken
<1>5. OneFrame' /\ NotBoth' /\ FrameNew' /\ OneSign' /\ SignFits'
  BY <1>2, <1>3, Zenon DEF OneFrame, NotBoth, FrameNew, OneSign, SignFits
<1>6. TakenOnce' /\ ExecutedOnce' /\ LinkTypes'
  BY <1>1, <1>4, Zenon DEF TakenOnce, ExecutedOnce
<1>7. \A i \in 1..Len(toGdb') : Current(toGdb'[i], asks')
  BY <1>1, Zenon DEF RepliesCurrent
<1>8. RepliesCurrent'
  BY <1>7, Zenon DEF RepliesCurrent
<1> QED BY <1>5, <1>6, <1>8, Zenon

LEMMA GdbWaitsAckInv ==
    ASSUME WireInv, GdbWaitsAck
    PROVE  WireInv'
<1> USE DEF GdbWaitsAck, probeVars, budgets
<1>1. CASE Head(toGdb).kind = "+"
  BY <1>1, AckTaken, Zenon
<1>2. CASE Head(toGdb).kind = "-"
  <2>1. /\ toProbe \in Seq(Chars) /\ asks \in Nat /\ toProbe' = Append(toProbe, Frame(asks))
        /\ asks' = asks /\ gdb' = "ack"
    BY <1>2, Zenon DEF WireInv, LinkTypes
  <2>2. /\ Head(toGdb) = toGdb[1] /\ 1 \in 1..Len(toGdb) /\ toGdb' \in Seq(Chars)
        /\ \A i \in 1..Len(toGdb') : toGdb'[i] = toGdb[i + 1] /\ i + 1 \in 1..Len(toGdb) /\ i + 1 # 1
    BY DEF WireInv, LinkTypes
  <2>3. toProbe' \in Seq(Chars)
    BY <2>1, CharsTyped, Appends, Zenon
  <2>4. LinkTypes'
    BY <2>1, <2>2, <2>3, Zenon DEF WireInv, LinkTypes
  <2>5. Taken = asks' - 1
    BY <1>2, <2>1, <2>2, Zenon DEF WireInv, SignFits
  <2>6. \A i \in 1..Len(toProbe) : ~IsFrame(toProbe[i])
    BY <1>2, <2>2, Zenon DEF WireInv, NotBoth
  <2>7. \A i \in 1..Len(toGdb') : ~IsSign(toGdb'[i])
    BY <1>2, <2>2, Zenon DEF WireInv, OneSign
  <2> QED BY <2>1, <2>4, <2>5, <2>6, <2>7, CommandSent, Zenon
<1>3. CASE IsFrame(Head(toGdb))
  BY <1>3, GdbWorks, Zenon
<1> QED BY <1>1, <1>2, <1>3, Zenon

LEMMA CorruptInv ==
    ASSUME WireInv, Corrupt
    PROVE  WireInv'
<1> USE DEF Corrupt, probeVars, gdbVars
<1>1. /\ toProbe \in Seq(Chars) /\ toGdb \in Seq(Chars)
      /\ DOMAIN toProbe = 1..Len(toProbe) /\ DOMAIN toGdb = 1..Len(toGdb)
      /\ Damaged \in Chars /\ ~IsSign(Damaged) /\ IsFrame(Damaged) /\ ~Damaged.ok
  BY OthersTyped DEF WireInv, LinkTypes
<1>2. Taken' = Taken /\ ExecutedOnce' /\ UNCHANGED <<probe, cmd, executed, gdb, asks>>
  BY Zenon DEF Taken, WireInv, ExecutedOnce
<1> HIDE DEF Damaged
<1>3. /\ toProbe' \in Seq(Chars) /\ toGdb' \in Seq(Chars)
      /\ NoNewFrames(toProbe', toProbe) /\ NoNewSigns(toGdb', toGdb) /\ LeftOf(toGdb', toGdb)
  <2>1. ASSUME NEW k \in DOMAIN toProbe, IsFrame(toProbe[k]),
               toProbe' = [toProbe EXCEPT ![k] = Damaged], UNCHANGED toGdb
        PROVE  <1>3!:
    BY <1>1, <2>1, Replaced, Same, Left, Zenon
  <2>2. ASSUME NEW k \in DOMAIN toGdb, IsFrame(toGdb[k]),
               toGdb' = [toGdb EXCEPT ![k] = Damaged], UNCHANGED toProbe
        PROVE  <1>3!:
    BY <1>1, <2>2, Replaced, Same, Left, Zenon
  <2> QED BY <2>1, <2>2, Zenon
<1>4. LinkTypes'
  BY <1>2, <1>3, Zenon DEF WireInv, LinkTypes
<1>5. RepliesCurrent'
  BY <1>2, <1>3, <1>4, RepliesKept, Zenon
<1> QED BY <1>2, <1>3, <1>4, <1>5, Quiet, Zenon

LEMMA WireNext ==
    ASSUME WireInv, [LinkNext]_linkVars
    PROVE  WireInv'
<1>1. CASE Probe
  BY <1>1, GetPacketInv, ExecuteInv, PollCharInv, PollHaltedInv, GetAckInv, AckTimeoutInv, Zenon DEF Probe
<1>2. CASE Gdb
  BY <1>2, SendCommandInv, GdbWaitsAckInv, GdbWaitsReplyInv, Zenon DEF Gdb
<1>3. CASE UNCHANGED linkVars
  BY <1>3, ZenonT(60) DEF linkVars, WireInv, LinkTypes, OneFrame, OneSign, NotBoth, TakenOnce, Taken, FrameNew, SignFits,
              RepliesCurrent, ExecutedOnce
<1> QED BY <1>1, <1>2, <1>3, SendInterruptInv, CorruptInv, Zenon DEF LinkNext, Finished

LEMMA WireHolds == LinkSpec => []WireInv
BY WireInit, WireNext, PTL DEF LinkSpec

\* gdb_getpacket and gdb_main execute each command once and in the order
\* sent, whatever the line damages and however often GDB is asked to repeat.
THEOREM CommandsOnce == LinkSpec => []ExecutedOnce
<1>1. WireInv => ExecutedOnce
  BY Zenon DEF WireInv
<1> QED BY WireHolds, <1>1, PTL

\* The reply GDB takes as the answer (gdb_putpacket, repeated or not) carries
\* the number of the command GDB sent last.
THEOREM RepliesMatch == LinkSpec => ReplyMatches
<1>1. ASSUME WireInv, LinkNext, gdb = "reply", gdb' = "idle"
      PROVE  Head(toGdb) = Frame(asks)
  <2>1. GdbWaitsReply
    <3> USE DEF gdbVars
    <3>1. ~GetPacket /\ ~Execute /\ ~PollChar /\ ~PollHalted /\ ~GetAck /\ ~AckTimeout
      BY <1>1, Zenon DEF GetPacket, Execute, PollChar, PollHalted, GetAck, AckTimeout
    <3>2. ~SendCommand /\ ~GdbWaitsAck /\ ~SendInterrupt /\ ~Corrupt /\ ~Finished
      BY <1>1, Zenon DEF SendCommand, GdbWaitsAck, SendInterrupt, Corrupt, Finished
    <3> QED BY <1>1, <3>1, <3>2, Zenon DEF LinkNext, Probe, Gdb
  <2>2. toGdb # <<>> /\ IsFrame(Head(toGdb)) /\ Head(toGdb).ok
    BY <1>1, <2>1, Zenon DEF GdbWaitsReply
  <2>3. Head(toGdb) = toGdb[1] /\ 1 \in 1..Len(toGdb)
    BY <1>1, <2>2 DEF WireInv, LinkTypes
  <2> QED BY <1>1, <2>2, <2>3, Zenon DEF WireInv, RepliesCurrent, Current
<1>2. WireInv /\ [LinkNext]_linkVars => [gdb = "reply" /\ gdb' = "idle" => Head(toGdb) = Frame(asks)]_linkVars
  BY <1>1, Zenon
<1> QED BY WireHolds, <1>2, PTL DEF LinkSpec, ReplyMatches

---------------------------------------------------------------------------
(* The RTT buffer.                                                         *)

\* An open endpoint has room for a packet.  rtt_getchar decides to open it
\* when there is room for two: one may arrive before it acts on its decision,
\* and that one closes the endpoint unless there is room for two more.
Margin ==
    mode = "block" =>
        /\ lost = 0
        /\ ~nak => recv_bytes_free >= CDCACM_PACKET_SIZE
        /\ pc = "open" => recv_bytes_free >= CDCACM_PACKET_SIZE
        /\ pc = "open" /\ ~nak => recv_bytes_free >= 2 * CDCACM_PACKET_SIZE

Typed ==
    /\ RttTypeOK
    /\ pc = "advance" => recv_head # recv_tail

IInv == Typed /\ Margin

\* The free space for a head and a tail.
Free(h, t) == IF t <= h THEN RTT_DOWN_BUF_SIZE - h + t - 1 ELSE t - h - 1

LEMMA Wrap ==
    ASSUME NEW B \in Nat, B > 0, NEW x \in Nat, x < 2 * B
    PROVE  x % B = IF x < B THEN x ELSE x - B
OBVIOUS

LEMMA FreeOf ==
    /\ recv_bytes_free = Free(recv_head, recv_tail)
    /\ recv_bytes_free' = Free(recv_head', recv_tail')
BY Zenon DEF recv_bytes_free, Free

LEMMA FreeType ==
    ASSUME NEW h \in Index, NEW t \in Index
    PROVE  /\ Free(h, t) \in 0..(RTT_DOWN_BUF_SIZE - 1)
           /\ Free(h, t) = RTT_DOWN_BUF_SIZE - 1 <=> h = t
BY RttIfAssumption DEF RttIfAssumption, Index, Free

\* Moving the head by n takes n from the free space.
LEMMA HeadMoves ==
    ASSUME NEW h \in Index, NEW t \in Index, NEW n \in Nat, n <= Free(h, t)
    PROVE  /\ (h + n) % RTT_DOWN_BUF_SIZE \in Index
           /\ Free((h + n) % RTT_DOWN_BUF_SIZE, t) = Free(h, t) - n
<1>1. /\ h + n \in Nat /\ h + n < 2 * RTT_DOWN_BUF_SIZE
      /\ RTT_DOWN_BUF_SIZE \in Nat /\ RTT_DOWN_BUF_SIZE > 0
  BY FreeType, RttIfAssumption DEF RttIfAssumption, Index
<1>2. PICK x \in Nat : x = h + n
  BY <1>1, Zenon
<1> DEFINE m == x % RTT_DOWN_BUF_SIZE
<1>3. m = IF x < RTT_DOWN_BUF_SIZE THEN x ELSE x - RTT_DOWN_BUF_SIZE
  BY <1>1, <1>2, Wrap, Zenon
<1> HIDE DEF m
<1>4. m \in Index /\ Free(m, t) = Free(h, t) - n
  BY <1>2, <1>3, RttIfAssumption DEF RttIfAssumption, Index, Free
<1> QED BY <1>2, <1>4, Zenon DEF m

\* Moving the tail of a buffer that is not empty frees one place.
LEMMA TailMoves ==
    ASSUME NEW h \in Index, NEW t \in Index, h # t
    PROVE  /\ (t + 1) % RTT_DOWN_BUF_SIZE \in Index
           /\ Free(h, (t + 1) % RTT_DOWN_BUF_SIZE) = Free(h, t) + 1
<1>1. /\ t + 1 \in Nat /\ t + 1 < 2 * RTT_DOWN_BUF_SIZE
      /\ RTT_DOWN_BUF_SIZE \in Nat /\ RTT_DOWN_BUF_SIZE > 0
  BY RttIfAssumption DEF RttIfAssumption, Index
<1>2. PICK x \in Nat : x = t + 1
  BY <1>1, Zenon
<1> DEFINE m == x % RTT_DOWN_BUF_SIZE
<1>3. m = IF x < RTT_DOWN_BUF_SIZE THEN x ELSE x - RTT_DOWN_BUF_SIZE
  BY <1>1, <1>2, Wrap, Zenon
<1> HIDE DEF m
<1>4. m \in Index /\ Free(h, m) = Free(h, t) + 1
  BY <1>2, <1>3, RttIfAssumption DEF RttIfAssumption, Index, Free
<1> QED BY <1>2, <1>4, Zenon DEF m

LEMMA InitInv ==
    ASSUME RttInit
    PROVE  IInv
<1>1. RttTypeOK
  <2>1. recv_buf \in [Index -> Nat] BY DEF RttInit
  <2>2. 0 \in Index /\ 0 \in 0..MaxBytes /\ 0 \in 0..0
    BY RttIfAssumption DEF RttIfAssumption, Index
  <2> QED BY <2>1, <2>2, Zenon DEF RttInit, RttTypeOK
<1>2. recv_bytes_free = RTT_DOWN_BUF_SIZE - 1
  BY RttIfAssumption DEF RttIfAssumption, RttInit, recv_bytes_free
<1>3. Margin
  BY <1>2, RttIfAssumption DEF RttIfAssumption, RttInit, Margin
<1> QED BY <1>1, <1>3, Zenon DEF IInv, Typed, RttInit

LEMMA ReceiveInv ==
    ASSUME Typed, HostSends
    PROVE  Typed' /\ (Margin => Margin')
<1>1. PICK len \in 1..CDCACM_PACKET_SIZE : sent + len <= MaxBytes /\ Receive(len)
  BY Zenon DEF HostSends
<1>2. /\ len \in Nat /\ RttTypeOK
      /\ recv_bytes_free \in 0..(RTT_DOWN_BUF_SIZE - 1)
      /\ recv_bytes_free = RTT_DOWN_BUF_SIZE - 1 <=> recv_head = recv_tail
  BY FreeOf, FreeType, RttIfAssumption DEF RttIfAssumption, Typed, RttTypeOK
<1>3. PICK n \in Nat :
        /\ n <= recv_bytes_free /\ n <= len
        /\ len <= recv_bytes_free => n = len
        /\ Copy(n)
        /\ lost' = lost + (len - n)
        /\ nak' = (mode = "block" /\ recv_set_nak(recv_bytes_free - n))
  BY <1>1, <1>2 DEF Receive
<1>4. ~nak /\ sent' = sent + len /\ UNCHANGED <<recv_tail, mode, pc, ch>>
  BY <1>1, Zenon DEF Receive
<1>5. recv_head' \in Index /\ recv_bytes_free' = recv_bytes_free - n
  <2>1. recv_head' = (recv_head + n) % RTT_DOWN_BUF_SIZE /\ recv_tail' = recv_tail
    BY <1>3, <1>4, Zenon DEF Copy
  <2>2. recv_head \in Index /\ recv_tail \in Index
    BY <1>2, Zenon DEF RttTypeOK
  <2> QED BY <1>3, <2>1, <2>2, FreeOf, HeadMoves, Zenon
<1>6. recv_buf' \in [Index -> Nat]
  <2>1. \A i \in Index : (i - recv_head) % RTT_DOWN_BUF_SIZE \in Nat
    BY <1>2, RttIfAssumption DEF RttIfAssumption, RttTypeOK, Index
  <2> QED BY <1>2, <1>3, <2>1, RttIfAssumption DEF RttIfAssumption, Copy, RttTypeOK
<1>7. RttTypeOK'
  BY <1>1, <1>2, <1>3, <1>4, <1>5, <1>6, RttIfAssumption DEF RttIfAssumption, RttTypeOK
<1>8. ASSUME Margin PROVE Margin'
  <2> SUFFICES ASSUME mode' = "block"
               PROVE  /\ lost' = 0
                      /\ ~nak' => recv_bytes_free' >= CDCACM_PACKET_SIZE
                      /\ pc' = "open" => recv_bytes_free' >= CDCACM_PACKET_SIZE
                      /\ pc' = "open" /\ ~nak' => recv_bytes_free' >= 2 * CDCACM_PACKET_SIZE
    BY Zenon DEF Margin
  <2>1. /\ mode = "block" /\ lost = 0 /\ recv_bytes_free >= CDCACM_PACKET_SIZE
        /\ pc = "open" => recv_bytes_free >= 2 * CDCACM_PACKET_SIZE
    BY <1>4, <1>8, Zenon DEF Margin
  <2>2. n = len /\ CDCACM_PACKET_SIZE \in Nat /\ len <= CDCACM_PACKET_SIZE
    BY <1>1, <1>2, <1>3, <2>1, RttIfAssumption DEF RttIfAssumption
  <2>3. nak' = (recv_bytes_free' < 2 * CDCACM_PACKET_SIZE)
    BY <1>3, <1>5, <2>1 DEF recv_set_nak
  <2>4. lost' = 0
    BY <1>2, <1>3, <2>1, <2>2
  <2>5. ~nak' => recv_bytes_free' >= 2 * CDCACM_PACKET_SIZE /\ recv_bytes_free' >= CDCACM_PACKET_SIZE
    <3>1. ~nak' => ~(recv_bytes_free' < 2 * CDCACM_PACKET_SIZE)
      BY <2>3, Zenon
    <3>2. recv_bytes_free' \in Int
      BY <1>2, <1>5, RttIfAssumption DEF RttIfAssumption
    <3> QED BY <3>1, <3>2, <2>2
  <2>6. pc' = "open" => recv_bytes_free' >= CDCACM_PACKET_SIZE
    BY <1>2, <1>4, <1>5, <2>1, <2>2
  <2> QED BY <2>4, <2>5, <2>6, Zenon
<1>9. (pc = "advance" => recv_head # recv_tail)'
  <2>1. recv_bytes_free' = RTT_DOWN_BUF_SIZE - 1 <=> recv_head' = recv_tail'
    BY <1>7, FreeOf, FreeType, Zenon DEF RttTypeOK
  <2> QED BY <2>1, <1>2, <1>3, <1>4, <1>5, RttIfAssumption DEF RttIfAssumption, Typed
<1> QED BY <1>7, <1>8, <1>9, Zenon DEF Typed

LEMMA NextInv ==
    ASSUME Typed, [RttNext]_rttVars
    PROVE  Typed' /\ (Margin => Margin')
<1>1. CASE HostSends
  BY <1>1, ReceiveInv, Zenon
<1>2. CASE TakeChar
  <2>1. recv_buf[recv_tail] \in Nat
    BY Zenon DEF Typed, RttTypeOK
  <2> QED BY <1>2, <2>1, Zenon DEF TakeChar, Typed, RttTypeOK, Margin, recv_bytes_free
<1>3. CASE Advance
  <2>1. recv_tail' \in Index /\ recv_bytes_free' = recv_bytes_free + 1
    BY <1>3, FreeOf, TailMoves, Zenon DEF Advance, Typed, RttTypeOK
  <2>2. recv_bytes_free \in Nat
    BY FreeOf, FreeType, RttIfAssumption DEF RttIfAssumption, Typed, RttTypeOK
  <2>3. RttTypeOK'
    BY <1>3, <2>1, Zenon DEF Advance, Typed, RttTypeOK
  <2>4. Margin => Margin'
    BY <1>3, <2>1, <2>2, RttIfAssumption DEF RttIfAssumption, Advance, Margin
  <2> QED BY <1>3, <2>3, <2>4, Zenon DEF Advance, Typed
<1>4. CASE TestSpace
  <2>1. recv_bytes_free' = recv_bytes_free
    BY <1>4, Zenon DEF TestSpace, recv_bytes_free
  <2>2. recv_bytes_free \in Nat
    BY FreeOf, FreeType, RttIfAssumption DEF RttIfAssumption, Typed, RttTypeOK
  <2>3. RttTypeOK'
    BY <1>4, Zenon DEF TestSpace, Typed, RttTypeOK
  <2>4. Margin => Margin'
    BY <1>4, <2>1, <2>2, RttIfAssumption DEF RttIfAssumption, TestSpace, Margin, recv_set_nak
  <2> QED BY <1>4, <2>3, <2>4, Zenon DEF TestSpace, Typed
<1>5. CASE OpenFlow
  BY <1>5, Zenon DEF OpenFlow, Typed, RttTypeOK, Margin, recv_bytes_free
<1>6. CASE UNCHANGED rttVars
  BY <1>6, Zenon DEF rttVars, Typed, RttTypeOK, Margin, recv_bytes_free
<1> QED BY <1>1, <1>2, <1>3, <1>4, <1>5, <1>6, Zenon DEF RttNext, GetChar

LEMMA Invariance == RttSpec => []IInv
<1>1. IInv /\ [RttNext]_rttVars => IInv'
  BY NextInv, Zenon DEF IInv
<1> QED BY InitInv, <1>1, PTL DEF RttSpec

\* The indices stay in the buffer and no more is dropped than was sent.
THEOREM TypeCorrect == RttSpec => []RttTypeOK
<1>1. IInv => RttTypeOK BY DEF IInv, Typed
<1> QED BY Invariance, <1>1, PTL

\* rtt_serial_receive_callback and rtt_getchar never drop a character of a
\* blocking channel, whenever the interrupt comes.
THEOREM NoLoss == RttSpec => []BlockingNoLoss
<1>1. IInv => BlockingNoLoss BY DEF IInv, Margin, BlockingNoLoss
<1> QED BY Invariance, <1>1, PTL

---------------------------------------------------------------------------
(* The order of the RTT buffer.                                            *)

\* How far i lies behind the tail.
Dist(i, t) == IF i >= t THEN i - t ELSE i - t + RTT_DOWN_BUF_SIZE
Held(i) == Dist(i, recv_tail) < Dist(recv_head, recv_tail)

\* What is held increases from the tail on; it was sent, and it comes after what
\* was delivered, except the character that rtt_getchar has just taken.
Ring ==
    /\ \A i, j \in Index : Held(j) /\ Dist(i, recv_tail) < Dist(j, recv_tail) => recv_buf[i] < recv_buf[j]
    /\ \A i \in Index : Held(i) => recv_buf[i] <= sent /\ (pc # "advance" => ch < recv_buf[i])
    /\ pc = "advance" => ch = recv_buf[recv_tail]
    /\ ch <= sent

LEMMA Mod ==
    ASSUME NEW B \in Nat, B > 0, NEW x \in Int, -B < x, x < B
    PROVE  x % B = IF x < 0 THEN x + B ELSE x
OBVIOUS

LEMMA DistType ==
    ASSUME NEW i \in Index, NEW t \in Index
    PROVE  /\ Dist(i, t) \in 0..(RTT_DOWN_BUF_SIZE - 1)
           /\ Dist(i, t) = 0 <=> i = t
           /\ (i - t) % RTT_DOWN_BUF_SIZE = Dist(i, t)
           /\ Free(i, t) = RTT_DOWN_BUF_SIZE - 1 - Dist(i, t)
<1>1. RTT_DOWN_BUF_SIZE \in Nat /\ RTT_DOWN_BUF_SIZE > 0
  BY RttIfAssumption DEF RttIfAssumption
<1>2. PICK x \in Int : x = i - t
  BY DEF Index
<1>3. -RTT_DOWN_BUF_SIZE < x /\ x < RTT_DOWN_BUF_SIZE
  BY <1>1, <1>2 DEF Index
<1>4. x % RTT_DOWN_BUF_SIZE = IF x < 0 THEN x + RTT_DOWN_BUF_SIZE ELSE x
  BY <1>1, <1>3, Mod, Zenon
<1>5. x % RTT_DOWN_BUF_SIZE = Dist(i, t)
  BY <1>1, <1>2, <1>4 DEF Dist, Index
<1>6. (i - t) % RTT_DOWN_BUF_SIZE = Dist(i, t)
  BY <1>2, <1>5, Zenon
<1>7. Dist(i, t) \in 0..(RTT_DOWN_BUF_SIZE - 1) /\ (Dist(i, t) = 0 <=> i = t)
  BY <1>1 DEF Dist, Index
<1>8. Free(i, t) = RTT_DOWN_BUF_SIZE - 1 - Dist(i, t)
  BY <1>1 DEF Free, Dist, Index
<1> QED BY <1>6, <1>7, <1>8, Zenon

\* Distances from the head, for a head that lies d behind the tail.
LEMMA DistHead ==
    ASSUME NEW i \in Index, NEW t \in Index, NEW h \in Index
    PROVE  Dist(i, h) = IF Dist(i, t) < Dist(h, t) THEN Dist(i, t) - Dist(h, t) + RTT_DOWN_BUF_SIZE
                        ELSE Dist(i, t) - Dist(h, t)
BY RttIfAssumption DEF RttIfAssumption, Dist, Index

\* A tail that moves on is one nearer.
LEMMA DistTail ==
    ASSUME NEW i \in Index, NEW t \in Index, i # t
    PROVE  Dist(i, (t + 1) % RTT_DOWN_BUF_SIZE) = Dist(i, t) - 1
<1>1. /\ t + 1 \in Nat /\ t + 1 < 2 * RTT_DOWN_BUF_SIZE
      /\ RTT_DOWN_BUF_SIZE \in Nat /\ RTT_DOWN_BUF_SIZE > 0
  BY RttIfAssumption DEF RttIfAssumption, Index
<1>2. PICK x \in Nat : x = t + 1
  BY <1>1, Zenon
<1> DEFINE m == x % RTT_DOWN_BUF_SIZE
<1>3. m = IF x < RTT_DOWN_BUF_SIZE THEN x ELSE x - RTT_DOWN_BUF_SIZE
  BY <1>1, <1>2, Wrap, Zenon
<1> HIDE DEF m
<1>4. Dist(i, m) = Dist(i, t) - 1
  BY <1>1, <1>2, <1>3 DEF Index, Dist
<1> QED BY <1>2, <1>4, Zenon DEF m

LEMMA ReceiveRing ==
    ASSUME Typed, Ring, HostSends
    PROVE  Ring'
<1> DEFINE B == RTT_DOWN_BUF_SIZE
           D(i) == Dist(i, recv_tail)
           H == Dist(recv_head, recv_tail)
<1>1. PICK len \in 1..CDCACM_PACKET_SIZE : sent + len <= MaxBytes /\ Receive(len)
  BY Zenon DEF HostSends
<1>2. /\ B \in Nat /\ len \in Nat /\ sent \in Nat /\ ch \in Nat /\ recv_buf \in [Index -> Nat]
      /\ recv_head \in Index /\ recv_tail \in Index
      /\ recv_bytes_free = Free(recv_head, recv_tail)
      /\ Free(recv_head, recv_tail) \in 0..(B - 1)
  BY FreeOf, FreeType, RttIfAssumption, SMTT(60) DEF RttIfAssumption, Typed, RttTypeOK
<1>3. PICK n \in Nat : n <= recv_bytes_free /\ n <= len /\ Copy(n)
  BY <1>1, <1>2 DEF Receive
<1>4. sent' = sent + len /\ UNCHANGED <<recv_tail, mode, pc, ch>>
  BY <1>1, Zenon DEF Receive
<1>5. recv_head' \in Index /\ Dist(recv_head', recv_tail) = H + n /\ H \in Nat /\ H + n < B
  <2>1. recv_head' = (recv_head + n) % RTT_DOWN_BUF_SIZE
    BY <1>3, Zenon DEF Copy
  <2>2. recv_head' \in Index /\ Free(recv_head', recv_tail) = Free(recv_head, recv_tail) - n
    BY <1>2, <1>3, <2>1, HeadMoves, Zenon
  <2>3. /\ Free(recv_head, recv_tail) = B - 1 - H /\ H \in 0..(B - 1)
        /\ Free(recv_head', recv_tail) = B - 1 - Dist(recv_head', recv_tail)
        /\ Dist(recv_head', recv_tail) \in 0..(B - 1)
    BY <1>2, <2>2, DistType, Zenon
  <2> HIDE DEF H
  <2> QED BY <1>2, <1>3, <2>2, <2>3
<1>6. \A i \in Index : recv_buf'[i] = IF Dist(i, recv_head) < n THEN sent + 1 + Dist(i, recv_head) ELSE recv_buf[i]
  BY <1>2, <1>3, DistType, ZenonT(60) DEF Copy
<1>7. \A i \in Index : D(i) \in Nat /\ D(i) < B
  BY <1>2, DistType
<1>8. \A i \in Index : Dist(i, recv_head) = IF D(i) < H THEN D(i) - H + B ELSE D(i) - H
  BY <1>2, DistHead, Zenon
<1> HIDE DEF B, D, H
<1>9. \A i \in Index : D(i) < H + n =>
        recv_buf'[i] = IF D(i) < H THEN recv_buf[i] ELSE sent + 1 + D(i) - H
  BY <1>2, <1>3, <1>5, <1>6, <1>7, <1>8
<1>10. /\ \A i, j \in Index : D(j) < H /\ D(i) < D(j) => recv_buf[i] < recv_buf[j]
       /\ \A i \in Index : D(i) < H => recv_buf[i] <= sent /\ (pc # "advance" => ch < recv_buf[i])
       /\ pc = "advance" => ch = recv_buf[recv_tail] /\ D(recv_tail) < H
       /\ ch <= sent
  <2>1. pc = "advance" => D(recv_tail) < H
    BY <1>2, DistType DEF Typed, D, H
  <2> QED BY <2>1, Zenon DEF Ring, Held, D, H
<1>11. \A i, j \in Index : D(j) < H + n /\ D(i) < D(j) => recv_buf'[i] < recv_buf'[j]
  <2> SUFFICES ASSUME NEW i \in Index, NEW j \in Index, D(j) < H + n, D(i) < D(j)
               PROVE  recv_buf'[i] < recv_buf'[j]
    BY Zenon
  <2>1. /\ D(i) \in Nat /\ D(j) \in Nat /\ recv_buf[i] \in Nat /\ recv_buf[j] \in Nat
        /\ recv_buf'[i] = IF D(i) < H THEN recv_buf[i] ELSE sent + 1 + D(i) - H
        /\ recv_buf'[j] = IF D(j) < H THEN recv_buf[j] ELSE sent + 1 + D(j) - H
    BY <1>2, <1>5, <1>7, <1>9
  <2>2. /\ D(j) < H => recv_buf[i] < recv_buf[j]
        /\ D(i) < H => recv_buf[i] <= sent
    BY <1>10, Zenon
  <2> QED BY <1>2, <1>5, <2>1, <2>2
<1>12. \A i \in Index : D(i) < H + n => recv_buf'[i] <= sent' /\ (pc' # "advance" => ch' < recv_buf'[i])
  <2> SUFFICES ASSUME NEW i \in Index, D(i) < H + n
               PROVE  recv_buf'[i] <= sent' /\ (pc' # "advance" => ch' < recv_buf'[i])
    BY Zenon
  <2>1. /\ D(i) \in Nat /\ recv_buf[i] \in Nat
        /\ recv_buf'[i] = IF D(i) < H THEN recv_buf[i] ELSE sent + 1 + D(i) - H
    BY <1>2, <1>7, <1>9, Zenon
  <2>2. ch <= sent /\ (D(i) < H => recv_buf[i] <= sent /\ (pc # "advance" => ch < recv_buf[i]))
    BY <1>10, Zenon
  <2> QED BY <1>2, <1>3, <1>4, <1>5, <2>1, <2>2
<1>13. (pc' = "advance" => ch' = recv_buf'[recv_tail']) /\ ch' <= sent'
  BY <1>2, <1>3, <1>4, <1>5, <1>7, <1>9, <1>10
<1>14. /\ \A i, j \in Index : Held(j)' /\ Dist(i, recv_tail') < Dist(j, recv_tail') => recv_buf'[i] < recv_buf'[j]
       /\ \A i \in Index : Held(i)' => recv_buf'[i] <= sent' /\ (pc' # "advance" => ch' < recv_buf'[i])
  BY <1>4, <1>5, <1>11, <1>12, Zenon DEF Held, D, H
<1> QED BY <1>13, <1>14, Zenon DEF Ring

LEMMA RingNext ==
    ASSUME Typed, Ring, [RttNext]_rttVars
    PROVE  Ring'
<1>1. CASE HostSends
  BY <1>1, ReceiveRing, Zenon
<1>2. CASE TakeChar
  <2>1. UNCHANGED <<recv_buf, recv_head, recv_tail, sent>> /\ ch' = recv_buf[recv_tail] /\ pc' = "advance"
    BY <1>2, Zenon DEF TakeChar
  <2>2. Held(recv_tail) /\ recv_tail \in Index
    BY <1>2, DistType DEF TakeChar, Held, Typed, RttTypeOK
  <2> QED BY <2>1, <2>2, Zenon DEF Ring, Held
<1>3. CASE Advance
  <2> DEFINE t == recv_tail
             u == (recv_tail + 1) % RTT_DOWN_BUF_SIZE
  <2>1. /\ UNCHANGED <<recv_buf, recv_head, sent, ch>> /\ pc = "advance" /\ pc' = "test" /\ recv_tail' = u
    BY <1>3, Zenon DEF Advance
  <2>2. /\ recv_head \in Index /\ t \in Index /\ u \in Index /\ recv_head # t
        /\ RTT_DOWN_BUF_SIZE \in Nat /\ recv_buf \in [Index -> Nat]
    BY <2>1, TailMoves, RttIfAssumption, Zenon DEF RttIfAssumption, Typed, RttTypeOK
  <2>3. \A i \in Index : i # t => Dist(i, u) = Dist(i, t) - 1
    BY <2>2, DistTail, Zenon
  <2>4. \A i \in Index : Dist(i, t) \in 0..(RTT_DOWN_BUF_SIZE - 1) /\ (Dist(i, t) = 0 <=> i = t)
    BY <2>2, DistType, Zenon
  <2>5. \A i \in Index : Dist(i, u) \in 0..(RTT_DOWN_BUF_SIZE - 1)
    BY <2>2, DistType, Zenon
  <2>6. Dist(t, u) = RTT_DOWN_BUF_SIZE - 1
    <3>1. Dist(t, t) = 0
      BY <2>2, <2>4, Zenon
    <3>2. Dist(t, u) = IF Dist(t, t) < Dist(u, t) THEN Dist(t, t) - Dist(u, t) + RTT_DOWN_BUF_SIZE
                       ELSE Dist(t, t) - Dist(u, t)
      BY <2>2, DistHead, Zenon
    <3>3. t \in Nat /\ t + 1 < 2 * RTT_DOWN_BUF_SIZE /\ RTT_DOWN_BUF_SIZE > 2
      BY <2>2, RttIfAssumption DEF RttIfAssumption, Index
    <3>4. PICK x \in Nat : x = t + 1
      BY <3>3
    <3> DEFINE m == x % RTT_DOWN_BUF_SIZE
    <3>5. m = IF x < RTT_DOWN_BUF_SIZE THEN x ELSE x - RTT_DOWN_BUF_SIZE
      BY <2>2, <3>3, <3>4, Wrap, SMTT(60)
    <3> HIDE DEF m
    <3>6. m = IF t + 1 < RTT_DOWN_BUF_SIZE THEN t + 1 ELSE t + 1 - RTT_DOWN_BUF_SIZE
      BY <2>2, <3>3, <3>4, <3>5
    <3>7. u = m
      BY <3>4, Zenon DEF m
    <3> HIDE DEF u, t
    <3> QED BY <2>2, <3>3, <3>6, <3>7 DEF Dist, Index
  <2> HIDE DEF t, u
  <2>7. \A i \in Index : Dist(i, u) < Dist(recv_head, u) => i # t /\ Dist(i, t) < Dist(recv_head, t)
    BY <2>2, <2>3, <2>4, <2>5, <2>6, SMTT(60)
  <2>8. \A i, j \in Index : Dist(j, u) < Dist(recv_head, u) /\ Dist(i, u) < Dist(j, u) =>
             Dist(j, t) < Dist(recv_head, t) /\ Dist(i, t) < Dist(j, t)
    BY <2>2, <2>3, <2>4, <2>5, <2>6, <2>7
  <2>9. \A i \in Index : Dist(i, u) < Dist(recv_head, u) => ch < recv_buf[i]
    <3> SUFFICES ASSUME NEW i \in Index, Dist(i, u) < Dist(recv_head, u) PROVE ch < recv_buf[i]
      BY Zenon
    <3>1. Held(i) /\ Dist(t, t) < Dist(i, t)
      BY <2>2, <2>4, <2>7 DEF Held, t
    <3> QED BY <2>1, <2>2, <3>1, Zenon DEF Ring, t
  <2> QED BY <2>1, <2>7, <2>8, <2>9, Zenon DEF Ring, Held, t
<1>4. CASE TestSpace \/ OpenFlow \/ UNCHANGED rttVars
  BY <1>4, Zenon DEF TestSpace, OpenFlow, rttVars, Ring, Held
<1> QED BY <1>1, <1>2, <1>3, <1>4, Zenon DEF RttNext, GetChar

LEMMA SlotDist ==
    ASSUME NEW t \in Index, NEW i \in 0..(RTT_DOWN_BUF_SIZE - 1)
    PROVE  (t + i) % RTT_DOWN_BUF_SIZE \in Index /\ Dist((t + i) % RTT_DOWN_BUF_SIZE, t) = i
<1>1. /\ t + i \in Nat /\ t + i < 2 * RTT_DOWN_BUF_SIZE
      /\ RTT_DOWN_BUF_SIZE \in Nat /\ RTT_DOWN_BUF_SIZE > 0
  BY RttIfAssumption DEF RttIfAssumption, Index
<1>2. PICK x \in Nat : x = t + i
  BY <1>1, Zenon
<1> DEFINE m == x % RTT_DOWN_BUF_SIZE
<1>3. m = IF x < RTT_DOWN_BUF_SIZE THEN x ELSE x - RTT_DOWN_BUF_SIZE
  BY <1>1, <1>2, Wrap, Zenon
<1> HIDE DEF m
<1>4. m \in Index /\ Dist(m, t) = i
  BY <1>1, <1>2, <1>3 DEF Index, Dist
<1> QED BY <1>2, <1>4, Zenon DEF m

LEMMA RingOrdered ==
    ASSUME Typed, Ring
    PROVE  RttInOrder
<1>1. /\ recv_head \in Index /\ recv_tail \in Index /\ RTT_DOWN_BUF_SIZE \in Nat
  BY RttIfAssumption, Zenon DEF RttIfAssumption, Typed, RttTypeOK
<1>2. /\ Used = Dist(recv_head, recv_tail) /\ Used \in 0..(RTT_DOWN_BUF_SIZE - 1)
  <2>1. /\ recv_bytes_free = RTT_DOWN_BUF_SIZE - 1 - Dist(recv_head, recv_tail)
        /\ Dist(recv_head, recv_tail) \in 0..(RTT_DOWN_BUF_SIZE - 1)
    BY <1>1, FreeOf, DistType, Zenon
  <2> QED BY <1>1, <2>1 DEF Used
<1>3. \A i \in 0..(RTT_DOWN_BUF_SIZE - 1) : Slot(i) \in Index /\ Dist(Slot(i), recv_tail) = i
  BY <1>1, SlotDist, Zenon DEF Slot
<1>4. ASSUME NEW i \in 1..(Used - 1)
      PROVE  recv_buf[Slot(i - 1)] < recv_buf[Slot(i)]
  <2>1. i \in 0..(RTT_DOWN_BUF_SIZE - 1) /\ i - 1 \in 0..(RTT_DOWN_BUF_SIZE - 1) /\ i < Used /\ i - 1 < i
    BY <1>1, <1>2
  <2>2. /\ Slot(i) \in Index /\ Dist(Slot(i), recv_tail) = i
        /\ Slot(i - 1) \in Index /\ Dist(Slot(i - 1), recv_tail) = i - 1
    BY <1>3, <2>1, Zenon
  <2> QED BY <1>2, <2>1, <2>2, Zenon DEF Ring, Held
<1>5. Used > 0 /\ pc # "advance" => ch < recv_buf[recv_tail]
  <2>1. Dist(recv_tail, recv_tail) = 0
    BY <1>1, DistType, Zenon
  <2> QED BY <1>1, <1>2, <2>1, Zenon DEF Ring, Held
<1> QED BY <1>4, <1>5, Zenon DEF RttInOrder

---------------------------------------------------------------------------
(* The AUX port.                                                           *)

\* Characters the DMA has still to send.
Pending == dma.len - dma.pos

\* The DMA reads one buffer and the USB interrupt fills the other.
AuxTyped ==
    /\ transmit_buffer \in [0..1 -> Seq(Nat)] /\ aux_out \in Seq(Nat)
    /\ dma \in [buf : 0..1, pos : Nat, len : Nat] /\ dma.pos <= dma.len
    /\ index = 1 - dma.buf /\ consumed \in Nat
    /\ complete => consumed = 0 /\ dma.pos = dma.len
    /\ Len(transmit_buffer[index]) >= consumed /\ Len(transmit_buffer[dma.buf]) >= dma.len

\* What the one still holds follows what was sent, and the other follows on.
AuxFollows ==
    /\ aux_sent = Len(aux_out) + Pending + consumed
    /\ \A p \in (dma.pos + 1)..dma.len : transmit_buffer[dma.buf][p] = Len(aux_out) - dma.pos + p
    /\ \A p \in 1..consumed : transmit_buffer[index][p] = Len(aux_out) + Pending + p

Buffers == AuxTyped /\ AuxFollows /\ AuxInOrder

\* An open endpoint leaves room for a packet in the buffer that is filled.
Room == AuxFits /\ (~nak => ~NoSpace(consumed))

LEMMA Joined ==
    ASSUME NEW s \in Seq(Nat), NEW t \in Seq(Nat)
    PROVE  /\ s \o t \in Seq(Nat) /\ Len(s \o t) = Len(s) + Len(t)
           /\ \A p \in 1..Len(s) : (s \o t)[p] = s[p]
           /\ \A p \in 1..Len(t) : (s \o t)[Len(s) + p] = t[p]
OBVIOUS

LEMMA FirstPart ==
    ASSUME NEW s \in Seq(Nat), NEW k \in Nat, k <= Len(s)
    PROVE  /\ SubSeq(s, 1, k) \in Seq(Nat) /\ Len(SubSeq(s, 1, k)) = k
           /\ \A p \in 1..k : SubSeq(s, 1, k)[p] = s[p]
OBVIOUS

LEMMA AuxReceiveInv ==
    ASSUME Buffers, NEW len \in 1..MaxPacket, AuxReceive(len)
    PROVE  Buffers' /\ (Room => Room')
<1> DEFINE tb == transmit_buffer
           packet == [i \in 1..len |-> aux_sent + i]
           old == SubSeq(tb[index], 1, consumed)
           filled == old \o packet
<1>1. len \in Nat /\ len >= 1 /\ len <= CDCACM_PACKET_SIZE /\ AUX_UART_BUFFER_SIZE \in Nat /\ CDCACM_PACKET_SIZE \in Nat
  BY RttIfAssumption, UartAssumption, SMTT(60) DEF RttIfAssumption, UartAssumption, MaxPacket
<1>2. /\ index \in 0..1 /\ dma.buf \in 0..1 /\ index # dma.buf /\ tb[index] \in Seq(Nat)
      /\ dma.pos \in Nat /\ dma.len \in Nat /\ consumed \in Nat /\ Len(aux_out) \in Nat
      /\ Len(tb[index]) \in Nat /\ Len(tb[index]) >= consumed /\ dma.pos <= dma.len
  BY SMTT(60) DEF Buffers, AuxTyped
<1>3. Pending \in Nat /\ aux_sent = Len(aux_out) + Pending + consumed /\ aux_sent \in Nat
  <2>1. Pending \in Nat
    BY <1>2 DEF Pending
  <2>2. aux_sent = Len(aux_out) + Pending + consumed
    BY Zenon DEF Buffers, AuxFollows
  <2> QED BY <1>2, <2>1, <2>2
<1>4. /\ old \in Seq(Nat) /\ Len(old) = consumed
      /\ \A p \in 1..consumed : old[p] = tb[index][p]
  BY <1>2, FirstPart, Zenon
<1>5. /\ packet \in Seq(Nat) /\ Len(packet) = len /\ \A p \in 1..len : packet[p] = aux_sent + p
  BY <1>1, <1>3
<1>6. /\ transmit_buffer' = [tb EXCEPT ![index] = filled] /\ aux_sent' = aux_sent + len
      /\ ~nak /\ aux_out' = aux_out /\ nak' = NoSpace(consumed')
      /\ IF complete THEN complete' = FALSE /\ SwitchBuffers(consumed + len)
                     ELSE consumed' = consumed + len /\ UNCHANGED <<complete, index, dma>>
  BY Zenon DEF AuxReceive
<1> HIDE DEF packet, old
<1>7. /\ filled \in Seq(Nat) /\ Len(filled) = consumed + len
      /\ \A p \in 1..consumed : filled[p] = old[p]
      /\ \A p \in 1..len : filled[consumed + p] = packet[p]
  BY <1>4, <1>5, Joined, Zenon
<1> HIDE DEF filled
<1>8. \A p \in 1..(consumed + len) : filled[p] = Len(aux_out) + Pending + p
  <2> SUFFICES ASSUME NEW p \in 1..(consumed + len) PROVE filled[p] = Len(aux_out) + Pending + p
    BY Zenon
  <2>1. CASE p \in 1..consumed
    BY <1>4, <1>7, <2>1, Zenon DEF Buffers, AuxFollows
  <2>2. CASE p > consumed
    <3>1. PICK q \in 1..len : p = consumed + q
      <4>1. p - consumed \in 1..len /\ p = consumed + (p - consumed)
        BY <1>1, <1>2, <2>2
      <4> QED BY <4>1, Zenon
    <3>2. filled[p] = aux_sent + q
      BY <1>5, <1>7, <3>1, Zenon
    <3> QED BY <1>1, <1>2, <1>3, <3>1, <3>2
  <2> QED BY <1>1, <1>2, <2>1, <2>2
<1>9. /\ transmit_buffer' \in [0..1 -> Seq(Nat)] /\ transmit_buffer'[index] = filled
      /\ transmit_buffer'[dma.buf] = tb[dma.buf]
  BY <1>2, <1>6, <1>7, Zenon DEF Buffers, AuxTyped
<1>10. AuxInOrder'
  BY <1>6, Zenon DEF Buffers, AuxInOrder
<1>11. CASE complete
  <2>1. /\ dma' = [buf |-> index, pos |-> 0, len |-> consumed + len] /\ consumed' = 0 /\ index' = 1 - index
        /\ complete' = FALSE
    BY <1>6, <1>11, Zenon DEF SwitchBuffers
  <2>2. consumed = 0 /\ Pending = 0
    BY <1>2, <1>11, SMTT(60) DEF Buffers, AuxTyped, Pending
  <2>3. /\ dma' \in [buf : 0..1, pos : Nat, len : Nat] /\ dma'.buf = index /\ dma'.pos = 0
        /\ dma'.len = len
    BY <1>1, <1>2, <2>1, <2>2
  <2>4. Pending' = len
    BY <1>1, <2>3, SMTT(60) DEF Pending
  <2>5. AuxTyped'
    <3>1. transmit_buffer' \in [0..1 -> Seq(Nat)] /\ aux_out' \in Seq(Nat)
      BY <1>6, <1>9, Zenon DEF Buffers, AuxTyped
    <3>2. index' = 1 - dma'.buf /\ index' \in 0..1
      BY <1>2, <2>1, <2>3, SMTT(60)
    <3>3. Len(filled) = len
      BY <1>1, <1>7, <2>2, SMTT(60)
    <3>4. Len(transmit_buffer'[dma'.buf]) >= dma'.len
      BY <1>1, <1>9, <2>3, <3>3
    <3>5. Len(transmit_buffer'[index']) >= 0
      BY <3>1, <3>2, SMTT(60)
    <3> QED BY <1>1, <2>1, <2>3, <3>1, <3>2, <3>4, <3>5 DEF AuxTyped
  <2>6. AuxFollows'
    BY <1>1, <1>2, <1>3, <1>6, <1>8, <1>9, <2>1, <2>2, <2>3, <2>4, SMTT(60) DEF AuxFollows
  <2>7. Room => Room'
    BY <1>1, <1>6, <2>1, <2>2, <2>3 DEF Room, AuxFits, NoSpace
  <2> QED BY <1>10, <2>5, <2>6, <2>7, Zenon DEF Buffers
<1>12. CASE ~complete
  <2>1. consumed' = consumed + len /\ UNCHANGED <<complete, index, dma>>
    BY <1>6, <1>12, Zenon
  <2>2. Pending' = Pending
    BY <2>1, Zenon DEF Pending
  <2>3. AuxTyped'
    <3>1. Len(transmit_buffer'[index']) >= consumed' /\ Len(transmit_buffer'[dma'.buf]) >= dma'.len
      <4>1. Len(tb[dma.buf]) >= dma.len
        BY Zenon DEF Buffers, AuxTyped
      <4>2. Len(filled) = consumed + len
        BY <1>7, Zenon
      <4> QED BY <1>1, <1>2, <1>9, <2>1, <4>1, <4>2, SMTT(60)
    <3>2. transmit_buffer' \in [0..1 -> Seq(Nat)] /\ aux_out' \in Seq(Nat) /\ consumed' \in Nat
      <4>1. aux_out \in Seq(Nat)
        BY Zenon DEF Buffers, AuxTyped
      <4> QED BY <1>1, <1>2, <1>6, <1>9, <2>1, <4>1
    <3>3. /\ dma' \in [buf : 0..1, pos : Nat, len : Nat] /\ dma'.pos <= dma'.len /\ index' = 1 - dma'.buf
          /\ ~complete'
      BY <1>12, <2>1, Zenon DEF Buffers, AuxTyped
    <3> QED BY <3>1, <3>2, <3>3, Zenon DEF AuxTyped
  <2>4. AuxFollows'
    <3>1. aux_sent' = Len(aux_out') + Pending' + consumed'
      BY <1>1, <1>2, <1>3, <1>6, <2>1, <2>2
    <3>2. \A p \in (dma'.pos + 1)..dma'.len : transmit_buffer'[dma'.buf][p] = Len(aux_out') - dma'.pos + p
      BY <1>6, <1>9, <2>1, Zenon DEF Buffers, AuxFollows
    <3>3. \A p \in 1..consumed' : transmit_buffer'[index'][p] = Len(aux_out') + Pending' + p
      BY <1>6, <1>8, <1>9, <2>1, <2>2, Zenon
    <3> QED BY <3>1, <3>2, <3>3, ZenonT(60) DEF AuxFollows
  <2>5. ASSUME Room PROVE Room'
    <3>1. ~NoSpace(consumed)
      BY <1>6, <2>5, Zenon DEF Room
    <3>2. AuxFits'
      BY <1>1, <1>2, <2>1, <2>5, <3>1 DEF Room, AuxFits, NoSpace
    <3>3. ~nak' => ~NoSpace(consumed')
      BY <1>6, Zenon
    <3> QED BY <3>2, <3>3, Zenon DEF Room
  <2> QED BY <1>10, <2>3, <2>4, <2>5, Zenon DEF Buffers
<1> QED BY <1>11, <1>12, Zenon

LEMMA DmaShiftInv ==
    ASSUME Buffers, DmaShift
    PROVE  Buffers'
<1> DEFINE c == transmit_buffer[dma.buf][dma.pos + 1]
           n == Len(aux_out)
<1>1. /\ dma \in [buf : 0..1, pos : Nat, len : Nat] /\ dma.pos < dma.len /\ n \in Nat /\ aux_out \in Seq(Nat)
      /\ consumed \in Nat
  BY DEF Buffers, AuxTyped, DmaShift
<1>2. /\ aux_out' = Append(aux_out, c) /\ dma' = [dma EXCEPT !.pos = @ + 1]
      /\ UNCHANGED <<transmit_buffer, index, consumed, complete, aux_sent>>
  BY Zenon DEF DmaShift
<1>3. c = n + 1
  <2>1. dma.pos + 1 \in (dma.pos + 1)..dma.len
    BY <1>1
  <2>2. c = n - dma.pos + (dma.pos + 1)
    BY <2>1, Zenon DEF Buffers, AuxFollows
  <2> QED BY <1>1, <2>2
<1>4. /\ dma' \in [buf : 0..1, pos : Nat, len : Nat] /\ dma'.buf = dma.buf /\ dma'.len = dma.len
      /\ dma'.pos = dma.pos + 1
  BY <1>1, <1>2, SMTT(60)
<1> HIDE DEF c
<1>5. /\ aux_out' \in Seq(Nat) /\ Len(aux_out') = n + 1
      /\ \A i \in 1..(n + 1) : aux_out'[i] = IF i = n + 1 THEN c ELSE aux_out[i]
  BY <1>1, <1>2, <1>3
<1>6. AuxInOrder'
  <2>1. \A i \in 1..n : aux_out[i] = i
    BY Zenon DEF Buffers, AuxInOrder
  <2> HIDE DEF n
  <2>2. \A i \in 1..(n + 1) : aux_out'[i] = i
    BY <1>1, <1>3, <1>5, <2>1, SMTT(60)
  <2> QED BY <1>5, <2>2, Zenon DEF AuxInOrder
<1>7. Pending' = Pending - 1 /\ Pending \in Nat
  BY <1>1, <1>4 DEF Pending
<1>8. AuxTyped'
  <2>1. complete' => FALSE
    BY <1>1, <1>2 DEF Buffers, AuxTyped
  <2> QED BY <1>1, <1>2, <1>4, <1>5, <2>1, SMTT(60) DEF Buffers, AuxTyped
<1>9. AuxFollows'
  <2>1. aux_sent' = Len(aux_out') + Pending' + consumed'
    <3>1. aux_sent = n + Pending + consumed
      BY Zenon DEF Buffers, AuxFollows
    <3> HIDE DEF n
    <3> QED BY <1>1, <1>2, <1>5, <1>7, <3>1
  <2>2. ASSUME NEW p \in (dma'.pos + 1)..dma'.len
        PROVE  transmit_buffer'[dma'.buf][p] = Len(aux_out') - dma'.pos + p
    <3>1. p \in (dma.pos + 1)..dma.len
      BY <1>1, <1>4
    <3>2. transmit_buffer[dma.buf][p] = n - dma.pos + p
      BY <3>1, Zenon DEF Buffers, AuxFollows
    <3> HIDE DEF n
    <3> QED BY <1>1, <1>2, <1>4, <1>5, <3>1, <3>2, SMTT(60)
  <2>3. ASSUME NEW p \in 1..consumed'
        PROVE  transmit_buffer'[index'][p] = Len(aux_out') + Pending' + p
    <3>1. transmit_buffer[index][p] = n + Pending + p
      BY <1>2, Zenon DEF Buffers, AuxFollows
    <3> HIDE DEF n
    <3> QED BY <1>1, <1>2, <1>5, <1>7, <3>1
  <2> QED BY <2>1, <2>2, <2>3, Zenon DEF AuxFollows
<1> QED BY <1>6, <1>8, <1>9, Zenon DEF Buffers

LEMMA DmaDoneInv ==
    ASSUME Buffers, DmaDone
    PROVE  Buffers' /\ (Room => Room')
<1>1. /\ dma \in [buf : 0..1, pos : Nat, len : Nat] /\ dma.pos = dma.len /\ consumed \in Nat
      /\ index = 1 - dma.buf /\ UNCHANGED <<transmit_buffer, aux_sent, aux_out>> /\ Len(aux_out) \in Nat
  BY DEF Buffers, AuxTyped, DmaDone
<1>2. Pending = 0
  BY <1>1 DEF Pending
<1>3. AuxInOrder'
  BY <1>1, Zenon DEF Buffers, AuxInOrder
<1>4. aux_sent = Len(aux_out) + consumed
  <2>1. aux_sent = Len(aux_out) + Pending + consumed
    BY Zenon DEF Buffers, AuxFollows
  <2> QED BY <1>1, <1>2, <2>1
<1>5. CASE consumed > 0
  <2>1. /\ dma' = [buf |-> index, pos |-> 0, len |-> consumed] /\ consumed' = 0 /\ index' = 1 - index
        /\ complete' = complete /\ ~complete /\ nak' = FALSE
    BY <1>5, Zenon DEF DmaDone, BufferReady, SwitchBuffers, Reopen
  <2>2. /\ dma' \in [buf : 0..1, pos : Nat, len : Nat] /\ dma'.buf = index /\ dma'.pos = 0
        /\ dma'.len = consumed /\ index' = dma.buf /\ index \in 0..1
    BY <1>1, <2>1
  <2>3. Pending' = consumed
    BY <1>1, <2>2, SMTT(60) DEF Pending
  <2>4. AuxTyped'
    BY <1>1, <2>1, <2>2, SMTT(60) DEF Buffers, AuxTyped
  <2>5. AuxFollows'
    <3>1. ASSUME NEW p \in 1..consumed
          PROVE  transmit_buffer[index][p] = Len(aux_out) - 0 + p
      <4>1. transmit_buffer[index][p] = Len(aux_out) + Pending + p
        BY Zenon DEF Buffers, AuxFollows
      <4> QED BY <1>1, <1>2, <4>1
    <3> QED BY <1>1, <1>4, <2>1, <2>2, <2>3, <3>1, SMTT(60) DEF AuxFollows
  <2>6. Room => Room'
    BY <1>1, <2>1, <2>2, UartAssumption, RttIfAssumption
    DEF UartAssumption, RttIfAssumption, Room, AuxFits, NoSpace
  <2> QED BY <1>3, <2>4, <2>5, <2>6, Zenon DEF Buffers
<1>6. CASE ~(consumed > 0)
  <2>1. complete' = TRUE /\ UNCHANGED <<index, consumed, dma, nak>> /\ consumed = 0
    BY <1>1, <1>6 DEF DmaDone, BufferReady
  <2>2. AuxTyped' /\ AuxFollows'
    BY <1>1, <2>1, Zenon DEF Buffers, AuxTyped, AuxFollows, Pending
  <2> QED BY <1>3, <2>1, <2>2, Zenon DEF Buffers, Room, AuxFits
<1> QED BY <1>5, <1>6, Zenon

---------------------------------------------------------------------------
(* The endpoint that both share.                                           *)

\* Each side has the room it needs while the other does not open the endpoint
\* against it.
SharedInv ==
    /\ Typed /\ Ring /\ Buffers
    /\ "rtt" \notin overruled => Margin
    /\ "aux" \notin overruled => Room

LEMMA SharedInit ==
    ASSUME UartInit
    PROVE  SharedInv
<1>1. Typed /\ Margin
  BY InitInv, Zenon DEF UartInit, IInv
<1>2. Ring
  <2>1. ~\E i \in Index : Held(i)
    <3>1. 0 \in Index /\ Dist(0, 0) = 0 /\ \A i \in Index : Dist(i, 0) >= 0
      BY RttIfAssumption, SMTT(60) DEF RttIfAssumption, Index, Dist
    <3> QED BY <3>1, DistType, RttIfAssumption DEF RttIfAssumption, UartInit, RttInit, Held
  <2> QED BY <2>1, SMTT(60) DEF UartInit, RttInit, Ring
<1>3. Buffers
  <2>1. <<>> \in Seq(Nat) /\ Len(<<>>) = 0
    BY SMTT(60)
  <2> QED BY <2>1 DEF UartInit, Buffers, AuxTyped, AuxFollows, AuxInOrder, Pending
<1>4. Room
  BY UartAssumption, RttIfAssumption DEF UartAssumption, RttIfAssumption, UartInit, Room, AuxFits, NoSpace
<1> QED BY <1>1, <1>2, <1>3, <1>4, Zenon DEF SharedInv

LEMMA SharedNext ==
    ASSUME SharedInv, [UartNext]_uartVars
    PROVE  SharedInv'
<1> USE DEF SharedInv
<1>1. CASE HostSendsAux
  <2>1. PICK len \in 1..MaxPacket : AuxReceive(len)
    BY <1>1, Zenon DEF HostSendsAux
  <2>2. Buffers' /\ (Room => Room')
    BY <2>1, AuxReceiveInv, Zenon
  <2>3. /\ UNCHANGED <<recv_buf, recv_head, recv_tail, mode, pc, ch, sent, lost, overruled>>
        /\ ~nak /\ nak' \in BOOLEAN
    BY <2>1 DEF AuxReceive, NoSpace
  <2>4. Typed' /\ Ring' /\ (Margin => Margin')
    <3>1. Typed' /\ Ring'
      BY <2>3, Zenon DEF Typed, RttTypeOK, Ring, Held
    <3>2. Margin => Margin'
      BY <2>3, Zenon DEF Margin, recv_bytes_free
    <3> QED BY <3>1, <3>2, Zenon
  <2> QED BY <2>2, <2>3, <2>4, Zenon
<1>2. CASE HostSendsRtt
  <2>1. HostSends /\ UNCHANGED auxVars /\ ~nak
    BY <1>2, RttIfAssumption DEF RttIfAssumption, HostSendsRtt, HostSends, MaxPacket, Receive
  <2>2. Typed' /\ Ring' /\ (Margin => Margin')
    BY <2>1, NextInv, RingNext, Zenon DEF RttNext
  <2>3. Buffers' /\ (Room => Room')
    BY <2>1, Zenon DEF auxVars, Buffers, AuxTyped, AuxFollows, AuxInOrder, Pending, Room, AuxFits
  <2> QED BY <2>1, <2>2, <2>3, ZenonT(60) DEF auxVars
<1>3. CASE PollRtt
  <2>1. /\ GetChar /\ UNCHANGED <<transmit_buffer, index, consumed, complete, dma, aux_sent, aux_out>>
        /\ overruled' = overruled \cup {u \in {"aux"} : pc = "open" /\ NoSpace(consumed)}
    BY <1>3, Zenon DEF PollRtt
  <2>2. Typed' /\ Ring' /\ (Margin => Margin')
    BY <2>1, NextInv, RingNext, Zenon DEF RttNext
  <2>3. Buffers'
    BY <2>1, Zenon DEF Buffers, AuxTyped, AuxFollows, AuxInOrder, Pending
  <2>4. /\ "rtt" \notin overruled' => "rtt" \notin overruled
        /\ "aux" \notin overruled' => "aux" \notin overruled /\ ~(pc = "open" /\ NoSpace(consumed))
    BY <2>1, Zenon
  <2>5. nak' = nak \/ pc = "open"
    BY <2>1, Zenon DEF GetChar, TakeChar, Advance, TestSpace, OpenFlow
  <2>6. "aux" \notin overruled' => Room'
    BY <2>1, <2>4, <2>5, Zenon DEF Room, AuxFits, NoSpace
  <2> QED BY <2>2, <2>3, <2>4, <2>6, Zenon
<1>4. CASE DmaShift
  <2>1. Buffers'
    BY <1>4, DmaShiftInv, Zenon
  <2>2. UNCHANGED <<rttVars, consumed, overruled>> /\ dma'.len = dma.len
    BY <1>4, Zenon DEF DmaShift, Buffers, AuxTyped
  <2>3. Typed' /\ Ring' /\ (Margin => Margin') /\ (Room => Room')
    <3>1. Typed' /\ Ring' /\ (Margin => Margin')
      BY <2>2, Zenon DEF rttVars, Typed, RttTypeOK, Ring, Held, Margin, recv_bytes_free
    <3>2. Room => Room'
      BY <2>2, Zenon DEF rttVars, Room, AuxFits, NoSpace
    <3> QED BY <3>1, <3>2, Zenon
  <2> QED BY <2>1, <2>2, <2>3, Zenon
<1>5. CASE DmaDone
  <2>1. Buffers' /\ (Room => Room')
    BY <1>5, DmaDoneInv, SMTT(30)
  <2>2. /\ UNCHANGED <<recv_buf, recv_head, recv_tail, mode, pc, ch, sent, lost>>
        /\ \/ UNCHANGED <<nak, overruled>>
           \/ nak' = FALSE /\ overruled' = overruled \cup {u \in {"rtt"} : recv_set_nak(recv_bytes_free)}
    BY <1>5, Zenon DEF DmaDone, Reopen
  <2>3. Typed' /\ Ring'
    BY <2>2, Zenon DEF Typed, RttTypeOK, Ring, Held
  <2>4. /\ "aux" \notin overruled' => "aux" \notin overruled
        /\ "rtt" \notin overruled' => "rtt" \notin overruled /\ (nak' = nak \/ ~recv_set_nak(recv_bytes_free))
    BY <2>2, Zenon
  <2>5. "rtt" \notin overruled' => Margin'
    <3>1. recv_bytes_free' = recv_bytes_free /\ recv_bytes_free \in Nat /\ CDCACM_PACKET_SIZE \in Nat
      BY <2>2, FreeOf, FreeType, RttIfAssumption DEF RttIfAssumption, Typed, RttTypeOK, recv_bytes_free
    <3>2. ~recv_set_nak(recv_bytes_free) =>
            recv_bytes_free >= 2 * CDCACM_PACKET_SIZE /\ recv_bytes_free >= CDCACM_PACKET_SIZE
      BY <3>1 DEF recv_set_nak
    <3> QED BY <2>2, <2>4, <3>1, <3>2, SMTT(60) DEF Margin
  <2> QED BY <2>1, <2>3, <2>4, <2>5, Zenon
<1>6. CASE Toggle \/ UNCHANGED uartVars
  <2>1. UNCHANGED <<rttVars, auxVars>>
    BY <1>6, Zenon DEF Toggle, uartVars
  <2>2. Typed' /\ Ring' /\ (Margin => Margin')
    BY <2>1, Zenon DEF rttVars, Typed, RttTypeOK, Ring, Held, Margin, recv_bytes_free
  <2>3. Buffers' /\ (Room => Room')
    BY <2>1, Zenon DEF rttVars, auxVars, Buffers, AuxTyped, AuxFollows, AuxInOrder, Pending, Room, AuxFits, NoSpace
  <2>4. overruled' = overruled
    BY <2>1, Zenon DEF auxVars
  <2> QED BY <2>2, <2>3, <2>4, Zenon
<1> QED BY <1>1, <1>2, <1>3, <1>4, <1>5, <1>6, Zenon DEF UartNext

LEMMA SharedHolds == UartSpec => []SharedInv
BY SharedInit, SharedNext, PTL DEF UartSpec

\* Characters keep their order through rtt_serial_receive_callback and
\* rtt_getchar, and through the two transmit buffers of aux_serial.c, which
\* no packet overruns unless rtt_getchar opened the endpoint that AUX closed.
THEOREM OrderKept == UartSpec => []InOrder
<1>1. SharedInv => InOrder
  BY RingOrdered, Zenon DEF SharedInv, Buffers, Room, InOrder
<1> QED BY SharedHolds, <1>1, PTL

\* On the endpoint shared with AUX a blocking RTT channel loses a character only
\* after aux_serial_dma_transmit_isr opened the endpoint that RTT needs closed.
THEOREM SharedLosesNothing == UartSpec => []SharedNoLoss
<1>1. SharedInv => SharedNoLoss
  BY Zenon DEF SharedInv, Margin, SharedNoLoss, BlockingNoLoss
<1> QED BY SharedHolds, <1>1, PTL

---------------------------------------------------------------------------
(* GDB's endpoint.                                                         *)

\* s holds the characters that follow the b-th one.
Holds(s, b) == s \in Seq(Nat) /\ \A i \in 1..Len(s) : s[i] = b + i

EndpointTypes ==
    /\ from_host \in Nat /\ out_ptr \in Nat
    /\ taken \in Seq(Nat) /\ buffer_out \in Seq(Nat) /\ double_buffer \in Seq(Nat) /\ ep_out \in Seq(Nat)

\* The three buffers continue what was read, one after the other; the second one
\* is filled only while the endpoint is empty and closed.
Chained ==
    LET b == Len(taken) - out_ptr
        d == b + Len(buffer_out)
        e == d + Len(double_buffer)
    IN
    /\ out_ptr <= Len(taken) /\ out_ptr <= Len(buffer_out)
    /\ Holds(taken, 0) /\ Holds(buffer_out, b) /\ Holds(double_buffer, d)
    /\ ep_full => Holds(ep_out, e) /\ from_host = e + Len(ep_out)
    /\ ~ep_full => from_host = e

Closed == double_buffer # <<>> => double /\ out_nak /\ ~ep_full

OutInv == EndpointTypes /\ Chained /\ Closed

LEMMA Numbered ==
    ASSUME NEW n \in Nat, NEW b \in Nat
    PROVE  /\ [i \in 1..n |-> b + i] \in Seq(Nat)
           /\ Len([i \in 1..n |-> b + i]) = n
           /\ Holds([i \in 1..n |-> b + i], b)
<1>1. [i \in 1..n |-> b + i] \in Seq(Nat) /\ Len([i \in 1..n |-> b + i]) = n
  OBVIOUS
<1> QED BY <1>1, Zenon DEF Holds

LEMMA Longer ==
    ASSUME NEW s, Holds(s, 0)
    PROVE  /\ Holds(Append(s, Len(s) + 1), 0)
           /\ Len(Append(s, Len(s) + 1)) = Len(s) + 1
BY DEF Holds

LEMMA EmptyHolds ==
    ASSUME NEW b \in Nat
    PROVE  Holds(<<>>, b)
BY DEF Holds

LEMMA OutInit ==
    ASSUME EndpointInit
    PROVE  OutInv
<1>1. EndpointTypes
  BY SMTT(60) DEF EndpointInit, EndpointTypes
<1>2. Chained
  BY EmptyHolds DEF EndpointInit, Chained
<1> QED BY <1>1, <1>2, Zenon DEF OutInv, EndpointInit, Closed

\* Steps that leave this direction alone keep the invariant.
LEMMA Rest ==
    ASSUME OutInv, UNCHANGED <<double, outVars>>
    PROVE  OutInv'
BY Zenon DEF OutInv, EndpointTypes, Chained, Closed, Holds, outVars

LEMMA SendInv ==
    ASSUME OutInv, HostSendsGdb
    PROVE  OutInv'
<1>1. PICK n \in 0..GdbPacketSize :
        /\ ~ep_full /\ ~out_nak
        /\ ep_full' = TRUE /\ ep_out' = [i \in 1..n |-> from_host + i]
        /\ from_host' = from_host + n
        /\ UNCHANGED <<double, out_nak, double_buffer, buffer_out, out_ptr, taken>>
  BY Zenon DEF HostSendsGdb
<1>2. n \in Nat
  BY EndpointAssumption DEF EndpointAssumption
<1>3. ep_out' \in Seq(Nat) /\ Len(ep_out') = n /\ Holds(ep_out', from_host)
  BY <1>1, <1>2, Numbered, Zenon DEF OutInv, EndpointTypes
<1>4. EndpointTypes'
  BY <1>1, <1>2, <1>3 DEF OutInv, EndpointTypes
<1>5. Chained'
  BY <1>1, <1>2, <1>3, Zenon DEF OutInv, EndpointTypes, Chained, Holds
<1>6. Closed'
  BY <1>1, Zenon DEF OutInv, Closed
<1> QED BY <1>4, <1>5, <1>6, Zenon DEF OutInv

LEMMA CallbackInv ==
    ASSUME OutInv, gdb_usb_out_cb
    PROVE  OutInv'
<1>1. ep_full /\ ~ep_full' /\ double_buffer' = ep_out
      /\ UNCHANGED <<ep_out, buffer_out, out_ptr, from_host, taken>>
  BY Zenon DEF gdb_usb_out_cb
<1>2. double_buffer = <<>>
  BY <1>1, Zenon DEF OutInv, Closed
<1>3. EndpointTypes'
  BY <1>1, Zenon DEF OutInv, EndpointTypes
<1>4. Chained'
  BY <1>1, <1>2 DEF OutInv, EndpointTypes, Chained, Holds
<1>5. Closed'
  BY Zenon DEF gdb_usb_out_cb, NakUntilRead, Closed
<1> QED BY <1>3, <1>4, <1>5, Zenon DEF OutInv

LEMMA UpdateInv ==
    ASSUME OutInv, gdb_if_update_buf
    PROVE  OutInv'
<1>1. out_ptr = Len(buffer_out) /\ UNCHANGED <<from_host, taken>>
  BY DEF OutInv, EndpointTypes, Chained, gdb_if_update_buf, Consumed
<1>2. CASE double
  <2>1. /\ buffer_out' = double_buffer /\ double_buffer' = <<>> /\ out_ptr' = 0
        /\ UNCHANGED <<ep_full, ep_out>>
    BY <1>2, Zenon DEF gdb_if_update_buf
  <2>2. EndpointTypes'
    BY <1>1, <2>1, SMTT(60) DEF OutInv, EndpointTypes
  <2>3. Chained'
    BY <1>1, <2>1 DEF OutInv, EndpointTypes, Chained, Holds
  <2>4. Closed'
    BY <2>1, Zenon DEF Closed
  <2> QED BY <2>2, <2>3, <2>4, Zenon DEF OutInv
<1>3. CASE ~double
  <2>1. double_buffer = <<>>
    BY <1>3, Zenon DEF OutInv, Closed
  <2>2. /\ buffer_out' = IF ep_full THEN ep_out ELSE <<>>
        /\ out_ptr' = 0 /\ ~ep_full'
        /\ UNCHANGED <<ep_out, double_buffer>>
    BY <1>3, Zenon DEF gdb_if_update_buf
  <2>3. EndpointTypes'
    BY <1>1, <2>2 DEF OutInv, EndpointTypes
  <2>4. Closed'
    BY <2>1, <2>2, Zenon DEF Closed
  <2>5. CASE ep_full
    <3>1. buffer_out' = ep_out
      BY <2>2, <2>5, ZenonT(60)
    <3>2. Chained'
      BY <1>1, <2>1, <2>2, <2>5, <3>1, SMTT(60) DEF OutInv, EndpointTypes, Chained, Holds
    <3> QED BY <2>3, <2>4, <3>2, Zenon DEF OutInv
  <2>6. CASE ~ep_full
    <3>1. buffer_out' = <<>>
      BY <2>2, <2>6, ZenonT(60)
    <3>2. Chained'
      BY <1>1, <2>1, <2>2, <2>6, <3>1, SMTT(60) DEF OutInv, EndpointTypes, Chained, Holds
    <3> QED BY <2>3, <2>4, <3>2, Zenon DEF OutInv
  <2> QED BY <2>5, <2>6, Zenon
<1> QED BY <1>2, <1>3, Zenon

LEMMA ReadInv ==
    ASSUME OutInv, ReadGdbChar
    PROVE  OutInv'
<1>1. out_ptr < Len(buffer_out) /\ buffer_out[out_ptr + 1] = Len(taken) + 1
  BY SMTT(60) DEF OutInv, EndpointTypes, Chained, Holds, ReadGdbChar, Consumed
<1>2. taken' = Append(taken, Len(taken) + 1) /\ out_ptr' = out_ptr + 1
  BY <1>1, Zenon DEF ReadGdbChar
<1>3. Holds(taken', 0) /\ Len(taken') = Len(taken) + 1
  BY <1>2, Longer, Zenon DEF OutInv, Chained
<1>4. EndpointTypes'
  BY <1>2, <1>3 DEF OutInv, EndpointTypes, Holds, ReadGdbChar
<1>5. Len(taken') - out_ptr' = Len(taken) - out_ptr
  BY <1>2, <1>3 DEF OutInv, EndpointTypes
<1>6. UNCHANGED <<double, ep_full, ep_out, out_nak, double_buffer, buffer_out, from_host>>
  BY Zenon DEF ReadGdbChar
<1>7. out_ptr' <= Len(taken') /\ out_ptr' <= Len(buffer_out')
  BY <1>1, <1>2, <1>3, <1>6 DEF OutInv, EndpointTypes, Chained
<1>8. Chained'
  BY <1>3, <1>5, <1>6, <1>7, Zenon DEF OutInv, Chained, Holds
<1>9. Closed'
  BY <1>6, Zenon DEF OutInv, Closed
<1> QED BY <1>4, <1>8, <1>9, Zenon DEF OutInv

LEMMA StepInv ==
    ASSUME OutInv, [EndpointNext]_endpointVars
    PROVE  OutInv'
<1>1. CASE HostSendsGdb
  BY <1>1, SendInv, Zenon
<1>2. CASE gdb_usb_out_cb
  BY <1>2, CallbackInv, Zenon
<1>3. CASE gdb_if_update_buf
  BY <1>3, UpdateInv, Zenon
<1>4. CASE ReadGdbChar
  BY <1>4, ReadInv, Zenon
<1>5. CASE \E flush \in BOOLEAN : gdb_if_putchar(flush)
  BY <1>5, Rest, Zenon DEF gdb_if_putchar
<1>6. CASE WritePacket
  BY <1>6, Rest, Zenon DEF WritePacket
<1>7. CASE HostReads
  BY <1>7, Rest, Zenon DEF HostReads
<1>8. CASE SetControlLineState
  BY <1>8, Rest, Zenon DEF SetControlLineState
<1>9. CASE UNCHANGED endpointVars
  BY <1>9, Rest, Zenon DEF endpointVars
<1> QED BY <1>1, <1>2, <1>3, <1>4, <1>5, <1>6, <1>7, <1>8, <1>9, Zenon DEF EndpointNext

\* What gdb_if_getchar returns is what the host sent, in order, nothing twice and
\* nothing missing: the interrupt that fills the second buffer never overwrites
\* characters that were not read, since it closes the endpoint before.
THEOREM ReadsInOrder == EndpointSpec => []ReadInOrder
<1>1. EndpointInit => OutInv
  BY OutInit, Zenon
<1>2. OutInv /\ [EndpointNext]_endpointVars => OutInv'
  BY StepInv, Zenon
<1>3. OutInv => ReadInOrder
  BY DEF OutInv, EndpointTypes, Chained, Holds, ReadInOrder, Counts
<1> QED BY <1>1, <1>2, <1>3, PTL DEF EndpointSpec
=============================================================================
