-------------------------- MODULE DebugLinkProofs --------------------------
(***************************************************************************)
(* The link to the target.  No memory write goes astray, for every size of *)
(* memory and of the pages in which TAR counts, wherever there are holes,  *)
(* and for any number of lost transactions, and an access that nothing     *)
(* disturbs moves its bytes.  Host and port agree on every edge on the SWD *)
(* wire, for every number of data bits.  The bits captured on JTAG are all *)
(* stored, for every length of a sequence.                                 *)
(***************************************************************************)
EXTENDS AdiMem, JtagTap, SwdWire, TLAPS

---------------------------------------------------------------------------
(* Memory accesses: the inductive invariant.                               *)

Byte == [at : Int, new : BOOLEAN]

PortType == [mine : BOOLEAN, tar : Int, size : {1, 2, 4}, sticky : BOOLEAN, buffer : [0..3 -> Byte]]

MemTypes ==
    /\ transport \in {"swd", "jtag"} /\ spoiled \in Nat
    /\ op.addr \in Nat /\ op.len \in Nat /\ op.width \in {1, 2, 4}
    /\ cursor \in Nat /\ left \in Nat
    /\ port \in PortType
    /\ mem \in [Addresses -> Byte]

\* The cursor stays aligned and inside the request.
Inside ==
    /\ op.addr <= cursor /\ cursor % op.width = 0
    /\ cursor + left * op.width <= op.addr + op.len

\* An access to the access port would be carried out, and nothing was lost.
Trusted ==
    \/ transport = "swd" /\ fault = "none"
    \/ transport = "jtag" /\ spoiled = 0 /\ ~port.sticky

\* What the setup has reached.  After a write to a hole TAR stays there, so
\* that every write up to the next page fails as well.
Setup ==
    op.kind = "write" /\ Trusted =>
        /\ mpc \in {"csw", "tar", "retar", "write"} => port.mine
        /\ mpc \in {"tar", "retar", "write"} => port.size = op.width
        /\ mpc = "write" => port.tar = cursor \/ ~Mapped(port)

IInv ==
    /\ MemTypes /\ Inside /\ Setup /\ NoStrayWrite
    /\ op.kind \in {"read", "write"}
    /\ mpc \in {"dummy", "loop"} => op.kind = "read"
    /\ mpc = "write" => op.kind = "write"

---------------------------------------------------------------------------
(* Arithmetic.                                                             *)

LEMMA Aligned ==
    ASSUME NEW a \in Nat, NEW n \in Nat
    PROVE  LET w == Smaller(AlignOf(a), AlignOf(n))
           IN w \in {1, 2, 4} /\ a % w = 0 /\ (n \div w) * w = n
<1>1. AlignOf(a) \in {1, 2, 4} /\ AlignOf(n) \in {1, 2, 4}
  BY Zenon DEF AlignOf
<1>2. a % AlignOf(a) = 0 /\ n % AlignOf(n) = 0
  BY DEF AlignOf
<1> DEFINE w == Smaller(AlignOf(a), AlignOf(n))
<1>3. w \in {1, 2, 4} /\ a % w = 0 /\ n % w = 0
  BY <1>1, <1>2 DEF Smaller
<1> HIDE DEF w
<1>4. (n \div w) * w = n
  <2>1. CASE w = 1
    BY <2>1
  <2>2. CASE w = 2
    BY <2>2, <1>3
  <2>3. CASE w = 4
    BY <2>3, <1>3
  <2> QED BY <1>3, <2>1, <2>2, <2>3, Zenon
<1> QED BY <1>3, <1>4, Zenon DEF w

LEMMA OneMore ==
    ASSUME NEW c \in Nat, NEW l \in Nat, NEW w \in {1, 2, 4}, NEW e \in Nat,
           l > 0, c % w = 0, c + l * w <= e
    PROVE  c + w <= e /\ (c + w) % w = 0 /\ (c + w) + (l - 1) * w <= e
<1>1. CASE w = 1
  BY <1>1
<1>2. CASE w = 2
  BY <1>2
<1>3. CASE w = 4
  BY <1>3
<1> QED BY <1>1, <1>2, <1>3, Zenon

\* The lane of a byte in the word that adiv5_pack_data puts together.
LEMMA Lane ==
    ASSUME NEW c \in Nat, NEW w \in {1, 2, 4}, c % w = 0, NEW a \in Bytes(c, w)
    PROVE  a % 4 \in 0..3 /\ a % 4 \in (c % 4)..((c % 4) + w - 1) /\ c - (c % 4) + (a % 4) = a
<1>1. a \in Int /\ c <= a /\ a <= c + w - 1
  BY DEF Bytes
<1>2. CASE w = 1
  BY <1>1, <1>2
<1>3. CASE w = 2
  BY <1>1, <1>3
<1>4. CASE w = 4
  BY <1>1, <1>4
<1> QED BY <1>2, <1>3, <1>4, Zenon

\* TAR advances as the cursor does, inside a page.
LEMMA SamePage ==
    ASSUME NEW c \in Nat, NEW w \in {1, 2, 4}, ((c + w) \div Page) = ((c + w) - w) \div Page
    PROVE  (c \div Page) * Page + ((c + w) % Page) = c + w
<1>1. Page \in Nat /\ Page > 0
  BY MemAssumption DEF MemAssumption
<1>2. (c + w) - w = c
  OBVIOUS
<1>3. (c + w) = Page * ((c + w) \div Page) + ((c + w) % Page)
  BY <1>1
<1>4. ((c + w) \div Page) = c \div Page
  BY <1>2, Zenon
<1>5. ((c + w) \div Page) \in Int /\ ((c + w) % Page) \in Int
  BY <1>1
<1> QED BY <1>1, <1>3, <1>4, <1>5

---------------------------------------------------------------------------
(* Transactions.                                                           *)

LEMMA NoDataType == NoData \in [0..3 -> Byte]
BY DEF NoData, Unknown, Byte

LEMMA ReadyPort ==
    ASSUME MemTypes
    PROVE  /\ Ready \in PortType
           /\ Ready.mine = port.mine /\ Ready.tar = port.tar /\ Ready.size = port.size
           /\ transport = "jtag" => Ready.sticky = port.sticky
BY Zenon DEF MemTypes, PortType, Ready

\* A transaction that transfers nothing leaves nothing to be trusted.
LEMMA NothingLost ==
    ASSUME MemTypes, UNCHANGED transport, NEW ap \in BOOLEAN, Nothing(ap)
    PROVE  port' = port /\ spoiled' \in Nat /\ spoiled' >= spoiled /\ ~Trusted'
BY DEF MemTypes, Nothing, SwdNothing, JtagNothing, Spoils, Skips, Trusted

LEMMA RecoverableDone ==
    ASSUME MemTypes, UNCHANGED transport, NEW done, Recoverable(done)
    PROVE  /\ spoiled' \in Nat /\ spoiled' >= spoiled
           /\ port' = done \/ (port' = port /\ ~Trusted')
<1>1. CASE fault # "noresponse" /\ port' = done /\ UNCHANGED <<fault, spoiled>>
  BY <1>1 DEF MemTypes
<1>2. CASE Spoils(1, "wait")
  BY <1>2 DEF MemTypes, Spoils, Trusted
<1>3. ASSUME NEW n \in {0, 1}, transport = "swd",
             \/ spoiled' = spoiled + n /\ port' = done
             \/ Spoils(n + 1, "wait") \/ Spoils(n + 1, "noresponse")
      PROVE  /\ spoiled' \in Nat /\ spoiled' >= spoiled
             /\ port' = done \/ (port' = port /\ ~Trusted')
  BY <1>3 DEF MemTypes, Spoils, Trusted
<1> QED BY <1>1, <1>2, <1>3, Zenon DEF Recoverable

\* Steps that write no memory.
LEMMA NoneStrays ==
    ASSUME IInv, UNCHANGED <<transport, op, mem>>, spoiled' \in Nat, spoiled' >= spoiled
    PROVE  NoStrayWrite'
BY DEF IInv, MemTypes, NoStrayWrite, Requested

LEMMA DrwRead ==
    ASSUME MemTypes, ReadDrw
    PROVE  port' \in PortType
<1>1. NoData \in [0..3 -> Byte]
  BY NoDataType, Zenon
<1>2. [port EXCEPT !.buffer = NoData] \in PortType
  BY <1>1, Zenon DEF MemTypes, PortType
<1>3. [Ready EXCEPT !.buffer = NoData] \in PortType /\ Failed \in PortType
  BY <1>1, ReadyPort, Zenon DEF PortType, Failed
<1>4. ASSUME Mapped(Ready)
      PROVE  [Advanced(Ready) EXCEPT !.buffer = Fetched(Ready)] \in PortType
  <2>1. Advanced(Ready) \in PortType
    BY ReadyPort, MemAssumption DEF MemAssumption, PortType, Advanced
  <2>2. Fetched(Ready) \in [0..3 -> Byte]
    <3>1. \A a \in Bytes(Ready.tar, Ready.size) : mem[a] \in Byte
      BY <1>4, Zenon DEF Mapped, MemTypes
    <3> QED BY <3>1 DEF Fetched, Unknown, Byte
  <2> QED BY <2>1, <2>2, Zenon DEF PortType
<1> QED BY <1>2, <1>3, <1>4, Zenon DEF ReadDrw, Carried

---------------------------------------------------------------------------
(* The steps.                                                              *)

LEMMA InitInv ==
    ASSUME MemInit
    PROVE  IInv
<1>1. PICK k \in {"read", "write"}, a \in Addresses, n \in 1..MemSize :
        /\ op = [kind |-> k, addr |-> a, len |-> n, width |-> Smaller(AlignOf(a), AlignOf(n))]
        /\ cursor = a
        /\ left = n \div Smaller(AlignOf(a), AlignOf(n))
  BY Zenon DEF MemInit
<1>2. a \in Nat /\ n \in Nat
  BY MemAssumption DEF MemAssumption, Addresses
<1> DEFINE w == Smaller(AlignOf(a), AlignOf(n))
<1>3. w \in {1, 2, 4} /\ a % w = 0 /\ (n \div w) * w = n
  BY <1>2, Aligned, Zenon
<1>4. op.addr = a /\ op.len = n /\ op.width = w /\ cursor = a /\ left = n \div w
  BY <1>1, Zenon
<1> HIDE DEF w
<1>5. left \in Nat
  BY <1>2, <1>3, <1>4
<1>6. port \in PortType
  <2>1. NoData \in [0..3 -> Byte]
    BY NoDataType, Zenon
  <2>2. PICK t \in {0, MemSize - 4}, s \in {1, 4}, e \in BOOLEAN, mine \in BOOLEAN :
          port = [mine |-> mine, tar |-> t, size |-> s, sticky |-> e, buffer |-> NoData]
    BY Zenon DEF MemInit
  <2>3. t \in Int
    BY MemAssumption DEF MemAssumption
  <2> QED BY <2>1, <2>2, <2>3, Zenon DEF PortType
<1>7. mem \in [Addresses -> Byte]
  BY MemAssumption DEF MemAssumption, MemInit, Addresses, Old, Byte
<1>8. MemTypes
  BY <1>2, <1>3, <1>4, <1>5, <1>6, <1>7, Zenon DEF MemInit, MemTypes
<1>9. Inside
  BY <1>2, <1>3, <1>4 DEF Inside
<1>10. NoStrayWrite
  BY Zenon DEF MemInit, NoStrayWrite, Old
<1> QED BY <1>8, <1>9, <1>10 DEF IInv, Setup, MemInit

LEMMA SelectInv ==
    ASSUME IInv, Select
    PROVE  IInv'
<1> USE DEF IInv
<1>1. /\ spoiled' \in Nat /\ spoiled' >= spoiled
      /\ port' = [Ready EXCEPT !.mine = TRUE] \/ (port' = port /\ ~Trusted')
  BY RecoverableDone, Zenon DEF Select
<1>2. MemTypes'
  BY <1>1, ReadyPort, Zenon DEF Select, MemTypes, PortType
<1>3. Inside'
  BY Zenon DEF Select, Inside
<1>4. Trusted' => port'.mine
  BY <1>1, ReadyPort, Zenon DEF PortType
<1>5. Setup'
  BY <1>4, Zenon DEF Select, Setup
<1>6. NoStrayWrite'
  BY <1>1, NoneStrays, Zenon DEF Select
<1> QED BY <1>2, <1>3, <1>5, <1>6, Zenon DEF Select

LEMMA CswInv ==
    ASSUME IInv, Csw
    PROVE  IInv'
<1> USE DEF IInv
<1>1. Inside'
  BY Zenon DEF Csw, Inside
<1>2. CASE Nothing(TRUE)
  <2>1. port' = port /\ spoiled' \in Nat /\ spoiled' >= spoiled /\ ~Trusted'
    BY <1>2, NothingLost, Zenon DEF Csw
  <2>2. MemTypes'
    BY <2>1, Zenon DEF Csw, MemTypes
  <2> QED BY <1>1, <2>1, <2>2, NoneStrays, Zenon DEF Csw, Setup
<1>3. CASE Done(TRUE) /\ port' = Carried([Ready EXCEPT !.size = op.width])
  <2>1. MemTypes'
    BY <1>3, ReadyPort, NoDataType, Zenon DEF Csw, Done, Carried, MemTypes, PortType
  <2>2. Trusted' => port'.mine = port.mine /\ port'.size = op.width /\ Trusted
    BY <1>3, ReadyPort, Zenon DEF Csw, Done, Carried, Discards, MemTypes, PortType, Trusted
  <2>3. Setup'
    BY <2>2, Zenon DEF Csw, Setup
  <2> QED BY <1>1, <1>3, <2>1, <2>3, NoneStrays DEF Csw, Done, MemTypes
<1> QED BY <1>2, <1>3, Zenon DEF Csw

LEMMA TarInv ==
    ASSUME IInv, Tar
    PROVE  IInv'
<1> USE DEF IInv
<1>1. /\ Inside'
      /\ mpc' \in {"dummy", "loop"} => op'.kind = "read"
      /\ mpc' = "write" => op'.kind = "write"
  BY Zenon DEF Tar, Inside
<1>2. CASE Nothing(TRUE)
  <2>1. port' = port /\ spoiled' \in Nat /\ spoiled' >= spoiled /\ ~Trusted'
    BY <1>2, NothingLost, Zenon DEF Tar
  <2>2. MemTypes'
    BY <2>1, Zenon DEF Tar, MemTypes
  <2> QED BY <1>1, <2>1, <2>2, NoneStrays, Zenon DEF Tar, Setup
<1>3. CASE Done(TRUE) /\ port' = Carried([Ready EXCEPT !.tar = cursor])
  <2>1. MemTypes'
    BY <1>3, ReadyPort, NoDataType DEF Tar, Done, Carried, MemTypes, PortType
  <2>2. Trusted' => /\ port'.mine = port.mine /\ port'.size = port.size
                    /\ port'.tar = cursor /\ Trusted
    BY <1>3, ReadyPort, Zenon DEF Tar, Done, Carried, Discards, MemTypes, PortType, Trusted
  <2>3. Setup'
    BY <2>2, Zenon DEF Tar, Setup
  <2> QED BY <1>1, <1>3, <2>1, <2>3, NoneStrays DEF Tar, Done, MemTypes
<1> QED BY <1>2, <1>3, Zenon DEF Tar, SetTar

\* The three steps of a read.
LEMMA ReadInv ==
    ASSUME IInv, Dummy \/ ReadLoop \/ ReadLast
    PROVE  IInv'
<1> USE DEF IInv
<1>1. /\ op' = op /\ op.kind = "read" /\ mem' = mem /\ transport' = transport
      /\ mpc' \in {"loop", "retar", "check"}
  BY Zenon DEF Dummy, ReadLoop, ReadLast
<1>2. Inside' /\ cursor' \in Nat /\ left' \in Nat
  <2>1. CASE Dummy
    BY <2>1, Zenon DEF Dummy, Inside, MemTypes
  <2>2. CASE ReadLoop
    <3>1. cursor' = cursor + op.width /\ left' = left - 1 /\ left > 0
      BY <2>2 DEF ReadLoop, MemTypes
    <3>2. (cursor + op.width) % op.width = 0 /\ (cursor + op.width) + (left - 1) * op.width <= op.addr + op.len
      BY <3>1, OneMore DEF Inside, MemTypes
    <3> QED BY <1>1, <3>1, <3>2 DEF Inside, MemTypes
  <2>3. CASE ReadLast
    <3>1. cursor' = cursor /\ left' = 0 /\ left = 1
      BY <2>3, Zenon DEF ReadLast
    <3>2. cursor + 0 * op.width <= op.addr + op.len
      BY <3>1 DEF Inside, MemTypes
    <3> QED BY <1>1, <3>1, <3>2, Zenon DEF Inside, MemTypes
  <2> QED BY <2>1, <2>2, <2>3, Zenon
<1>3. spoiled' \in Nat /\ spoiled' >= spoiled /\ port' \in PortType
  <2>1. CASE ReadDrw /\ Done(TRUE)
    BY <2>1, DrwRead DEF Done, MemTypes
  <2>2. CASE port' = Ready /\ Done(FALSE)
    BY <2>2, ReadyPort DEF Done, MemTypes
  <2>3. ASSUME NEW ap \in BOOLEAN, Nothing(ap)
        PROVE  spoiled' \in Nat /\ spoiled' >= spoiled /\ port' \in PortType
    BY <1>1, <2>3, NothingLost, Zenon DEF MemTypes
  <2> QED BY <2>1, <2>2, <2>3, Zenon DEF Dummy, ReadLoop, ReadLast
<1>4. MemTypes'
  BY <1>1, <1>2, <1>3, Zenon DEF MemTypes
<1>5. NoStrayWrite'
  BY <1>1, <1>3, NoneStrays, Zenon
<1> QED BY <1>1, <1>2, <1>4, <1>5, Zenon DEF Setup

LEMMA Packed ==
    ASSUME MemTypes
    PROVE  Pack(cursor) \in [0..3 -> Byte]
<1>1. \A l \in 0..3 : New(cursor - (cursor % 4) + l) \in Byte
  BY DEF MemTypes, New, Byte
<1> QED BY <1>1 DEF Pack, Unknown, Byte

\* The write that goes out: trusted, it is made with the access port selected,
\* in the requested width, at the cursor or at the hole an earlier one met.
LEMMA WriteLoopInv ==
    ASSUME IInv, WriteLoop
    PROVE  IInv'
<1> USE DEF IInv
<1>1. /\ op' = op /\ op.kind = "write" /\ transport' = transport
      /\ cursor' = cursor + op.width /\ left' = left - 1 /\ left > 0
      /\ mpc' = (IF Crosses(cursor') THEN "retar" ELSE "write")
  BY Zenon DEF WriteLoop
<1>2. /\ cursor + op.width <= op.addr + op.len /\ (cursor + op.width) % op.width = 0
      /\ (cursor + op.width) + (left - 1) * op.width <= op.addr + op.len
  BY <1>1, OneMore DEF Inside, MemTypes
<1>3. Inside' /\ cursor' \in Nat /\ left' \in Nat
  BY <1>1, <1>2 DEF Inside, MemTypes
<1>4. CASE Nothing(TRUE) /\ UNCHANGED mem
  <2>1. port' = port /\ spoiled' \in Nat /\ spoiled' >= spoiled /\ ~Trusted'
    BY <1>1, <1>4, NothingLost, Zenon
  <2>2. MemTypes'
    BY <1>1, <1>3, <1>4, <2>1, Zenon DEF MemTypes
  <2>3. NoStrayWrite'
    BY <1>1, <1>4, <2>1, NoneStrays, Zenon
  <2> QED BY <1>1, <1>3, <2>1, <2>2, <2>3, Zenon DEF Setup
<1>5. CASE Done(TRUE) /\ WriteDrw(Pack(cursor))
  <2>1. fault' = fault /\ spoiled' = spoiled /\ (transport = "swd" => fault = "none")
    BY <1>5, Zenon DEF Done, Skips
  <2>2. (transport = "jtag" => spoiled = 0) /\ ~Discards => Trusted
    BY <2>1, Zenon DEF Trusted, Discards, MemTypes
  <2>3. Trusted => /\ port.mine /\ port.size = op.width
                   /\ port.tar = cursor \/ ~Mapped(port)
    BY <1>1, Zenon DEF Setup, WriteLoop
  <2>4. Mapped(Ready) <=> Mapped(port)
    BY ReadyPort, Zenon DEF Mapped
  <2>5. CASE Discards
    <3>1. port' = port /\ mem' = mem /\ ~Trusted'
      BY <1>1, <1>5, <2>5, Zenon DEF WriteDrw, Discards, Trusted
    <3>2. MemTypes' /\ NoStrayWrite'
      BY <1>1, <1>3, <2>1, <3>1, NoneStrays DEF MemTypes
    <3> QED BY <1>1, <1>3, <3>1, <3>2, Zenon DEF Setup
  <2>6. CASE ~Discards /\ ~port.mine
    <3>1. port' = Ready /\ mem' = [a \in Addresses |-> Unknown]
      BY <1>5, <2>6, Zenon DEF WriteDrw
    <3>2. MemTypes'
      BY <1>1, <1>3, <2>1, <3>1, ReadyPort DEF MemTypes, Unknown, Byte
    <3>3. ~(transport = "jtag" => spoiled = 0)
      BY <2>2, <2>3, <2>6, Zenon
    <3>4. NoStrayWrite' /\ Setup'
      BY <1>1, <2>1, <3>3, Zenon DEF NoStrayWrite, Setup, Trusted
    <3> QED BY <1>1, <1>3, <3>2, <3>4, Zenon
  <2>7. CASE ~Discards /\ port.mine /\ Mapped(Ready)
    <3>1. /\ port' = Advanced(Ready)
          /\ mem' = [a \in Addresses |-> IF a \in Bytes(port.tar, port.size) THEN Pack(cursor)[a % 4] ELSE mem[a]]
      BY <1>5, <2>7, Zenon DEF WriteDrw
    <3>2. /\ port' \in PortType /\ port'.mine = port.mine /\ port'.size = port.size
          /\ port'.tar = (port.tar \div Page) * Page + ((port.tar + port.size) % Page)
          /\ transport = "jtag" => port'.sticky = port.sticky
      BY <3>1, ReadyPort, MemAssumption DEF MemAssumption, PortType, Advanced
    <3>3. mem' \in [Addresses -> Byte]
      <4>1. \A a \in Addresses : a % 4 \in 0..3
        BY MemAssumption DEF MemAssumption, Addresses
      <4> QED BY <3>1, <4>1, Packed, Zenon DEF MemTypes
    <3>4. MemTypes'
      BY <1>1, <1>3, <2>1, <3>2, <3>3, Zenon DEF MemTypes
    <3>5. Trusted => port.tar = cursor /\ port.size = op.width
      BY <2>3, <2>4, <2>7, Zenon
    <3>6. Setup'
      <4> SUFFICES ASSUME Trusted'
                   PROVE  /\ port'.mine /\ port'.size = op.width
                          /\ mpc' = "write" => port'.tar = cursor'
        BY <1>1, Zenon DEF Setup
      <4>1. Trusted
        BY <1>1, <2>1, <2>7, <3>2, Zenon DEF Trusted, PortType
      <4>2. ASSUME mpc' = "write"
            PROVE  port'.tar = cursor'
        <5>1. ~Crosses(cursor + op.width)
          BY <1>1, <4>2, Zenon
        <5>2. ((cursor + op.width) \div Page) = ((cursor + op.width) - op.width) \div Page
          BY <5>1, Zenon DEF Crosses
        <5>3. (cursor \div Page) * Page + ((cursor + op.width) % Page) = cursor + op.width
          BY <5>2, SamePage, Zenon DEF MemTypes
        <5> QED BY <1>1, <3>2, <3>5, <4>1, <5>3, Zenon
      <4> QED BY <2>7, <3>2, <3>5, <4>1, <4>2, Zenon
    <3>7. NoStrayWrite'
      <4> SUFFICES ASSUME transport = "jtag" => spoiled = 0, NEW a \in Addresses
                   PROVE  mem'[a] \in {Old(a), New(a)} /\ (mem'[a].new => a \in Requested)
        BY <1>1, <2>1, Zenon DEF NoStrayWrite, Requested
      <4>1. port.tar = cursor /\ port.size = op.width
        BY <2>2, <2>7, <3>5, Zenon
      <4>2. CASE a \in Bytes(cursor, op.width)
        <5>1. a % 4 \in 0..3 /\ a % 4 \in (cursor % 4)..((cursor % 4) + op.width - 1)
              /\ cursor - (cursor % 4) + (a % 4) = a
          BY <4>2, Lane DEF Inside, MemTypes
        <5>2. mem'[a] = New(a)
          BY <3>1, <4>1, <4>2, <5>1, Zenon DEF Pack
        <5>3. a \in Requested
          BY <1>2, <4>2 DEF Requested, Bytes, Inside, MemTypes
        <5> QED BY <5>2, <5>3, Zenon
      <4>3. CASE a \notin Bytes(cursor, op.width)
        BY <3>1, <4>1, <4>3, Zenon DEF NoStrayWrite
      <4> QED BY <4>2, <4>3, Zenon
    <3> QED BY <1>1, <1>3, <3>4, <3>6, <3>7, Zenon
  <2>8. CASE ~Discards /\ port.mine /\ ~Mapped(Ready)
    <3>1. port' = Failed /\ mem' = mem
      BY <1>5, <2>8, Zenon DEF WriteDrw
    <3>2. /\ port' \in PortType /\ port'.mine = port.mine /\ port'.size = port.size
          /\ port'.tar = port.tar /\ port'.sticky
      BY <3>1, ReadyPort, NoDataType, Zenon DEF PortType, Failed
    <3>3. MemTypes' /\ NoStrayWrite'
      BY <1>1, <1>3, <2>1, <3>1, <3>2, NoneStrays DEF MemTypes
    <3>4. ~Mapped(port)'
      BY <2>4, <2>8, <3>2, Zenon DEF Mapped
    <3>5. Trusted' => Trusted
      BY <1>1, <2>1, <3>2, Zenon DEF Trusted
    <3>6. Setup'
      BY <1>1, <2>3, <3>2, <3>4, <3>5, Zenon DEF Setup
    <3> QED BY <1>1, <1>3, <3>3, <3>6, Zenon
  <2> QED BY <2>5, <2>6, <2>7, <2>8, Zenon
<1> QED BY <1>4, <1>5, Zenon DEF WriteLoop

\* The steps after the last access, and those that leave the request.
LEMMA EndInv ==
    ASSUME IInv, WriteLast \/ firmware_swdp_error \/ adiv5_jtagdp_error \/ Raise
    PROVE  IInv'
<1> USE DEF IInv
<1>1. /\ UNCHANGED <<transport, op, cursor, left, mem>> /\ mpc' \in {"check", "end"}
  BY Zenon DEF WriteLast, firmware_swdp_error, adiv5_jtagdp_error, CheckError, Raise
<1>2. spoiled' \in Nat /\ spoiled' >= spoiled /\ port' \in PortType
  <2>1. CASE WriteLast
    BY <1>1, <2>1, RecoverableDone, ReadyPort, Zenon DEF WriteLast, MemTypes
  <2>2. CASE firmware_swdp_error \/ adiv5_jtagdp_error
    <3>1. port' = [port EXCEPT !.sticky = FALSE] /\ spoiled' = spoiled
      BY <2>2, Zenon DEF firmware_swdp_error, adiv5_jtagdp_error, CheckError
    <3>2. port \in PortType /\ spoiled \in Nat
      BY Zenon DEF MemTypes
    <3>3. [port EXCEPT !.sticky = FALSE] \in PortType
      BY <3>2, Zenon DEF PortType
    <3> QED BY <3>1, <3>2, <3>3
  <2>3. CASE Raise
    BY <2>3 DEF Raise, MemTypes
  <2> QED BY <2>1, <2>2, <2>3, Zenon
<1>3. MemTypes' /\ Inside'
  BY <1>1, <1>2, Zenon DEF MemTypes, Inside
<1>4. NoStrayWrite'
  BY <1>1, <1>2, NoneStrays, Zenon
<1> QED BY <1>1, <1>3, <1>4, Zenon DEF Setup

LEMMA StepInv ==
    ASSUME IInv, [MemNext]_memVars
    PROVE  IInv'
<1>1. CASE UNCHANGED memVars
  BY <1>1, Zenon DEF memVars, IInv, MemTypes, Inside, Setup, Trusted, Mapped, NoStrayWrite, Requested
<1> QED
  BY <1>1, SelectInv, CswInv, TarInv, ReadInv, WriteLoopInv, EndInv, Zenon DEF MemNext, MemEnd

\* No byte that adiv5_mem_write_bytes sends goes to an address outside the
\* request or to another access port, for any memory, page size, holes and
\* number of lost transactions: over SWD because dp->fault holds up every later
\* access to the access port, over JTAG as long as none is lost.
THEOREM NoStrayWrites == MemSpec => []NoStrayWrite
<1>1. MemInit => IInv
  BY InitInv, Zenon
<1>2. IInv /\ [MemNext]_memVars => IInv'
  BY StepInv, Zenon
<1>3. IInv => NoStrayWrite
  BY Zenon DEF IInv
<1> QED BY <1>1, <1>2, <1>3, PTL DEF MemSpec

---------------------------------------------------------------------------
(* Sequences.                                                              *)

LEMMA CatIs ==
    ASSUME NEW S, NEW s \in Seq(S), NEW t \in Seq(S)
    PROVE  /\ s \o t \in Seq(S) /\ Len(s \o t) = Len(s) + Len(t)
           /\ \A i \in 1..Len(s) : (s \o t)[i] = s[i]
           /\ \A i \in 1..Len(t) : (s \o t)[Len(s) + i] = t[i]
OBVIOUS

\* Sequences are equal if they have the same length and the same elements.
LEMMA SameSeq ==
    ASSUME NEW S, NEW s \in Seq(S), NEW t \in Seq(S), Len(s) = Len(t), \A i \in 1..Len(s) : s[i] = t[i]
    PROVE  s = t
<1>1. s = [i \in 1..Len(s) |-> s[i]] /\ t = [i \in 1..Len(t) |-> t[i]]
  OBVIOUS
<1> QED BY <1>1, Zenon

---------------------------------------------------------------------------
(* Memory accesses that nothing disturbs.                                  *)

\* The port has taken every transaction so far: what is selected, where TAR
\* stands, and what the read before has put into the buffer.
Linked ==
    /\ transport = "swd" => fault = "none"
    /\ transport = "jtag" => ~port.sticky
    /\ mpc \in {"csw", "tar", "retar", "dummy", "loop", "write"} => port.mine
    /\ mpc \in {"tar", "retar", "dummy", "loop", "write"} => port.size = op.width
    /\ mpc \in {"dummy", "write"} => port.tar = cursor
    /\ mpc = "loop" => /\ port.tar = (cursor \div Page) * Page + ((cursor + op.width) % Page)
                       /\ \A a \in Bytes(cursor, op.width) : port.buffer[a % 4] = Old(a)
    /\ mpc = "check" => ~port.sticky

\* Ended: all accesses of the request are made.
Ended == mpc \in {"check", "end"}
Counted ==
    /\ ~Ended => cursor + left * op.width = op.addr + op.len
    /\ op.kind = "read" /\ ~Ended => left > 0
    /\ op.kind = "write" /\ Ended => cursor = op.addr + op.len

\* The bytes before the cursor were transferred.
Moved ==
    /\ op.kind = "read" => /\ \A a \in Addresses : mem[a] = Old(a)
                           /\ Len(dest) = IF Ended THEN op.len ELSE cursor - op.addr
                           /\ \A i \in 1..Len(dest) : dest[i] = Old(op.addr + i - 1)
    /\ op.kind = "write" => \A a \in Addresses : op.addr <= a /\ a < cursor => mem[a] = New(a)
    /\ mpc = "end" => outcome = "ok"

CleanInv ==
    /\ IInv /\ dest \in Seq(Byte) /\ op.addr + op.len <= MemSize
    /\ Sound => Linked /\ Counted /\ Moved

\* The loop leaves a page with the access before a multiple of its size, and TAR
\* is then back at the start of the page.
LEMMA PageLeft ==
    ASSUME NEW c \in Nat, NEW w \in {1, 2, 4}, c % w = 0, ((c + w) \div Page) # ((c + w) - w) \div Page
    PROVE  /\ (c + w) % Page = 0
           /\ (c \div Page) * Page + ((c + w) % Page) = (c + w) - Page
<1>1. Page \in Nat /\ Page > 0 /\ Page % 4 = 0
  BY MemAssumption DEF MemAssumption
<1>2. PICK q \in Int, r \in Nat : q = c \div Page /\ r = c % Page /\ c = Page * q + r /\ r < Page
  BY <1>1
<1>3. PICK k \in Int : Page = 4 * k
  <2>1. Page = 4 * (Page \div 4)
    BY <1>1
  <2>2. Page \div 4 \in Int
    BY <1>1
  <2> QED BY <2>1, <2>2, Zenon
<1>4. PICK m \in Int : m = k * q
  BY <1>2, <1>3
<1>5. Page * q = 4 * m
  <2>1. \A x, y \in Int : (4 * x) * y = 4 * (x * y)
    OBVIOUS
  <2> QED BY <1>2, <1>3, <1>4, <2>1, ZenonT(60)
<1>6. r % w = 0
  <2>1. c = 4 * m + r
    BY <1>2, <1>5, Zenon
  <2>2. CASE w = 1
    BY <2>2
  <2>3. CASE w = 2
    BY <2>1, <2>3
  <2>4. CASE w = 4
    BY <2>1, <2>4
  <2> QED BY <2>2, <2>3, <2>4, Zenon
<1>7. r + w <= Page
  <2>1. CASE w = 1
    BY <1>1, <1>2, <2>1
  <2>2. CASE w = 2
    BY <1>1, <1>2, <1>6, <2>2
  <2>3. CASE w = 4
    BY <1>1, <1>2, <1>6, <2>3
  <2> QED BY <2>1, <2>2, <2>3, Zenon
<1>8. (c + w) - w = c
  OBVIOUS
<1>9. r + w = Page
  <2> SUFFICES ASSUME r + w < Page PROVE FALSE
    BY <1>1, <1>2, <1>7
  <2>1. c + w = Page * q + (r + w)
    BY <1>1, <1>2
  <2>2. (c + w) \div Page = q
    BY <1>1, <1>2, <2>1
  <2> QED BY <1>2, <1>8, <2>2, Zenon
<1>10. c + w = Page * (q + 1) /\ Page * (q + 1) = q * Page + Page
  BY <1>1, <1>2, <1>9
<1>11. (c + w) % Page = 0
  BY <1>1, <1>2, <1>10
<1> QED BY <1>1, <1>2, <1>10, <1>11

LEMMA StillSound ==
    ASSUME IInv, UNCHANGED <<transport, op>>, spoiled' \in Nat, spoiled' >= spoiled, Sound'
    PROVE  Sound /\ spoiled' = spoiled
BY DEF Sound, Requested, Wrapped, IInv, MemTypes

\* A transaction that is given up, or held up by an earlier one, is a failure.
LEMMA NothingSpoils ==
    ASSUME IInv, Linked, NEW ap \in BOOLEAN, Nothing(ap)
    PROVE  spoiled' # spoiled
BY DEF IInv, MemTypes, Linked, Nothing, SwdNothing, JtagNothing, Skips, Spoils

LEMMA RecoverableTaken ==
    ASSUME IInv, Linked, NEW done, Recoverable(done), spoiled' = spoiled
    PROVE  port' = done /\ fault' = fault
<1>1. CASE Spoils(1, "wait")
  BY <1>1 DEF IInv, MemTypes, Spoils
<1>2. ASSUME NEW n \in {0, 1}, transport = "swd", n = 0 => fault = "noresponse",
             spoiled' = spoiled + n \/ Spoils(n + 1, "wait") \/ Spoils(n + 1, "noresponse")
      PROVE  FALSE
  BY <1>2 DEF IInv, MemTypes, Linked, Spoils
<1> QED BY <1>1, <1>2, Zenon DEF Recoverable

LEMMA ReadyClean ==
    ASSUME IInv, Linked
    PROVE  ~Ready.sticky /\ ~Discards
BY Zenon DEF IInv, MemTypes, PortType, Linked, Ready, Discards

\* The first or the next access of the request has memory to go to.
LEMMA NextMapped ==
    ASSUME CleanInv, Sound, NEW c \in Nat, op.addr <= c, c + op.width <= op.addr + op.len
    PROVE  Bytes(c, op.width) \subseteq Addresses \ Holes
<1>1. Bytes(c, op.width) \subseteq Requested
  BY SMTT(60) DEF CleanInv, IInv, MemTypes, Bytes, Requested
<1>2. Requested \subseteq Addresses
  BY MemAssumption, SMTT(60) DEF MemAssumption, CleanInv, IInv, MemTypes, Bytes, Requested, Addresses
<1> QED BY <1>1, <1>2, Zenon DEF Sound

\* A read that the port carries out leaves the word of its bytes in the buffer.
LEMMA Fetches ==
    ASSUME CleanInv, Sound, Linked, Moved, op.kind = "read", port.mine, port.size = op.width, ReadDrw,
           NEW c \in Nat, c % op.width = 0, port.tar = c, op.addr <= c, c + op.width <= op.addr + op.len
    PROVE  /\ port'.mine /\ port'.size = op.width /\ ~port'.sticky
           /\ port'.tar = (c \div Page) * Page + ((c + op.width) % Page)
           /\ \A a \in Bytes(c, op.width) : port'.buffer[a % 4] = Old(a)
<1>1. Bytes(c, op.width) \subseteq Addresses \ Holes
  BY NextMapped, Zenon
<1>2. Ready \in PortType /\ Ready.mine /\ Ready.tar = c /\ Ready.size = op.width /\ ~Ready.sticky /\ ~Discards
  BY ReadyPort, ReadyClean, Zenon DEF CleanInv, IInv
<1>3. Mapped(Ready)
  BY <1>1, <1>2, Zenon DEF Mapped
<1>4. port' = [Advanced(Ready) EXCEPT !.buffer = Fetched(Ready)]
  BY <1>2, <1>3, Zenon DEF ReadDrw, Carried
<1>5. /\ Advanced(Ready) \in PortType
      /\ Advanced(Ready).mine /\ Advanced(Ready).size = op.width /\ ~Advanced(Ready).sticky
      /\ Advanced(Ready).tar = (c \div Page) * Page + ((c + op.width) % Page)
  BY <1>2, MemAssumption DEF MemAssumption, PortType, Advanced
<1>6. port'.buffer = Fetched(Ready)
  BY <1>4, <1>5, Zenon DEF PortType
<1>7. ASSUME NEW a \in Bytes(c, op.width)
      PROVE  Fetched(Ready)[a % 4] = Old(a)
  <2>1. a % 4 \in 0..3 /\ c - (c % 4) + (a % 4) = a
    BY Lane DEF CleanInv, IInv, MemTypes
  <2>2. mem[a] = Old(a)
    BY <1>1, Zenon DEF Moved
  <2> QED BY <1>2, <2>1, <2>2, Zenon DEF Fetched
<1> QED BY <1>4, <1>5, <1>6, <1>7, Zenon DEF PortType

\* The last read of a page that the request leaves is made where TAR has wrapped to.
LEMMA ReadsOver ==
    ASSUME CleanInv, Sound, Linked, op.kind = "read", port.mine, port.size = op.width, ReadDrw,
           port.tar = (cursor \div Page) * Page + ((cursor + op.width) % Page),
           Crosses(cursor + op.width), cursor + op.width < op.addr + op.len
    PROVE  port'.mine /\ port'.size = op.width /\ (transport = "jtag" => ~port'.sticky)
<1>0. cursor \in Nat /\ op.width \in {1, 2, 4} /\ cursor % op.width = 0 /\ op.addr \in Nat /\ op.len \in Nat
      /\ op.addr <= cursor /\ Page \in Nat
  BY MemAssumption, Zenon DEF MemAssumption, CleanInv, IInv, MemTypes, Inside
<1>1. (cursor + op.width) % Page = 0 /\ port.tar = (cursor + op.width) - Page
  BY <1>0, PageLeft, Zenon DEF Crosses
<1>2. Ready \in PortType /\ Ready.mine /\ Ready.tar = port.tar /\ Ready.size = op.width /\ ~Ready.sticky /\ ~Discards
  BY ReadyPort, ReadyClean, Zenon DEF CleanInv, IInv
<1>3. ASSUME transport = "jtag"
      PROVE  Mapped(Ready)
  <2>1. cursor + op.width \in Requested /\ cursor + op.width # op.addr
    BY <1>0 DEF Requested, Bytes
  <2>2. Bytes(port.tar, op.width) \subseteq Addresses
    <3>1. cursor + op.width >= Page
      BY <1>0, <1>1, MemAssumption DEF MemAssumption
    <3>2. MemSize \in Nat /\ cursor + op.width <= MemSize
      BY <1>0, MemAssumption, SMTT(60) DEF MemAssumption, CleanInv
    <3>3. op.width <= Page
      BY <1>0, MemAssumption DEF MemAssumption
    <3> QED BY <1>0, <1>1, <3>1, <3>2, <3>3 DEF Bytes, Addresses
  <2>3. Bytes(port.tar, op.width) \subseteq Wrapped
    BY <1>1, <2>1, <2>2, Zenon DEF Wrapped
  <2> QED BY <1>2, <1>3, <2>2, <2>3, Zenon DEF Mapped, Sound
<1>4. CASE Mapped(Ready)
  <2>1. port' = [Advanced(Ready) EXCEPT !.buffer = Fetched(Ready)]
    BY <1>2, <1>4, Zenon DEF ReadDrw, Carried
  <2> QED BY <1>2, <2>1, Zenon DEF PortType, Advanced
<1>5. CASE ~Mapped(Ready)
  <2>1. port' = Failed /\ transport # "jtag"
    BY <1>2, <1>3, <1>5, Zenon DEF ReadDrw, Carried
  <2> QED BY <1>2, <2>1, Zenon DEF PortType, Failed
<1> QED BY <1>4, <1>5, Zenon

LEMMA SetupClean ==
    ASSUME CleanInv, Select \/ Csw \/ Tar
    PROVE  CleanInv'
<1>1. IInv'
  BY SelectInv, CswInv, TarInv, Zenon DEF CleanInv
<1>2. /\ UNCHANGED <<transport, op, cursor, left, dest, outcome, mem>>
      /\ mpc \in {"start", "csw", "tar", "retar"} /\ mpc' \in {"csw", "tar", "dummy", "write"}
  BY Zenon DEF Select, Csw, Tar
<1>3. ASSUME Sound'
      PROVE  Linked' /\ Counted' /\ Moved'
  <2>1. spoiled' \in Nat /\ spoiled' >= spoiled
    <3>1. CASE Select
      BY <1>2, <3>1, RecoverableDone, Zenon DEF CleanInv, IInv, Select
    <3>2. CASE Nothing(TRUE)
      BY <1>2, <3>2, NothingLost, Zenon DEF CleanInv, IInv
    <3>3. CASE Done(TRUE)
      BY <3>3 DEF CleanInv, IInv, MemTypes, Done
    <3> QED BY <3>1, <3>2, <3>3, Zenon DEF Csw, Tar, SetTar
  <2>2. Sound /\ spoiled' = spoiled /\ Linked /\ Counted /\ Moved
    BY <1>2, <1>3, <2>1, StillSound, Zenon DEF CleanInv
  <2>3. Counted' /\ Moved'
    BY <1>2, <2>2, Zenon DEF Counted, Moved, Ended
  <2>4. ~Nothing(TRUE)
    BY <2>2, NothingSpoils, Zenon DEF CleanInv
  <2>5. Ready \in PortType /\ Ready.mine = port.mine /\ Ready.size = port.size /\ ~Ready.sticky /\ ~Discards
    BY <2>2, ReadyPort, ReadyClean, Zenon DEF CleanInv, IInv
  <2>6. CASE Select
    <3>1. port' = [Ready EXCEPT !.mine = TRUE] /\ fault' = fault
      BY <2>2, <2>6, RecoverableTaken, Zenon DEF Select, CleanInv
    <3> QED BY <1>2, <2>2, <2>3, <2>5, <2>6, <3>1, Zenon DEF Select, Linked, PortType
  <2>7. CASE Csw
    <3>1. port' = [Ready EXCEPT !.size = op.width] /\ fault' = fault
      BY <2>4, <2>5, <2>7, Zenon DEF Csw, Done, Carried
    <3> QED BY <1>2, <2>2, <2>3, <2>5, <2>7, <3>1, Zenon DEF Csw, Linked, PortType
  <2>8. CASE Tar
    <3>1. port' = [Ready EXCEPT !.tar = cursor] /\ fault' = fault
      BY <2>4, <2>5, <2>8, Zenon DEF Tar, SetTar, Done, Carried
    <3> QED BY <1>2, <2>2, <2>3, <2>5, <2>8, <3>1, Zenon DEF Tar, Linked, PortType
  <2> QED BY <2>6, <2>7, <2>8, Zenon
<1> QED BY <1>1, <1>2, <1>3, Zenon DEF CleanInv

\* adiv5_unpack_data on what a read has fetched gives the bytes at the cursor.
LEMMA Unpacked ==
    ASSUME CleanInv, NEW b \in [0..3 -> Byte], \A a \in Bytes(cursor, op.width) : b[a % 4] = Old(a)
    PROVE  /\ Unpack(b, cursor) \in Seq(Byte) /\ Len(Unpack(b, cursor)) = op.width
           /\ \A i \in 1..op.width : Unpack(b, cursor)[i] = Old(cursor + i - 1)
<1>0. cursor \in Nat /\ op.width \in {1, 2, 4} /\ cursor % op.width = 0
  BY Zenon DEF CleanInv, IInv, MemTypes, Inside
<1>1. ASSUME NEW i \in 1..op.width
      PROVE  (cursor % 4) + i - 1 \in 0..3 /\ b[(cursor % 4) + i - 1] = Old(cursor + i - 1)
  <2>1. cursor + i - 1 \in Bytes(cursor, op.width)
    BY <1>0 DEF Bytes
  <2>2. (cursor + i - 1) % 4 \in 0..3 /\ cursor - (cursor % 4) + ((cursor + i - 1) % 4) = cursor + i - 1
    BY <1>0, <2>1, Lane
  <2>3. (cursor + i - 1) % 4 = (cursor % 4) + i - 1
    BY <1>0, <2>2
  <2> QED BY <2>1, <2>2, <2>3, Zenon
<1>2. Unpack(b, cursor) \in [1..op.width -> Byte]
  BY <1>1, Zenon DEF Unpack
<1> QED BY <1>0, <1>1, <1>2, SMTT(30) DEF Unpack

LEMMA UnpackType ==
    ASSUME MemTypes, NEW b \in [0..3 -> Byte], cursor % op.width = 0
    PROVE  Unpack(b, cursor) \in Seq(Byte)
<1>0. cursor \in Nat /\ op.width \in {1, 2, 4}
  BY Zenon DEF MemTypes
<1>1. \A i \in 1..op.width : (cursor % 4) + i - 1 \in 0..3
  <2>1. CASE op.width = 1
    BY <1>0, <2>1
  <2>2. CASE op.width = 2
    BY <1>0, <2>2
  <2>3. CASE op.width = 4
    BY <1>0, <2>3
  <2> QED BY <1>0, <2>1, <2>2, <2>3, Zenon
<1>2. Unpack(b, cursor) \in [1..op.width -> Byte]
  BY <1>1, Zenon DEF Unpack
<1> QED BY <1>0, <1>2

LEMMA Beyond ==
    ASSUME NEW n \in Nat, NEW m \in Nat, NEW i \in 1..(n + m), i > n
    PROVE  \E k \in 1..m : k = i - n
OBVIOUS

\* The bytes of an access are put behind those of the accesses before.
LEMMA Appended ==
    ASSUME NEW s \in Seq(Byte), NEW u \in Seq(Byte), NEW b \in Nat, NEW n \in Nat, n = Len(s),
           \A i \in 1..n : s[i] = Old(b + i - 1), \A k \in 1..Len(u) : u[k] = Old(b + n + k - 1)
    PROVE  Len(s \o u) = n + Len(u) /\ \A i \in 1..Len(s \o u) : (s \o u)[i] = Old(b + i - 1)
<1>1. Len(u) \in Nat /\ Len(s \o u) = n + Len(u)
  OBVIOUS
<1>a. /\ \A k \in 1..n : (s \o u)[k] = s[k]
      /\ \A k \in 1..Len(u) : (s \o u)[n + k] = u[k]
  BY CatIs
<1>2. ASSUME NEW i \in 1..(n + Len(u))
      PROVE  (s \o u)[i] = Old(b + i - 1)
  <2>1. CASE i <= n
    BY <1>a, <2>1
  <2>2. CASE i > n
    <3>1. PICK k \in 1..Len(u) : k = i - n
      BY <1>1, <2>2, Beyond, Zenon
    <3>2. i = n + k /\ b + n + k - 1 = b + i - 1
      BY <1>1, <3>1
    <3>3. (s \o u)[n + k] = u[k]
      BY <1>a, <3>1, Zenon
    <3> QED BY <3>2, <3>3, Zenon
  <2> QED BY <1>1, <2>1, <2>2
<1> QED BY <1>1, <1>2, Zenon

LEMMA LeftFits ==
    ASSUME NEW c \in Nat, NEW l \in Nat, NEW w \in {1, 2, 4}, NEW e \in Nat, c + l * w = e
    PROVE  /\ l > 0 => c + w <= e /\ (c + w) + (l - 1) * w = e
           /\ l > 1 => c + w < e /\ c + 2 * w <= e
           /\ l = 1 => c + w = e
           /\ l = 0 => c = e
<1>1. CASE w = 1
  BY <1>1
<1>2. CASE w = 2
  BY <1>2
<1>3. CASE w = 4
  BY <1>3
<1> QED BY <1>1, <1>2, <1>3, Zenon

LEMMA ReadClean ==
    ASSUME CleanInv, Dummy \/ ReadLoop \/ ReadLast
    PROVE  CleanInv'
<1>1. IInv'
  BY ReadInv, Zenon DEF CleanInv
<1>2. UNCHANGED <<transport, op, outcome, mem>> /\ op.kind = "read" /\ mpc \in {"dummy", "loop"}
  BY Zenon DEF Dummy, ReadLoop, ReadLast, CleanInv, IInv
<1>0. /\ cursor \in Nat /\ left \in Nat /\ op.width \in {1, 2, 4} /\ op.addr \in Nat /\ op.len \in Nat
      /\ op.addr <= cursor /\ cursor % op.width = 0 /\ port.buffer \in [0..3 -> Byte]
  BY Zenon DEF CleanInv, IInv, MemTypes, PortType, Inside
<1>3. dest' \in Seq(Byte)
  <2>1. Unpack(port.buffer, cursor) \in Seq(Byte) /\ Unpack(NoData, cursor) \in Seq(Byte)
    BY <1>0, UnpackType, NoDataType, Zenon DEF CleanInv, IInv
  <2>2. \A u \in Seq(Byte) : dest \o u \in Seq(Byte)
    BY CatIs, Zenon DEF CleanInv
  <2> QED BY <2>1, <2>2, Zenon DEF CleanInv, Dummy, ReadLoop, ReadLast
<1>4. ASSUME Sound'
      PROVE  Linked' /\ Counted' /\ Moved'
  <2>1. spoiled' \in Nat /\ spoiled' >= spoiled
    <3>1. CASE Nothing(TRUE) \/ Nothing(FALSE)
      BY <1>2, <3>1, NothingLost, Zenon DEF CleanInv, IInv
    <3>2. spoiled \in Nat
      BY Zenon DEF CleanInv, IInv, MemTypes
    <3>3. ASSUME NEW ap \in BOOLEAN, Done(ap)
          PROVE  spoiled' \in Nat /\ spoiled' >= spoiled
      BY <3>2, <3>3 DEF Done
    <3> QED BY <3>1, <3>3, Zenon DEF Dummy, ReadLoop, ReadLast
  <2>2. Sound /\ spoiled' = spoiled /\ Linked /\ Counted /\ Moved
    BY <1>2, <1>4, <2>1, StillSound, Zenon DEF CleanInv
  <2>3. ~Nothing(TRUE) /\ ~Nothing(FALSE)
    BY <2>2, NothingSpoils, Zenon DEF CleanInv
  <2>4. cursor + left * op.width = op.addr + op.len /\ left > 0 /\ port.mine /\ port.size = op.width
    BY <1>2, <2>2, Zenon DEF Counted, Linked, Ended
  <2>5. /\ cursor + op.width <= op.addr + op.len
        /\ (cursor + op.width) + (left - 1) * op.width = op.addr + op.len
        /\ left > 1 => cursor + op.width < op.addr + op.len /\ cursor + 2 * op.width <= op.addr + op.len
        /\ left = 1 => cursor + op.width = op.addr + op.len
    BY <1>0, <2>4, LeftFits
  <2>6. Len(dest) = cursor - op.addr /\ \A i \in 1..Len(dest) : dest[i] = Old(op.addr + i - 1)
    BY <1>2, <2>2, Zenon DEF Moved, Ended
  <2>7. CASE Dummy
    <3>1. ReadDrw /\ fault' = fault /\ mpc = "dummy" /\ mpc' = "loop" /\ UNCHANGED <<cursor, left, dest>>
      BY <2>3, <2>7, Zenon DEF Dummy, Done
    <3>2. port.tar = cursor
      BY <2>2, <3>1, Zenon DEF Linked
    <3>3. /\ port'.mine /\ port'.size = op.width /\ ~port'.sticky
          /\ port'.tar = (cursor \div Page) * Page + ((cursor + op.width) % Page)
          /\ \A a \in Bytes(cursor, op.width) : port'.buffer[a % 4] = Old(a)
      BY <1>0, <1>2, <2>2, <2>4, <2>5, <3>1, <3>2, Fetches, Zenon
    <3>4. Linked'
      BY <1>2, <2>2, <3>1, <3>3, Zenon DEF Linked
    <3> QED BY <1>2, <2>2, <3>1, <3>4, Zenon DEF Counted, Moved, Ended
  <2>8. ASSUME mpc = "loop"
        PROVE  /\ Len(dest \o Unpack(port.buffer, cursor)) = (cursor + op.width) - op.addr
               /\ \A i \in 1..Len(dest \o Unpack(port.buffer, cursor)) :
                    (dest \o Unpack(port.buffer, cursor))[i] = Old(op.addr + i - 1)
    <3> DEFINE u == Unpack(port.buffer, cursor)
    <3>1. u \in Seq(Byte) /\ Len(u) = op.width /\ \A i \in 1..op.width : u[i] = Old(cursor + i - 1)
      BY <1>0, <2>2, <2>8, Unpacked, Zenon DEF Linked
    <3> HIDE DEF u
    <3>2. PICK n \in Nat : n = Len(dest) /\ cursor = op.addr + n
      BY <1>0, <2>6
    <3>3. \A k \in 1..Len(u) : u[k] = Old(op.addr + n + k - 1)
      BY <3>1, <3>2, Zenon
    <3>4. Len(dest \o u) = n + Len(u) /\ \A i \in 1..Len(dest \o u) : (dest \o u)[i] = Old(op.addr + i - 1)
      <4>1. dest \in Seq(Byte) /\ op.addr \in Nat /\ \A i \in 1..n : dest[i] = Old(op.addr + i - 1)
        BY <1>0, <2>6, <3>2, Zenon DEF CleanInv
      <4> QED BY <3>1, <3>2, <3>3, <4>1, Appended, Zenon
    <3>5. n + Len(u) = (cursor + op.width) - op.addr
      BY <1>0, <3>1, <3>2
    <3> QED BY <3>4, <3>5, Zenon DEF u
  <2>9. CASE ReadLoop
    <3>1. /\ ReadDrw /\ fault' = fault /\ mpc = "loop" /\ left > 1 /\ left' = left - 1
          /\ cursor' = cursor + op.width /\ dest' = dest \o Unpack(port.buffer, cursor)
          /\ mpc' = IF Crosses(cursor + op.width) THEN "retar" ELSE "loop"
      BY <2>3, <2>9, Zenon DEF ReadLoop, Done
    <3>2. port.tar = (cursor \div Page) * Page + ((cursor + op.width) % Page)
      BY <2>2, <3>1, Zenon DEF Linked
    <3>3. Counted'
      BY <1>0, <1>2, <2>5, <3>1 DEF Counted, Ended
    <3>4. Moved'
      BY <1>2, <2>2, <2>8, <3>1, Zenon DEF Moved, Ended
    <3>5. CASE Crosses(cursor + op.width)
      <4>1. port'.mine /\ port'.size = op.width /\ (transport = "jtag" => ~port'.sticky)
        BY <1>2, <2>2, <2>4, <2>5, <3>1, <3>2, <3>5, ReadsOver, Zenon
      <4> QED BY <1>2, <2>2, <3>1, <3>3, <3>4, <3>5, <4>1, Zenon DEF Linked
    <3>6. CASE ~Crosses(cursor + op.width)
      <4>1. port.tar = cursor + op.width
        BY <1>0, <3>2, <3>6, SamePage, Zenon DEF Crosses
      <4>2. PICK c \in Nat : c = cursor + op.width
        BY <1>0
      <4>3. c % op.width = 0 /\ op.addr <= c /\ c + op.width <= op.addr + op.len
        <5>1. (cursor + op.width) % op.width = 0
          BY <1>0, <2>5, OneMore
        <5>2. cursor + 2 * op.width <= op.addr + op.len
          BY <2>5, <3>1, Zenon
        <5>3. c + op.width = cursor + 2 * op.width
          BY <1>0, <4>2
        <5> QED BY <1>0, <4>2, <5>1, <5>2, <5>3
      <4>4. /\ port'.mine /\ port'.size = op.width /\ ~port'.sticky
            /\ port'.tar = (c \div Page) * Page + ((c + op.width) % Page)
            /\ \A a \in Bytes(c, op.width) : port'.buffer[a % 4] = Old(a)
        BY <1>2, <2>2, <2>4, <3>1, <4>1, <4>2, <4>3, Fetches, Zenon
      <4> QED BY <1>2, <2>2, <3>1, <3>3, <3>4, <3>6, <4>2, <4>4, Zenon DEF Linked
    <3> QED BY <3>5, <3>6, Zenon
  <2>10. CASE ReadLast
    <3>1. /\ port' = Ready /\ fault' = fault /\ mpc = "loop" /\ left = 1 /\ cursor' = cursor
          /\ dest' = dest \o Unpack(port.buffer, cursor) /\ mpc' = "check"
      BY <2>3, <2>10, Zenon DEF ReadLast, Done
    <3>2. ~port'.sticky
      BY <2>2, <3>1, ReadyClean, Zenon DEF CleanInv
    <3>3. Linked' /\ Counted'
      BY <1>2, <2>2, <3>1, <3>2, Zenon DEF Linked, Counted, Ended
    <3>4. Len(dest') = op.len
      BY <1>0, <2>5, <2>8, <3>1
    <3>5. Moved'
      BY <1>2, <2>2, <2>8, <3>1, <3>4, Zenon DEF Moved, Ended
    <3> QED BY <3>3, <3>5, Zenon
  <2> QED BY <2>7, <2>9, <2>10, Zenon
<1> QED BY <1>1, <1>2, <1>3, <1>4, Zenon DEF CleanInv

LEMMA WriteClean ==
    ASSUME CleanInv, WriteLoop
    PROVE  CleanInv'
<1>1. IInv'
  BY WriteLoopInv, Zenon DEF CleanInv
<1>2. UNCHANGED <<transport, op, dest, outcome>> /\ op.kind = "write" /\ mpc = "write" /\ left > 0
  BY Zenon DEF WriteLoop, CleanInv, IInv
<1>0. /\ cursor \in Nat /\ left \in Nat /\ op.width \in {1, 2, 4} /\ op.addr \in Nat /\ op.len \in Nat
      /\ op.addr <= cursor /\ cursor % op.width = 0 /\ spoiled \in Nat
  BY Zenon DEF CleanInv, IInv, MemTypes, Inside
<1>3. ASSUME Sound'
      PROVE  Linked' /\ Counted' /\ Moved'
  <2>1. spoiled' \in Nat /\ spoiled' >= spoiled
    <3>1. CASE Nothing(TRUE)
      BY <1>2, <3>1, NothingLost, Zenon DEF CleanInv, IInv
    <3>2. CASE Done(TRUE)
      BY <1>0, <3>2 DEF Done
    <3> QED BY <3>1, <3>2, Zenon DEF WriteLoop
  <2>2. Sound /\ spoiled' = spoiled /\ Linked /\ Counted /\ Moved
    BY <1>2, <1>3, <2>1, StillSound, Zenon DEF CleanInv
  <2>3. ~Nothing(TRUE)
    BY <2>2, NothingSpoils, Zenon DEF CleanInv
  <2>4. /\ WriteDrw(Pack(cursor)) /\ fault' = fault /\ left' = left - 1 /\ cursor' = cursor + op.width
        /\ mpc' = IF Crosses(cursor + op.width) THEN "retar" ELSE "write"
    BY <2>3, Zenon DEF WriteLoop, Done
  <2>5. cursor + left * op.width = op.addr + op.len /\ port.mine /\ port.size = op.width /\ port.tar = cursor
    BY <1>2, <2>2, Zenon DEF Counted, Linked, Ended
  <2>6. /\ cursor + op.width <= op.addr + op.len
        /\ (cursor + op.width) + (left - 1) * op.width = op.addr + op.len
    BY <1>0, <1>2, <2>5, LeftFits
  <2>7. Ready \in PortType /\ Ready.mine /\ Ready.tar = cursor /\ Ready.size = op.width /\ ~Ready.sticky /\ ~Discards
    BY <2>2, <2>5, ReadyPort, ReadyClean, Zenon DEF CleanInv, IInv
  <2>8. Bytes(cursor, op.width) \subseteq Addresses \ Holes
    BY <1>0, <2>2, <2>6, NextMapped, Zenon
  <2>9. /\ port' = Advanced(Ready)
        /\ mem' = [a \in Addresses |-> IF a \in Bytes(cursor, op.width) THEN Pack(cursor)[a % 4] ELSE mem[a]]
    BY <2>4, <2>5, <2>7, <2>8, Zenon DEF WriteDrw, Mapped
  <2>10. /\ port'.mine /\ port'.size = op.width /\ ~port'.sticky
         /\ port'.tar = (cursor \div Page) * Page + ((cursor + op.width) % Page)
    BY <2>7, <2>9, Zenon DEF PortType, Advanced
  <2>11. ~Crosses(cursor + op.width) => port'.tar = cursor + op.width
    BY <1>0, <2>10, SamePage, Zenon DEF Crosses
  <2>12. Linked'
    BY <1>2, <2>2, <2>4, <2>10, <2>11, Zenon DEF Linked
  <2>13. Counted'
    BY <1>0, <1>2, <2>4, <2>6, Zenon DEF Counted, Ended
  <2>14. Moved'
    <3> SUFFICES ASSUME NEW a \in Addresses, op.addr <= a, a < cursor + op.width
                 PROVE  mem'[a] = New(a)
      BY <1>2, <2>2, <2>4, Zenon DEF Moved
    <3>0. a \in Int
      BY MemAssumption DEF MemAssumption, Addresses
    <3>1. CASE a < cursor
      <4>1. a \notin Bytes(cursor, op.width)
        BY <1>0, <3>0, <3>1 DEF Bytes
      <4>2. mem[a] = New(a)
        BY <1>2, <2>2, <3>1, Zenon DEF Moved
      <4> QED BY <2>9, <4>1, <4>2, Zenon
    <3>2. CASE a >= cursor
      <4>1. a \in Bytes(cursor, op.width)
        BY <1>0, <3>0, <3>2 DEF Bytes
      <4>2. a % 4 \in 0..3 /\ a % 4 \in (cursor % 4)..((cursor % 4) + op.width - 1)
            /\ cursor - (cursor % 4) + (a % 4) = a
        BY <1>0, <4>1, Lane
      <4> QED BY <2>9, <4>1, <4>2, Zenon DEF Pack
    <3> QED BY <1>0, <3>0, <3>1, <3>2
  <2> QED BY <2>12, <2>13, <2>14, Zenon
<1> QED BY <1>1, <1>2, <1>3, Zenon DEF CleanInv

LEMMA EndClean ==
    ASSUME CleanInv, WriteLast \/ firmware_swdp_error \/ adiv5_jtagdp_error \/ Raise
    PROVE  CleanInv'
<1>1. IInv'
  BY EndInv, Zenon DEF CleanInv
<1>2. UNCHANGED <<transport, op, cursor, left, dest, mem>>
  BY Zenon DEF WriteLast, firmware_swdp_error, adiv5_jtagdp_error, CheckError, Raise
<1>0. spoiled \in Nat /\ cursor \in Nat /\ left \in Nat /\ op.width \in {1, 2, 4} /\ op.addr \in Nat /\ op.len \in Nat
  BY Zenon DEF CleanInv, IInv, MemTypes
<1>3. ASSUME Sound'
      PROVE  Linked' /\ Counted' /\ Moved'
  <2>1. spoiled' \in Nat /\ spoiled' >= spoiled
    <3>1. CASE WriteLast
      BY <1>2, <3>1, RecoverableDone, Zenon DEF CleanInv, IInv, WriteLast
    <3> QED BY <1>0, <3>1 DEF firmware_swdp_error, adiv5_jtagdp_error, CheckError, Raise
  <2>2. Sound /\ spoiled' = spoiled /\ Linked /\ Counted /\ Moved
    BY <1>2, <1>3, <2>1, StillSound, Zenon DEF CleanInv
  <2>3. ~Raise
    BY <1>0, <2>2 DEF Raise
  <2>4. CASE WriteLast
    <3>1. port' = Ready /\ fault' = fault /\ mpc = "write" /\ left = 0 /\ mpc' = "check" /\ outcome' = outcome
      BY <2>2, <2>4, RecoverableTaken, Zenon DEF WriteLast, CleanInv
    <3>2. ~port'.sticky /\ op.kind = "write"
      BY <2>2, <3>1, ReadyClean, Zenon DEF CleanInv, IInv
    <3>3. cursor = op.addr + op.len
      <4>1. cursor + left * op.width = op.addr + op.len
        BY <2>2, <3>1, Zenon DEF Counted, Ended
      <4> QED BY <1>0, <3>1, <4>1, LeftFits
    <3> QED BY <1>2, <2>2, <3>1, <3>2, <3>3, Zenon DEF Linked, Counted, Moved, Ended
  <2>5. CASE firmware_swdp_error \/ adiv5_jtagdp_error
    <3>1. /\ port' = [port EXCEPT !.sticky = FALSE] /\ fault' = "none" /\ mpc = "check" /\ mpc' = "end"
          /\ outcome' = IF transport = "swd" /\ port.sticky THEN "error" ELSE "ok"
      BY <2>5, Zenon DEF firmware_swdp_error, adiv5_jtagdp_error, CheckError
    <3>2. ~port.sticky
      BY <2>2, <3>1, Zenon DEF Linked
    <3>3. ~port'.sticky
      BY <3>1, Zenon DEF CleanInv, IInv, MemTypes, PortType
    <3> QED BY <1>2, <2>2, <3>1, <3>2, <3>3, Zenon DEF Linked, Counted, Moved, Ended
  <2> QED BY <2>3, <2>4, <2>5, Zenon
<1> QED BY <1>1, <1>2, <1>3, Zenon DEF CleanInv

\* advi5_mem_read_bytes and adiv5_mem_write_bytes transfer exactly the bytes of a
\* request that nothing disturbs, and report success, for every memory and page
\* size, at every alignment and across every page.
THEOREM TransfersExact == MemSpec => []Exact
<1>1. MemInit => CleanInv
  <2> SUFFICES ASSUME MemInit PROVE CleanInv
    BY Zenon
  <2>1. IInv
    BY InitInv, Zenon
  <2>2. PICK k \in {"read", "write"}, a \in Addresses, n \in 1..MemSize :
          /\ a + n <= MemSize
          /\ op = [kind |-> k, addr |-> a, len |-> n, width |-> Smaller(AlignOf(a), AlignOf(n))]
          /\ cursor = a
          /\ left = n \div Smaller(AlignOf(a), AlignOf(n))
    BY Zenon DEF MemInit
  <2>3. a \in Nat /\ n \in Nat /\ n > 0
    BY MemAssumption DEF MemAssumption, Addresses
  <2> DEFINE w == Smaller(AlignOf(a), AlignOf(n))
  <2>4. w \in {1, 2, 4} /\ (n \div w) * w = n
    BY <2>3, Aligned, Zenon
  <2>5. op.addr = a /\ op.len = n /\ op.width = w /\ cursor = a /\ left = n \div w
    BY <2>2, Zenon
  <2> HIDE DEF w
  <2>6. left \in Nat /\ left > 0 /\ cursor + left * op.width = op.addr + op.len
    BY <2>3, <2>4, <2>5
  <2>7. dest = <<>> /\ dest \in Seq(Byte) /\ mpc = "start" /\ mem = [b \in Addresses |-> Old(b)]
    BY DEF MemInit
  <2>8. Sound => Linked
    <3> SUFFICES ASSUME Sound PROVE Linked
      BY Zenon
    <3>1. (transport = "swd" => fault = "none") /\ ~Discards
      BY DEF MemInit, Sound
    <3> QED BY <2>7, <3>1, Zenon DEF Linked, Discards
  <2>9. Counted
    BY <2>6, <2>7, Zenon DEF Counted, Ended
  <2>10. Moved
    BY <2>3, <2>5, <2>7 DEF Moved, Ended
  <2> QED BY <2>1, <2>2, <2>5, <2>7, <2>8, <2>9, <2>10, Zenon DEF CleanInv
<1>2. CleanInv /\ [MemNext]_memVars => CleanInv'
  <2> SUFFICES ASSUME CleanInv, [MemNext]_memVars PROVE CleanInv'
    BY Zenon
  <2>1. CASE UNCHANGED memVars
    <3>1. IInv'
      BY StepInv, Zenon DEF CleanInv
    <3> QED BY <2>1, <3>1 DEF CleanInv, memVars, Sound, Requested, Wrapped, Linked, Counted, Moved, Ended
  <2> QED BY <2>1, SetupClean, ReadClean, WriteClean, EndClean, ZenonT(60) DEF MemNext, MemEnd
<1>3. CleanInv => Exact
  <2> SUFFICES ASSUME CleanInv, mpc = "end", Sound
               PROVE  /\ outcome = "ok"
                      /\ op.kind = "read" => dest = [i \in 1..op.len |-> Old(op.addr + i - 1)]
                      /\ op.kind = "write" => \A a \in Requested : mem[a] = New(a)
    BY Zenon DEF Exact
  <2>1. Counted /\ Moved /\ Ended /\ dest \in Seq(Byte)
    BY Zenon DEF CleanInv, Ended
  <2>2. op.kind = "read" => dest = [i \in 1..op.len |-> Old(op.addr + i - 1)]
    BY <2>1 DEF Moved
  <2>3. ASSUME op.kind = "write", NEW a \in Requested
        PROVE  mem[a] = New(a)
    <3>1. a \in Int /\ op.addr <= a /\ a < op.addr + op.len /\ a \in Addresses
      BY MemAssumption DEF MemAssumption, CleanInv, IInv, MemTypes, Requested, Bytes, Addresses
    <3> QED BY <2>1, <2>3, <3>1, Zenon DEF Counted, Moved
  <2> QED BY <2>1, <2>2, <2>3, Zenon DEF Moved
<1> QED BY <1>1, <1>2, <1>3, PTL DEF MemSpec

---------------------------------------------------------------------------
(* Sequences of edges.                                                     *)

Edge == {"host", "port", "turn"}

LEMMA OfIs ==
    ASSUME NEW who \in Edge, NEW n \in Nat
    PROVE  Of(who, n) \in Seq(Edge) /\ Len(Of(who, n)) = n /\ \A i \in 1..n : Of(who, n)[i] = who
BY DEF Of

LEMMA CatCat ==
    ASSUME NEW r \in Seq(Edge), NEW s \in Seq(Edge), NEW t \in Seq(Edge)
    PROVE  (r \o s) \o t = r \o (s \o t)
<1> DEFINE a == (r \o s) \o t
           b == r \o (s \o t)
<1>1. a \in Seq(Edge) /\ b \in Seq(Edge) /\ Len(a) = Len(b)
  OBVIOUS
<1>2. \A i \in 1..Len(a) : a[i] = b[i]
  OBVIOUS
<1> HIDE DEF a, b
<1>3. a = b
  BY <1>1, <1>2, SameSeq, Zenon
<1> QED BY <1>3, Zenon DEF a, b

LEMMA Dropped ==
    ASSUME NEW S, NEW s \in Seq(S), NEW t \in Seq(S)
    PROVE  SubSeq(s \o t, Len(s) + 1, Len(s \o t)) = t
<1> DEFINE a == SubSeq(s \o t, Len(s) + 1, Len(s \o t))
<1>1. a \in Seq(S) /\ Len(a) = Len(t)
  OBVIOUS
<1>2. \A i \in 1..Len(a) : a[i] = t[i]
  OBVIOUS
<1> HIDE DEF a
<1>3. a = t
  BY <1>1, <1>2, SameSeq, Zenon
<1> QED BY <1>3, Zenon DEF a

\* The edges that are due, and idle ones of the host after them.
LEMMA Agree ==
    ASSUME NEW due \in Seq(Edge), NEW more \in Seq(Edge), \A i \in 1..Len(more) : more[i] = "host"
    PROVE  Matches(due \o more, due) /\ Rest(due \o more, due) = <<>>
<1> DEFINE e == due \o more
<1>1. /\ e \in Seq(Edge) /\ Len(e) = Len(due) + Len(more)
      /\ \A i \in 1..Len(due) : e[i] = due[i]
      /\ \A i \in 1..Len(more) : e[Len(due) + i] = more[i]
  BY CatIs
<1> HIDE DEF e
<1>2. ASSUME NEW i \in DOMAIN e PROVE IF i \in DOMAIN due THEN e[i] = due[i] ELSE e[i] = "host"
  <2>1. CASE i <= Len(due)
    BY <1>1, <2>1
  <2>2. CASE i > Len(due)
    <3>1. PICK k \in 1..Len(more) : i = Len(due) + k
      <4>1. i - Len(due) \in 1..Len(more) /\ i = Len(due) + (i - Len(due))
        BY <1>1, <2>2
      <4> QED BY <4>1, Zenon
    <3>2. e[i] = "host" /\ i \notin DOMAIN due
      BY <1>1, <2>2, <3>1
    <3> QED BY <3>2, Zenon
  <2> QED BY <1>1, <2>1, <2>2
<1>3. Len(e) >= Len(due)
  BY <1>1
<1>4. Matches(e, due) /\ Rest(e, due) = <<>>
  BY <1>2, <1>3, Zenon DEF Matches, Rest
<1> QED BY <1>4, Zenon DEF e

LEMMA AgreeAll ==
    ASSUME NEW due \in Seq(Edge)
    PROVE  Matches(due, due) /\ Rest(due, due) = <<>>
BY DEF Matches, Rest

LEMMA AgreeFirst ==
    ASSUME NEW edges \in Seq(Edge), NEW more \in Seq(Edge), Len(more) > 0
    PROVE  Matches(edges, edges \o more) /\ Rest(edges, edges \o more) = more
<1> DEFINE d == edges \o more
<1>1. /\ d \in Seq(Edge) /\ Len(d) = Len(edges) + Len(more) /\ SubSeq(d, Len(edges) + 1, Len(d)) = more
      /\ \A i \in 1..Len(edges) : d[i] = edges[i]
  BY CatIs, Dropped
<1> HIDE DEF d
<1>2. \A i \in DOMAIN edges : i \in DOMAIN d /\ edges[i] = d[i]
  BY <1>1, SMTT(60)
<1>3. ~(Len(edges) >= Len(d))
  BY <1>1
<1>4. Matches(edges, d) /\ Rest(edges, d) = more
  BY <1>1, <1>2, <1>3, Zenon DEF Matches, Rest
<1> QED BY <1>4, Zenon DEF d

---------------------------------------------------------------------------
(* The SWD wire.                                                           *)

\* What the port expects after its acknowledge.
Due(read, a) ==
    IF a # "ok" THEN <<"turn">>
    ELSE IF read THEN Of("port", DataBits) \o <<"turn">>
    ELSE <<"turn">> \o Of("host", DataBits)

\* The host drives the line and the port expects nothing, or the port drives it
\* and expects to give it back.
Resting == todo = <<>> /\ olddir = "drive"
Owing == todo = <<"turn">> /\ olddir = "float"

WireInv ==
    /\ ~clash /\ deaf \in BOOLEAN
    /\ wpc = "idle" => deaf \/ Resting \/ Owing
    /\ wpc = "sent" => olddir = "drive"
    /\ wpc = "acked" => /\ olddir = "float" /\ (acknowledge = "none" <=> deaf) /\ acknowledge \in Acks \cup {"none"}
                        /\ ~deaf => todo = Due(access.read, acknowledge)
    /\ wpc \in Stages \cup {"again"} => ~deaf /\ Resting
    /\ wpc \in {"idle", "sent", "acked", "again", "resetting"} \cup Stages

LEMMA DueIs ==
    ASSUME NEW read, NEW a
    PROVE  Due(read, a) \in Seq(Edge) /\ Len(Due(read, a)) > 0
<1>1. /\ Of("port", DataBits) \in Seq(Edge) /\ Of("host", DataBits) \in Seq(Edge)
      /\ Len(Of("port", DataBits)) = DataBits /\ Len(Of("host", DataBits)) = DataBits /\ DataBits \in Nat
  BY OfIs, WireAssumption, Zenon DEF Edge
<1>2. <<"turn">> \in Seq(Edge) /\ Len(<<"turn">>) = 1
  BY DEF Edge
<1>3. /\ Of("port", DataBits) \o <<"turn">> \in Seq(Edge)
      /\ Len(Of("port", DataBits) \o <<"turn">>) = DataBits + 1
  BY <1>1, <1>2, CatIs
<1>4. /\ <<"turn">> \o Of("host", DataBits) \in Seq(Edge)
      /\ Len(<<"turn">> \o Of("host", DataBits)) = 1 + DataBits
  BY <1>1, <1>2, CatIs
<1> QED BY <1>1, <1>2, <1>3, <1>4 DEF Due

\* A request finds the line as the port left it.
LEMMA Sends ==
    ASSUME WireInv, Send, deaf \/ Resting \/ Owing
    PROVE  WireInv'
<1>1. ASSUME ~deaf PROVE Matches(seq_out(8), todo \o Of("host", 8))
  <2>1. seq_out(8) = todo \o Of("host", 8)
    BY <1>1, Zenon DEF Resting, Owing, seq_out, Turn
  <2>2. todo \o Of("host", 8) \in Seq(Edge)
    <3>1. Of("host", 8) \in Seq(Edge) /\ todo \in Seq(Edge)
      BY <1>1, OfIs DEF Resting, Owing, Edge
    <3> QED BY <3>1, CatIs, Zenon
  <2> QED BY <2>1, <2>2, AgreeAll, Zenon
<1>2. clash' = (clash \/ (~deaf /\ ~Matches(seq_out(8), todo \o Of("host", 8)))) /\ olddir' = "drive"
  BY Zenon DEF Send, Pass
<1>3. ~clash'
  BY <1>1, <1>2, Zenon DEF WireInv
<1> QED BY <1>2, <1>3, Zenon DEF WireInv, Send, Stages

LEMMA ReadsAck ==
    ASSUME WireInv, ReadAck
    PROVE  WireInv'
<1>1. PICK a \in Acks, deaf1 \in BOOLEAN :
          /\ acknowledge' = IF deaf1 THEN "none" ELSE a
          /\ deaf' = deaf1
          /\ clash' = (clash \/ (~deaf1 /\ ~Matches(seq_in(AckBits), Answer(access.read, a))))
          /\ todo' = IF deaf1 THEN <<>> ELSE Rest(seq_in(AckBits), Answer(access.read, a))
  BY DEF ReadAck, Acks
<1>2. olddir = "drive" /\ olddir' = "float" /\ wpc' = "acked" /\ access' = access
  BY Zenon DEF ReadAck, WireInv
<1>3. seq_in(AckBits) = <<"turn">> \o Of("port", 3)
  BY <1>2, Zenon DEF seq_in, Turn, AckBits
<1>4. Answer(access.read, a) = (<<"turn">> \o Of("port", 3)) \o Due(access.read, a)
  BY Zenon DEF Answer, Due
<1>5. <<"turn">> \o Of("port", 3) \in Seq(Edge)
  <2>1. <<"turn">> \in Seq(Edge) /\ Of("port", 3) \in Seq(Edge)
    BY OfIs DEF Edge
  <2> QED BY <2>1, CatIs, Zenon
<1>6. /\ Matches(seq_in(AckBits), Answer(access.read, a))
      /\ Rest(seq_in(AckBits), Answer(access.read, a)) = Due(access.read, a)
  BY <1>3, <1>4, <1>5, DueIs, AgreeFirst, Zenon
<1>7. ~clash' /\ (~deaf1 => todo' = Due(access.read, a))
  BY <1>1, <1>6, Zenon DEF WireInv
<1>8. a # "none"
  BY Zenon DEF Acks
<1> QED BY <1>1, <1>2, <1>7, <1>8, Zenon DEF WireInv, Stages

\* Clean steps: the edges were those expected, and nothing is left.
LEMMA Passes ==
    ASSUME WireInv, NEW edges, NEW due, Pass(edges, due, "drive"), Matches(edges, due), Rest(edges, due) = <<>>
    PROVE  ~clash' /\ Resting'
BY Zenon DEF WireInv, Pass, Resting

LEMMA TransfersData ==
    ASSUME WireInv, Data
    PROVE  WireInv'
<1>1. ~deaf /\ olddir = "float" /\ acknowledge = "ok" /\ todo = Due(access.read, "ok")
  BY Zenon DEF WireInv, Data
<1>2. todo \in Seq(Edge)
  BY <1>1, DueIs, Zenon
<1>3. CASE access.read
  <2>1. todo = Of("port", DataBits) \o <<"turn">>
    BY <1>1, <1>3, Zenon DEF Due
  <2>2. <<>> \o Of("port", DataBits) = Of("port", DataBits)
    <3>1. Of("port", DataBits) \in Seq(Edge)
      BY OfIs, WireAssumption, Zenon DEF Edge
    <3> QED BY <3>1
  <2>3. seq_in_parity = todo
    BY <1>1, <2>1, <2>2, Zenon DEF seq_in_parity, seq_in, Turn
  <2>4. ~clash' /\ Resting'
    BY <1>2, <1>3, <2>3, AgreeAll, Passes, Zenon DEF Data
  <2> QED BY <1>1, <2>4, Zenon DEF WireInv, Data
<1>4. CASE ~access.read
  <2>1. seq_out(DataBits) = todo
    BY <1>1, <1>4, Zenon DEF Due, seq_out, Turn
  <2>2. Of("host", 8) \in Seq(Edge) /\ \A i \in 1..Len(Of("host", 8)) : Of("host", 8)[i] = "host"
    BY OfIs, Zenon DEF Edge
  <2>3. ~clash' /\ Resting'
    BY <1>2, <1>4, <2>1, <2>2, Agree, Passes, Zenon DEF Data
  <2> QED BY <1>1, <2>3, Zenon DEF WireInv, Data
<1> QED BY <1>3, <1>4, Zenon

LEMMA ReadsLow ==
    ASSUME WireInv, LowRead
    PROVE  WireInv'
<1>1. ~deaf /\ todo = <<>> /\ olddir = "drive"
  BY Zenon DEF WireInv, LowRead, Resting, Stages
<1> DEFINE h == Of("host", 8)
           t == <<"turn">>
           a == Of("port", 3)
           d == Of("port", DataBits)
<1>2. h \in Seq(Edge) /\ t \in Seq(Edge) /\ a \in Seq(Edge) /\ d \in Seq(Edge)
  BY OfIs, WireAssumption DEF Edge
<1>3. seq_out(8) = h
  <2>1. seq_out(8) = <<>> \o h
    BY <1>1, Zenon DEF seq_out, Turn
  <2> HIDE DEF h
  <2> QED BY <1>2, <2>1
<1>4. Pass(h \o t \o a \o d \o t, h \o Answer(TRUE, "ok"), "drive")
  BY <1>3, Zenon DEF LowRead
<1>5. Answer(TRUE, "ok") = (t \o a) \o (d \o t)
  BY Zenon DEF Answer
<1> HIDE DEF h, t, a, d
<1>6. h \o t \o a \o d \o t = h \o ((t \o a) \o (d \o t))
  <2> DEFINE ta == t \o a
             dt == d \o t
             p == (h \o t) \o a
  <2>1. h \o t \in Seq(Edge) /\ ta \in Seq(Edge) /\ dt \in Seq(Edge) /\ p \in Seq(Edge)
    BY <1>2, CatIs, Zenon
  <2>2. p = h \o ta
    BY <1>2, CatCat, ZenonT(30)
  <2> HIDE DEF p, ta
  <2>3. (p \o d) \o t = p \o dt
    <3>1. ASSUME NEW x \in Seq(Edge) PROVE (x \o d) \o t = x \o dt
      BY <1>2, <3>1, CatCat, ZenonT(30)
    <3> HIDE DEF dt
    <3> QED BY <2>1, <3>1, Zenon
  <2> HIDE DEF dt
  <2>4. (h \o ta) \o dt = h \o (ta \o dt)
    <3>0. h \in Seq(Edge)
      BY <1>2, Zenon
    <3>1. ASSUME NEW x \in Seq(Edge), NEW y \in Seq(Edge) PROVE (h \o x) \o y = h \o (x \o y)
      BY <3>0, CatCat, Zenon
    <3> QED BY <2>1, <3>1, Zenon
  <2>5. (p \o d) \o t = h \o (ta \o dt)
    BY <2>2, <2>3, <2>4, Zenon
  <2> QED BY <2>5, Zenon DEF p, ta, dt
<1>7. h \o Answer(TRUE, "ok") \in Seq(Edge)
  <2>1. t \o a \in Seq(Edge) /\ d \o t \in Seq(Edge)
    BY <1>2, CatIs, Zenon
  <2>2. (t \o a) \o (d \o t) \in Seq(Edge)
    BY <2>1, CatIs, Zenon
  <2> QED BY <1>2, <1>5, <2>2, CatIs, Zenon
<1>8. ~clash' /\ Resting'
  BY <1>4, <1>5, <1>6, <1>7, AgreeAll, Passes, Zenon
<1>9. wpc' \in Stages \cup {"again"} /\ deaf' = deaf
  BY Zenon DEF LowRead, Stages
<1> QED BY <1>1, <1>8, <1>9, Zenon DEF WireInv, Stages

LEMMA WritesLow ==
    ASSUME WireInv, LowWrite
    PROVE  WireInv'
<1>1. ~deaf /\ todo = <<>> /\ olddir = "drive"
  BY Zenon DEF WireInv, LowWrite, Resting, Stages
<1> DEFINE h == Of("host", 8)
           t == <<"turn">>
           a == Of("port", 3)
           d == Of("host", DataBits)
<1>2. h \in Seq(Edge) /\ t \in Seq(Edge) /\ a \in Seq(Edge) /\ d \in Seq(Edge)
  BY OfIs, WireAssumption DEF Edge
<1>3. seq_out(8) = h
  <2>1. seq_out(8) = <<>> \o h
    BY <1>1, Zenon DEF seq_out, Turn
  <2> HIDE DEF h
  <2> QED BY <1>2, <2>1
<1>4. Pass((h \o t \o a \o t \o d) \o h, h \o Answer(FALSE, "ok"), "drive")
  BY <1>3, Zenon DEF LowWrite
<1>5. Answer(FALSE, "ok") = (t \o a) \o (t \o d)
  BY Zenon DEF Answer
<1>6. \A i \in 1..Len(h) : h[i] = "host"
  BY OfIs, Zenon DEF Edge
<1> HIDE DEF h, t, a, d
<1>7. h \o t \o a \o t \o d = h \o ((t \o a) \o (t \o d))
  <2> DEFINE ta == t \o a
             td == t \o d
             p == (h \o t) \o a
  <2>1. h \o t \in Seq(Edge) /\ ta \in Seq(Edge) /\ td \in Seq(Edge) /\ p \in Seq(Edge)
    BY <1>2, CatIs, Zenon
  <2>2. p = h \o ta
    BY <1>2, CatCat, ZenonT(30)
  <2> HIDE DEF p, ta
  <2>3. (p \o t) \o d = p \o td
    <3>1. ASSUME NEW x \in Seq(Edge) PROVE (x \o t) \o d = x \o td
      BY <1>2, <3>1, CatCat, ZenonT(30)
    <3> HIDE DEF td
    <3> QED BY <2>1, <3>1, Zenon
  <2> HIDE DEF td
  <2>4. (h \o ta) \o td = h \o (ta \o td)
    <3>0. h \in Seq(Edge)
      BY <1>2, Zenon
    <3>1. ASSUME NEW x \in Seq(Edge), NEW y \in Seq(Edge) PROVE (h \o x) \o y = h \o (x \o y)
      BY <3>0, CatCat, Zenon
    <3> QED BY <2>1, <3>1, Zenon
  <2>5. (p \o t) \o d = h \o (ta \o td)
    BY <2>2, <2>3, <2>4, Zenon
  <2> QED BY <2>5, Zenon DEF p, ta, td
<1>8. h \o Answer(FALSE, "ok") \in Seq(Edge)
  <2>1. t \o a \in Seq(Edge) /\ t \o d \in Seq(Edge)
    BY <1>2, CatIs, Zenon
  <2>2. (t \o a) \o (t \o d) \in Seq(Edge)
    BY <2>1, CatIs, Zenon
  <2> QED BY <1>2, <1>5, <2>2, CatIs, Zenon
<1> DEFINE due == h \o Answer(FALSE, "ok")
<1>9. Pass(due \o h, due, "drive") /\ due \in Seq(Edge)
  BY <1>4, <1>5, <1>7, <1>8, Zenon
<1> HIDE DEF due
<1>10. Matches(due \o h, due) /\ Rest(due \o h, due) = <<>>
  BY <1>2, <1>6, <1>9, Agree, Zenon
<1>11. ~clash' /\ Resting'
  BY <1>9, <1>10, Passes, Zenon
<1>12. wpc' \in Stages \cup {"again"} /\ deaf' = deaf
  BY Zenon DEF LowWrite, Stages
<1> QED BY <1>1, <1>11, <1>12, Zenon DEF WireInv, Stages

LEMMA WireNextInv ==
    ASSUME WireInv, [WireNext]_wireVars
    PROVE  WireInv'
<1>1. ASSUME NEW read \in BOOLEAN, NEW recoverable \in BOOLEAN, Request(read, recoverable) PROVE WireInv'
  BY <1>1, Sends, Zenon DEF Request, WireInv
<1>2. CASE Retry \/ ClearFault
  <2>1. Send /\ wpc = "acked" /\ acknowledge \in {"wait", "fault"}
    BY <1>2, Zenon DEF Retry, ClearFault
  <2>2. Owing
    BY <2>1, Zenon DEF WireInv, Owing, Due
  <2> QED BY <2>1, <2>2, Sends, Zenon
<1>3. CASE Again
  BY <1>3, Sends, Zenon DEF Again, WireInv
<1>4. CASE GiveUp
  <2>1. /\ wpc = "acked" /\ UNCHANGED <<olddir, todo, access, acknowledge, deaf, clash>>
        /\ wpc' = IF acknowledge = "bad" THEN "resetting" ELSE "idle"
        /\ acknowledge \in {"wait", "fault", "bad", "none"}
    BY <1>4, Zenon DEF GiveUp
  <2>2. deaf \/ Owing
    BY <2>1, Zenon DEF WireInv, Owing, Due
  <2> QED BY <2>1, <2>2, Zenon DEF WireInv, Resting, Owing, Stages
<1>5. CASE Recover
  <2>1. deaf /\ wpc' = "resetting" /\ deaf' = deaf /\ clash' = (clash \/ (~deaf /\ ~Matches(seq_in_parity, todo)))
    BY <1>5, Zenon DEF Recover, WireInv, Pass
  <2> QED BY <2>1, Zenon DEF WireInv, Stages
<1>6. CASE LineReset
  BY <1>6, Zenon DEF LineReset, WireInv, Resting, Stages
<1>7. CASE UNCHANGED wireVars
  BY <1>7, Zenon DEF wireVars, WireInv, Resting, Owing
<1> QED BY <1>1, <1>2, <1>3, <1>4, <1>5, <1>6, <1>7, ReadsAck, TransfersData, ReadsLow, WritesLow, Zenon DEF WireNext

\* Host and port agree on every edge (swdptap_turnaround and the sequences of
\* firmware_swdp_low_access), for every number of data bits, across retries,
\* cleared faults, accesses given up and recovery.
THEOREM WireInStep == WireSpec => []InStep
<1>1. WireInit => WireInv
  BY Zenon DEF WireInit, WireInv, Resting, Stages
<1>2. WireInv => InStep
  BY Zenon DEF WireInv, InStep
<1> QED BY <1>1, <1>2, WireNextInv, PTL DEF WireSpec

---------------------------------------------------------------------------
(* Bits and bytes: the division of a cycle by the size of a byte.          *)

LEMMA BitAndByte ==
    ASSUME NEW B \in Nat \ {0}, NEW c \in Nat
    PROVE  c \div B \in Nat /\ c % B \in 0..(B - 1) /\ c = B * (c \div B) + (c % B)
OBVIOUS

\* Whole bytes: of two different numbers of them, one is a byte longer.
LEMMA WholeBytes ==
    ASSUME NEW B \in Nat \ {0}, NEW p \in Nat, NEW q \in Nat, p < q
    PROVE  B * p + B <= B * q
<1>1. PICK k \in Nat : q = p + 1 + k
  <2>1. q - p - 1 \in Nat /\ q = p + 1 + (q - p - 1)
    OBVIOUS
  <2> QED BY <2>1, Zenon
<1>2. B * (p + 1 + k) = B * p + B + B * k
  OBVIOUS
<1>3. B * k \in Nat
  OBVIOUS
<1>4. B * p \in Nat
  OBVIOUS
<1> QED BY <1>1, <1>2, <1>3, <1>4

LEMMA BytesInOrder ==
    ASSUME NEW B \in Nat \ {0}, NEW c \in Nat, NEW d \in Nat, c <= d
    PROVE  c \div B <= d \div B
<1> SUFFICES ASSUME d \div B < c \div B PROVE FALSE
  BY BitAndByte
<1> DEFINE p == d \div B
           q == c \div B
<1>1. B * p + B <= B * q
  BY BitAndByte, WholeBytes, Zenon
<1>2. d = B * p + (d % B) /\ d % B < B /\ d % B \in Nat /\ p \in Nat
  BY BitAndByte
<1>3. c = B * q + (c % B) /\ c % B \in Nat /\ q \in Nat
  BY BitAndByte
<1>4. B * p \in Nat /\ B * q \in Nat
  BY <1>2, <1>3
<1> QED BY <1>1, <1>2, <1>3, <1>4

LEMMA OneByte ==
    ASSUME NEW B \in Nat \ {0}, NEW c \in Nat, NEW q \in Nat, NEW r \in 0..(B - 1), c = B * q + r
    PROVE  c \div B = q /\ c % B = r
<1> DEFINE p == c \div B
<1>1. c = B * p + (c % B) /\ c % B \in 0..(B - 1) /\ p \in Nat
  BY BitAndByte, Zenon
<1> HIDE DEF p
<1>2. B * p \in Nat /\ B * q \in Nat
  BY <1>1
<1>3. ~(p < q)
  <2>1. p < q => B * p + B <= B * q
    BY <1>1, WholeBytes, Zenon
  <2> QED BY <1>1, <1>2, <2>1
<1>4. ~(q < p)
  <2>1. q < p => B * q + B <= B * p
    BY <1>1, WholeBytes, Zenon
  <2>2. c < B * q + B
    BY <1>2
  <2>3. B * p <= c
    BY <1>1, <1>2
  <2> QED BY <1>2, <2>1, <2>2, <2>3
<1>5. p = q
  BY <1>1, <1>3, <1>4
<1> QED BY <1>1, <1>2, <1>5 DEF p

LEMMA NextBit ==
    ASSUME NEW B \in Nat \ {0}, NEW c \in Nat
    PROVE  /\ c % B = B - 1 => (c + 1) \div B = c \div B + 1
           /\ c % B # B - 1 => (c + 1) \div B = c \div B
<1> DEFINE q == c \div B
           r == c % B
<1>1. c = B * q + r /\ r \in 0..(B - 1) /\ q \in Nat
  BY BitAndByte, Zenon
<1> HIDE DEF q, r
<1>2. B * q \in Nat
  BY <1>1
<1>3. CASE r = B - 1
  <2>1. B * (q + 1) = B * q + B
    BY <1>1
  <2>2. c + 1 = B * (q + 1) + 0
    BY <1>1, <1>2, <1>3, <2>1
  <2>3. q + 1 \in Nat /\ 0 \in 0..(B - 1) /\ c + 1 \in Nat
    BY <1>1
  <2>4. (c + 1) \div B = q + 1
    BY <2>2, <2>3, OneByte, Zenon
  <2> QED BY <1>3, <2>4, Zenon DEF q, r
<1>4. CASE r # B - 1
  <2>2. c + 1 = B * q + (r + 1)
    BY <1>1, <1>2
  <2>3. r + 1 \in 0..(B - 1) /\ c + 1 \in Nat
    BY <1>1, <1>4
  <2>4. (c + 1) \div B = q
    BY <1>1, <2>2, <2>3, OneByte, Zenon
  <2> QED BY <1>4, <2>4, Zenon DEF q, r
<1> QED BY <1>3, <1>4, Zenon

---------------------------------------------------------------------------
(* The bits captured on JTAG, at full speed.                               *)

\* Cycle c is in the byte being gathered, or in the one it was stored in.
Kept(c, at, v, out) ==
    IF c \div ByteBits = at THEN v[c % ByteBits] = c ELSE out[c \div ByteBits][c % ByteBits] = c

TapInv ==
    /\ swd_delay = FALSE /\ clock_cycles \in Nat \ {0} /\ cycle \in Nat /\ cycle <= clock_cycles + 1
    /\ value \in [0..(ByteBits - 1) -> Int]
    /\ data_out \in [0..((clock_cycles - 1) \div ByteBits) -> [0..(ByteBits - 1) -> Int]]
    /\ cycle <= clock_cycles => \A c \in 0..(cycle - 1) : Kept(c, cycle \div ByteBits, value, data_out)
    /\ AllCaptured

LEMMA InRange ==
    ASSUME NEW n \in Nat \ {0}, NEW c \in 0..(n - 1), ByteBits \in Nat \ {0}
    PROVE  /\ c \div ByteBits \in 0..((n - 1) \div ByteBits) /\ c % ByteBits \in 0..(ByteBits - 1)
           /\ c \div ByteBits <= n \div ByteBits
<1>1. c \in Nat /\ n - 1 \in Nat /\ c <= n - 1 /\ c <= n /\ n \in Nat
  OBVIOUS
<1>2. c \div ByteBits <= (n - 1) \div ByteBits /\ c \div ByteBits <= n \div ByteBits
  BY <1>1, BytesInOrder, Zenon
<1>3. c \div ByteBits \in Nat /\ c % ByteBits \in 0..(ByteBits - 1) /\ (n - 1) \div ByteBits \in Nat
  BY <1>1, BitAndByte, Zenon
<1> QED BY <1>2, <1>3

\* Two cycles that end in the same bit of the same byte are one.
LEMMA SameBit ==
    ASSUME NEW c \in Nat, NEW d \in Nat, ByteBits \in Nat \ {0}, c \div ByteBits = d \div ByteBits, c % ByteBits = d % ByteBits
    PROVE  c = d
BY BitAndByte, Zenon

LEMMA Shifts ==
    ASSUME TapInv, Shift
    PROVE  TapInv'
<1> DEFINE bit == cycle % ByteBits
           q == cycle \div ByteBits
           gathered == [value EXCEPT ![bit] = cycle]
<1>1. /\ ByteBits \in Nat \ {0} /\ cycle \in Nat /\ clock_cycles \in Nat \ {0} /\ cycle \in 0..(clock_cycles - 1)
      /\ cycle' = cycle + 1 /\ clock_cycles' = clock_cycles /\ swd_delay' = FALSE
  BY TapAssumption DEF TapInv, Shift
<1>2. bit \in 0..(ByteBits - 1) /\ q \in 0..((clock_cycles - 1) \div ByteBits) /\ q \in Nat
  BY <1>1, InRange, BitAndByte, Zenon
<1>3. /\ value \in [0..(ByteBits - 1) -> Int]
      /\ data_out \in [0..((clock_cycles - 1) \div ByteBits) -> [0..(ByteBits - 1) -> Int]]
      /\ \A c \in 0..(cycle - 1) : Kept(c, q, value, data_out)
  BY <1>1 DEF TapInv
<1>4. gathered \in [0..(ByteBits - 1) -> Int] /\ gathered[bit] = cycle
      /\ \A b \in 0..(ByteBits - 1) : b # bit => gathered[b] = value[b]
  BY <1>1, <1>2, <1>3
<1>5. ASSUME NEW c \in 0..cycle, c \div ByteBits = q PROVE gathered[c % ByteBits] = c
  <2>1. CASE c = cycle
    BY <1>4, <2>1, Zenon
  <2>2. CASE c # cycle
    <3>1. c \in Nat /\ c \in 0..(cycle - 1) /\ c \in 0..(clock_cycles - 1)
      BY <1>1, <2>2
    <3>2. c % ByteBits # bit
      BY <1>1, <1>5, <2>2, <3>1, SameBit, Zenon
    <3>3. value[c % ByteBits] = c
      BY <1>3, <1>5, <3>1, Zenon DEF Kept
    <3>4. c % ByteBits \in 0..(ByteBits - 1)
      BY <1>1, <3>1, BitAndByte, Zenon
    <3> QED BY <1>4, <3>2, <3>3, <3>4, Zenon
  <2> QED BY <2>1, <2>2, Zenon
<1>6. ASSUME NEW c \in 0..cycle, c \div ByteBits # q
      PROVE  /\ data_out[c \div ByteBits][c % ByteBits] = c
             /\ c \div ByteBits \in 0..((clock_cycles - 1) \div ByteBits)
  <2>1. c \in 0..(cycle - 1) /\ c \in 0..(clock_cycles - 1)
    BY <1>1, <1>6, SMTT(60)
  <2> QED BY <1>1, <1>3, <1>6, <2>1, InRange, Zenon DEF Kept
<1> HIDE DEF gathered
<1>7. CASE bit = ByteBits - 1
  <2>1. value' = Zero /\ data_out' = [data_out EXCEPT ![q] = gathered]
    BY <1>7, Zenon DEF Shift, gathered
  <2>2. (cycle + 1) \div ByteBits = q + 1
    BY <1>1, <1>7, NextBit, Zenon
  <2>3. value' \in [0..(ByteBits - 1) -> Int]
    BY <2>1 DEF Zero
  <2>4. data_out' \in [0..((clock_cycles - 1) \div ByteBits) -> [0..(ByteBits - 1) -> Int]]
    BY <1>2, <1>3, <1>4, <2>1, Zenon
  <2>5. ASSUME NEW c \in 0..cycle PROVE Kept(c, q + 1, value', data_out')
    <3>1. c \div ByteBits <= q /\ c \div ByteBits \in Nat
      BY <1>1, BytesInOrder, BitAndByte
    <3>2. data_out'[c \div ByteBits][c % ByteBits] = c
      <4>1. CASE c \div ByteBits = q
        BY <1>2, <1>3, <1>5, <2>1, <4>1, Zenon
      <4>2. CASE c \div ByteBits # q
        BY <1>3, <1>6, <2>1, <4>2, Zenon
      <4> QED BY <4>1, <4>2, Zenon
    <3>3. c \div ByteBits # q + 1
      BY <1>2, <3>1, SMTT(60)
    <3> QED BY <3>2, <3>3, Zenon DEF Kept
  <2> QED BY <1>1, <2>2, <2>3, <2>4, <2>5 DEF TapInv, AllCaptured
<1>8. CASE bit # ByteBits - 1
  <2>1. value' = gathered /\ data_out' = data_out
    BY <1>8, Zenon DEF Shift, gathered
  <2>2. (cycle + 1) \div ByteBits = q
    BY <1>1, <1>8, NextBit, Zenon
  <2>3. ASSUME NEW c \in 0..cycle PROVE Kept(c, q, value', data_out')
    BY <1>5, <1>6, <2>1, Zenon DEF Kept
  <2> QED BY <1>1, <1>3, <1>4, <2>1, <2>2, <2>3 DEF TapInv, AllCaptured
<1> QED BY <1>7, <1>8, Zenon

LEMMA Finishes ==
    ASSUME TapInv, Finish
    PROVE  TapInv'
<1> DEFINE n == clock_cycles
           last == (clock_cycles - 1) \div ByteBits
<1>1. /\ ByteBits \in Nat \ {0} /\ n \in Nat \ {0} /\ n - 1 \in Nat /\ cycle = n /\ cycle' = n + 1 /\ clock_cycles' = n
      /\ value' = value /\ swd_delay' = FALSE /\ ~swd_delay
  BY TapAssumption DEF TapInv, Finish
<1>2. /\ value \in [0..(ByteBits - 1) -> Int] /\ data_out \in [0..last -> [0..(ByteBits - 1) -> Int]]
      /\ \A c \in 0..(n - 1) : Kept(c, n \div ByteBits, value, data_out)
  BY <1>1 DEF TapInv
<1>3. last \in 0..last
  BY <1>1, InRange, SMTT(60)
<1>4. CASE n % ByteBits = 0
  <2>1. data_out' = data_out
    BY <1>1, <1>4, Zenon DEF Finish, LeftOver
  <2>2. ASSUME NEW c \in 0..(n - 1) PROVE data_out[c \div ByteBits][c % ByteBits] = c
    <3>1. c \div ByteBits # n \div ByteBits
      <4>1. n = ByteBits * (n \div ByteBits) + (n % ByteBits) /\ n \div ByteBits \in Nat
        BY <1>1, BitAndByte, Zenon
      <4>2. c = ByteBits * (c \div ByteBits) + (c % ByteBits) /\ c % ByteBits \in Nat /\ c \div ByteBits \in Nat
        BY <1>1, BitAndByte, SMTT(60)
      <4> QED BY <1>1, <1>4, <4>1, <4>2
    <3> QED BY <1>2, <3>1, Zenon DEF Kept
  <2> QED BY <1>1, <1>2, <2>1, <2>2 DEF TapInv, AllCaptured
<1>5. CASE n % ByteBits # 0
  <2>1. data_out' = [data_out EXCEPT ![last] = value]
    BY <1>1, <1>5, Zenon DEF Finish, LeftOver
  <2>2. last = n \div ByteBits
    <3>1. (n - 1) % ByteBits # ByteBits - 1
      <4> SUFFICES ASSUME (n - 1) % ByteBits = ByteBits - 1 PROVE FALSE
        BY Zenon
      <4>1. n - 1 = ByteBits * last + (ByteBits - 1) /\ last \in Nat
        BY <1>1, BitAndByte, Zenon
      <4>2. ByteBits * (last + 1) = ByteBits * last + ByteBits /\ ByteBits * last \in Nat
        BY <1>1, <4>1
      <4>3. n = ByteBits * (last + 1) + 0 /\ last + 1 \in Nat /\ 0 \in 0..(ByteBits - 1)
        BY <1>1, <4>1, <4>2
      <4>4. n % ByteBits = 0
        BY <1>1, <4>3, OneByte, Zenon
      <4> QED BY <1>5, <4>4, Zenon
    <3>2. (n - 1) + 1 = n
      BY <1>1
    <3>3. ((n - 1) + 1) \div ByteBits = last
      BY <1>1, <3>1, NextBit, Zenon
    <3> QED BY <3>2, <3>3, Zenon
  <2>3. data_out' \in [0..last -> [0..(ByteBits - 1) -> Int]]
    BY <1>2, <1>3, <2>1, Zenon
  <2>4. ASSUME NEW c \in 0..(n - 1) PROVE data_out'[c \div ByteBits][c % ByteBits] = c
    <3>1. c \div ByteBits \in 0..last
      BY <1>1, InRange, Zenon
    <3>2. CASE c \div ByteBits = last
      BY <1>2, <1>3, <2>1, <2>2, <3>2, Zenon DEF Kept
    <3>3. CASE c \div ByteBits # last
      BY <1>2, <2>1, <2>2, <3>1, <3>3, Zenon DEF Kept
    <3> QED BY <3>2, <3>3, Zenon
  <2> QED BY <1>1, <1>2, <2>3, <2>4 DEF TapInv, AllCaptured
<1> QED BY <1>4, <1>5, Zenon

\* jtagtap_tdi_tdo_seq at full speed puts every bit that arrived into its place,
\* for every number of clock cycles and every size of a byte: the last byte,
\* full or not, is stored once.  (The slowed-down routine does not, which the
\* run jtag_delay shows.)
THEOREM BitsCaptured ==
    ASSUME TRUE \notin Delays
    PROVE  TapSpec => []AllCaptured
<1>1. TapInit => TapInv
  <2> SUFFICES ASSUME TapInit PROVE TapInv
    BY Zenon
  <2>1. swd_delay = FALSE /\ clock_cycles \in Nat \ {0} /\ cycle = 0
    BY TapAssumption, Zenon DEF TapInit
  <2>2. value \in [0..(ByteBits - 1) -> Int] /\ data_out \in [0..((clock_cycles - 1) \div ByteBits) -> [0..(ByteBits - 1) -> Int]]
    BY DEF TapInit, Zero, Empty
  <2> QED BY <2>1, <2>2 DEF TapInv, AllCaptured
<1>2. TapInv /\ [TapNext]_tapVars => TapInv'
  <2> SUFFICES ASSUME TapInv, [TapNext]_tapVars PROVE TapInv'
    BY Zenon
  <2>1. CASE TapEnd \/ UNCHANGED tapVars
    BY <2>1, Zenon DEF TapEnd, tapVars, TapInv, AllCaptured
  <2> QED BY <2>1, Shifts, Finishes, Zenon DEF TapNext
<1>3. TapInv => AllCaptured
  BY Zenon DEF TapInv
<1> QED BY <1>1, <1>2, <1>3, PTL DEF TapSpec

=============================================================================
