------------------------------- MODULE AdiMem -------------------------------
(***************************************************************************)
(* Memory access through a debug port (adiv5.c) over SWD (adiv5_swdp.c) or *)
(* JTAG (adiv5_jtagdp.c): the setup of SELECT, CSW and TAR, the pipelined  *)
(* reads and the writes with an address increment that wraps, the byte     *)
(* lanes, and what the low-level access does with the acknowledge of each  *)
(* transaction.  One action is one transaction.                            *)
(*                                                                         *)
(* The debug port is external.  It starts a read when DRW is read and      *)
(* delivers its result with the next read; TAR advances within a page; an  *)
(* access to an address without memory sets the sticky error.  With it, a  *)
(* port on SWD answers FAULT until ABORT clears it, and one on JTAG goes   *)
(* on acknowledging accesses to its access ports but carries out none.     *)
(***************************************************************************)
EXTENDS Integers, Sequences

CONSTANTS
    Page,        \* bytes that TAR counts through before it wraps
    MemSize,     \* bytes of the address space
    Holes,       \* addresses without memory
    MaxSpoiled   \* transactions of a request that the link or the bus spoils

ASSUME MemAssumption ==
    /\ Page \in Nat \ {0} /\ Page % 4 = 0
    /\ MemSize \in Nat /\ MemSize % Page = 0
    /\ Holes \subseteq 0..(MemSize - 1)
    /\ MaxSpoiled \in Nat

VARIABLES
    transport, \* "swd" or "jtag"
    mpc,       \* the transaction that comes next
    op,        \* the request: kind, address, length, width of one access
    cursor,    \* src or dest
    left,      \* len
    dest,      \* bytes read so far
    fault,     \* dp->fault: "none", "wait", "noresponse"
    outcome,   \* of the request: "none", "ok", "error", "raised"
    port,      \* the debug port: the AP it selects, tar, size, sticky, buffer
    mem,       \* a byte is where it belongs and whether the request wrote it
    spoiled    \* transactions that failed

memVars == <<transport, mpc, op, cursor, left, dest, fault, outcome, port, mem, spoiled>>

Addresses == 0..(MemSize - 1)
Old(a) == [at |-> a, new |-> FALSE]
New(a) == [at |-> a, new |-> TRUE]
Unknown == [at |-> -1, new |-> FALSE]
NoData == [l \in 0..3 |-> Unknown]

Smaller(a, b) == IF a < b THEN a ELSE b
AlignOf(x) == IF x % 4 = 0 THEN 4 ELSE IF x % 2 = 0 THEN 2 ELSE 1

\* An access port that carries out nothing, on JTAG.
Discards == transport = "jtag" /\ port.sticky

\* Every state the port may have been left in by earlier requests.
MemInit ==
    /\ transport \in {"swd", "jtag"}
    /\ mpc = "start" /\ outcome = "none"
    /\ fault \in {"none", "wait"} \cup (IF transport = "swd" THEN {"noresponse"} ELSE {})
    /\ \E k \in {"read", "write"}, a \in Addresses, n \in 1..MemSize :
          /\ a + n <= MemSize
          /\ op = [kind |-> k, addr |-> a, len |-> n, width |-> Smaller(AlignOf(a), AlignOf(n))]
          /\ cursor = a
          /\ left = n \div Smaller(AlignOf(a), AlignOf(n))
    /\ dest = <<>>
    /\ \E t \in {0, MemSize - 4}, s \in {1, 4}, e, mine \in BOOLEAN :
          port = [mine |-> mine, tar |-> t, size |-> s, sticky |-> e, buffer |-> NoData]
    /\ mem = [a \in Addresses |-> Old(a)]
    /\ spoiled = IF (transport = "swd" /\ fault # "none") \/ Discards THEN 1 ELSE 0

---------------------------------------------------------------------------
(* The debug port, seen by a transaction it acknowledges.  On SWD the      *)
(* firmware answers a FAULT with ABORT and repeats the transaction, so     *)
(* that one always finds the sticky error cleared.                         *)

Bytes(a, n) == a..(a + n - 1)
Mapped(p) == Bytes(p.tar, p.size) \subseteq Addresses \ Holes
Advanced(p) == [p EXCEPT !.tar = (p.tar \div Page) * Page + ((p.tar + p.size) % Page)]

Ready == IF transport = "swd" THEN [port EXCEPT !.sticky = FALSE] ELSE port
\* What an access to an access port leaves: done, or nothing.
Carried(done) == IF Discards THEN [port EXCEPT !.buffer = NoData] ELSE done
Failed == [Ready EXCEPT !.sticky = TRUE, !.buffer = NoData]

\* The word that holds the bytes at TAR; its other lanes are unknown.
Fetched(p) ==
    [l \in 0..3 |-> LET a == p.tar - (p.tar % 4) + l
                    IN IF a \in Bytes(p.tar, p.size) THEN mem[a] ELSE Unknown]

ReadDrw ==
    port' = Carried(IF ~port.mine THEN [Ready EXCEPT !.buffer = NoData]
                    ELSE IF Mapped(Ready) THEN [Advanced(Ready) EXCEPT !.buffer = Fetched(Ready)]
                    ELSE Failed)

WriteDrw(value) ==
    IF Discards
    THEN UNCHANGED <<port, mem>>
    ELSE IF ~port.mine
    THEN /\ port' = Ready
         /\ mem' = [a \in Addresses |-> Unknown]    \* it goes to another access port
    ELSE IF Mapped(Ready)
    THEN /\ port' = Advanced(Ready)
         /\ mem' = [a \in Addresses |-> IF a \in Bytes(port.tar, port.size) THEN value[a % 4] ELSE mem[a]]
    ELSE port' = Failed /\ UNCHANGED mem

---------------------------------------------------------------------------
(* firmware_swdp_low_access and fw_adiv5_jtagdp_low_access.  On JTAG,      *)
(* dp->fault holds up no access, and there is no missing response.         *)

SkipsNever(ap) == FALSE   \* mutant: dp->fault does not hold up an access to the access port
Skips(ap) == transport = "swd" /\ ap /\ fault # "none"

Done(ap) == ~Skips(ap) /\ UNCHANGED <<fault, spoiled>>

\* WAIT or FAULT for the whole timeout, or no response: nothing was transferred.
Spoils(n, kind) ==
    /\ spoiled + n <= MaxSpoiled
    /\ spoiled' = spoiled + n
    /\ fault' = kind
    /\ UNCHANGED port

\* The caller gets 0 and goes on.
SwdNothing(ap) ==
    \/ Skips(ap) /\ UNCHANGED <<fault, spoiled, port>>
    \/ ~Skips(ap) /\ (Spoils(1, "wait") \/ Spoils(1, "noresponse"))
JtagNothing == Spoils(1, "wait")
Nothing(ap) ==
    \/ transport = "swd" /\ SwdNothing(ap)
    \/ transport = "jtag" /\ JtagNothing

\* An acknowledge that is none of those expected, or a parity error.
Raise ==
    /\ mpc \notin {"start", "check", "end"}
    /\ (fault = "none" \/ transport = "jtag") /\ spoiled < MaxSpoiled
    /\ spoiled' = spoiled + 1
    /\ mpc' = "end" /\ outcome' = "raised"
    /\ UNCHANGED <<transport, op, cursor, left, dest, fault, port, mem>>

---------------------------------------------------------------------------
(* ap_mem_access_setup.                                                    *)

\* adiv5_dp_recoverable_access: a transaction of the debug port itself, which
\* dp->fault does not hold up.  After no response, now or in an earlier request,
\* the errors are cleared and the transaction is made again.
Recoverable(done) ==
    \/ fault # "noresponse" /\ port' = done /\ UNCHANGED <<fault, spoiled>>
    \/ Spoils(1, "wait")
    \/ \E n \in {0, 1} :
          /\ transport = "swd"
          /\ n = 0 => fault = "noresponse"
          /\ \/ /\ spoiled + n <= MaxSpoiled
                /\ spoiled' = spoiled + n
                /\ fault' = "none" /\ port' = done
             \/ Spoils(n + 1, "wait") \/ Spoils(n + 1, "noresponse")

Select ==
    /\ mpc = "start"
    /\ mpc' = "csw"
    /\ Recoverable([Ready EXCEPT !.mine = TRUE])
    /\ UNCHANGED <<transport, op, cursor, left, dest, outcome, mem>>

Csw ==
    /\ mpc = "csw"
    /\ mpc' = "tar"
    /\ \/ Done(TRUE) /\ port' = Carried([Ready EXCEPT !.size = op.width])
       \/ Nothing(TRUE)
    /\ UNCHANGED <<transport, op, cursor, left, dest, outcome, mem>>

SetTar == \/ Done(TRUE) /\ port' = Carried([Ready EXCEPT !.tar = cursor])
          \/ Nothing(TRUE)

Tar ==
    /\ mpc \in {"tar", "retar"}
    /\ SetTar
    /\ mpc' = IF op.kind = "read" THEN "dummy" ELSE "write"
    /\ UNCHANGED <<transport, op, cursor, left, dest, outcome, mem>>

---------------------------------------------------------------------------
(* advi5_mem_read_bytes.                                                   *)

Crosses(c) == (c \div Page) # ((c - op.width) \div Page)

\* mutant: the byte lanes are not shifted down
UnpackFlat(value, a) == [i \in 1..op.width |-> value[i - 1]]

\* adiv5_unpack_data
Unpack(value, a) == [i \in 1..op.width |-> value[(a % 4) + i - 1]]

\* The read that starts the pipeline; its result is thrown away.
Dummy ==
    /\ mpc = "dummy"
    /\ mpc' = "loop"
    /\ (Done(TRUE) /\ ReadDrw) \/ Nothing(TRUE)
    /\ UNCHANGED <<transport, op, cursor, left, dest, outcome, mem>>

ReadLoop ==
    /\ mpc = "loop" /\ left > 1
    /\ left' = left - 1
    /\ \/ Done(TRUE) /\ ReadDrw /\ dest' = dest \o Unpack(port.buffer, cursor)
       \/ Nothing(TRUE) /\ dest' = dest \o Unpack(NoData, cursor)
    /\ cursor' = cursor + op.width
    /\ mpc' = IF Crosses(cursor') THEN "retar" ELSE "loop"
    /\ UNCHANGED <<transport, op, outcome, mem>>

\* The last result comes from RDBUFF, which dp->fault does not hold up.
ReadLast ==
    /\ mpc = "loop" /\ left = 1
    /\ left' = 0
    /\ \/ Done(FALSE) /\ port' = Ready /\ dest' = dest \o Unpack(port.buffer, cursor)
       \/ Nothing(FALSE) /\ dest' = dest \o Unpack(NoData, cursor)
    /\ mpc' = "check"
    /\ UNCHANGED <<transport, op, cursor, outcome, mem>>

---------------------------------------------------------------------------
(* adiv5_mem_write_bytes.                                                  *)

\* adiv5_pack_data
Pack(a) == [l \in 0..3 |-> IF l \in (a % 4)..((a % 4) + op.width - 1) THEN New(a - (a % 4) + l) ELSE Unknown]

WriteLoop ==
    /\ mpc = "write" /\ left > 0
    /\ left' = left - 1
    /\ \/ Done(TRUE) /\ WriteDrw(Pack(cursor))
       \/ Nothing(TRUE) /\ UNCHANGED mem
    /\ cursor' = cursor + op.width
    /\ mpc' = IF Crosses(cursor') THEN "retar" ELSE "write"
    /\ UNCHANGED <<transport, op, dest, outcome>>

\* The read of RDBUFF that waits for the last write.
WriteLast ==
    /\ mpc = "write" /\ left = 0
    /\ Recoverable(Ready)
    /\ mpc' = "check"
    /\ UNCHANGED <<transport, op, cursor, left, dest, outcome, mem>>

\* target_check_error.  firmware_swdp_error returns the sticky error.
\* adiv5_jtagdp_error clears it as well, but returns what the scan of that
\* write captures: the result of the read before it, of RDBUFF, which is zero.
CheckError(kind, result) ==
    /\ transport = kind /\ mpc = "check"
    /\ outcome' = result
    /\ fault' = "none"
    /\ port' = [port EXCEPT !.sticky = FALSE]
    /\ mpc' = "end"
    /\ UNCHANGED <<transport, op, cursor, left, dest, mem, spoiled>>
firmware_swdp_error == CheckError("swd", IF port.sticky THEN "error" ELSE "ok")
adiv5_jtagdp_error == CheckError("jtag", "ok")

MemEnd == mpc = "end" /\ UNCHANGED memVars

MemNext ==
    \/ Select \/ Csw \/ Tar \/ Dummy \/ ReadLoop \/ ReadLast
    \/ WriteLoop \/ WriteLast \/ firmware_swdp_error \/ adiv5_jtagdp_error \/ Raise \/ MemEnd

MemSpec == MemInit /\ [][MemNext]_memVars

---------------------------------------------------------------------------
MemTypeOK ==
    /\ mpc \in {"start", "csw", "tar", "retar", "dummy", "loop", "write", "check", "end"}
    /\ cursor \in op.addr..(op.addr + op.len) /\ left \in 0..op.len
    /\ Len(dest) <= op.len
    /\ fault \in {"none", "wait", "noresponse"}
    /\ outcome \in {"none", "ok", "error", "raised"}
    /\ transport \in {"swd", "jtag"} /\ port.tar \in 0..MemSize
    /\ spoiled \in 0..MaxSpoiled

Requested == Bytes(op.addr, op.len)

\* No byte goes to an address it is not meant for, nor to another access port,
\* whichever transactions of the setup and of the loop fail: a lost SELECT, CSW
\* or TAR keeps every later access to the access port from being made.  Over
\* JTAG nothing keeps them back after a WAIT, and it holds without one.
NoStrayWrite ==
    (transport = "jtag" => spoiled = 0) =>
        \A a \in Addresses : mem[a] \in {Old(a), New(a)} /\ (mem[a].new => a \in Requested)

\* Where the last read of a page looks, made before TAR is set again: TAR has
\* wrapped to the start of the page.
Wrapped == {a \in Addresses : \E c \in Requested : c # op.addr /\ c % Page = 0 /\ a \in Bytes(c - Page, op.width)}

\* Nothing failed and there is memory wherever the request looks.  Over SWD the
\* next transaction clears the error of a read that is thrown away.
Sound ==
    /\ spoiled = 0 /\ Requested \cap Holes = {}
    /\ transport = "jtag" /\ op.kind = "read" => Wrapped \cap Holes = {}

\* A request that meets neither a hole nor a failure reads or writes exactly
\* the bytes it names, whatever the alignment and the pages it crosses.
Exact ==
    mpc = "end" /\ Sound =>
        /\ outcome = "ok"
        /\ op.kind = "read" => dest = [i \in 1..op.len |-> Old(op.addr + i - 1)]
        /\ op.kind = "write" => \A a \in Requested : mem[a] = New(a)

\* A request that did not transfer its bytes is reported: target_check_error
\* "returns true for error, and false for ok" (samx5x.c:432).
ErrorsReported ==
    mpc = "end" /\ outcome = "ok" =>
        /\ op.kind = "read" => \A i \in 1..op.len : dest[i] # Unknown
        /\ op.kind = "write" => \A a \in Requested : mem[a].new

=============================================================================
