---------------------------- MODULE TargetFlash ----------------------------
(***************************************************************************)
(* Buffered flash programming of a target (src/target/target_flash.c) and  *)
(* the GDB requests that drive it (vFlashErase, vFlashWrite, vFlashDone    *)
(* and the monitor command erase_range).                                   *)
(*                                                                         *)
(* A target has a list of flash regions.  Writes are collected in one      *)
(* buffer per region and reach the device when the buffer is flushed.  One *)
(* TLA+ step is one iteration of a loop of the code.                       *)
(*                                                                         *)
(* A byte is a pair: <<k, a>> is the byte that the k-th write request       *)
(* carries for address a, so misplaced data is told from data in place.    *)
(***************************************************************************)
EXTENDS Integers, Sequences, FiniteSets

CONSTANTS
    Flash,       \* list of regions: [start, length, blocksize, writesize]
    Ceiling,     \* FLASH_WRITE_BUFFER_CEILING
    UINT32_MAX,  \* the "no address" value of the buffer bookkeeping
    Requests,    \* the ranges [addr, len] that requests may name
    Faults,      \* the driver calls that may fail
    MaxOps       \* bound on the number of requests

Regions == 1..Len(Flash)

\* The code masks with ~(size - 1): the same for the sizes of MaskAssumption.
AlignDown(addr, size) == addr - (addr % size)

\* The ranges of addresses lie below UINT32_MAX.
Addr == 0..(UINT32_MAX - 1)

Start(f) == Flash[f].start
End(f) == Flash[f].start + Flash[f].length
InFlash(f, addr) == Start(f) <= addr /\ addr < End(f)

\* target_add_flash: the automatically sized buffer.
WriteBufSize(f) ==
    LET ws == Flash[f].writesize IN
    IF ws <= Ceiling \div 2 THEN ws * (Ceiling \div ws) ELSE ws

ASSUME FlashAssumption ==
    /\ UINT32_MAX \in Nat \ {0}
    /\ Ceiling \in Nat \ {0}
    /\ Flash \in Seq([start : Addr, length : Nat, blocksize : Nat \ {0}, writesize : Nat \ {0}])
    /\ \A f \in 1..Len(Flash) : Flash[f].start + Flash[f].length <= UINT32_MAX
    /\ Requests \subseteq [addr : Addr, len : Nat]
    /\ Faults \subseteq {"enter", "prepare", "erase", "write", "done", "alloc"}
    /\ MaxOps \in Nat

\* As the drivers register them, from constants or from what the device reports;
\* bounded by 2^30.
ASSUME MaskAssumption ==
    \A f \in 1..Len(Flash) :
       {Flash[f].blocksize, Flash[f].writesize, WriteBufSize(f)} \subseteq {2^k : k \in 0..30}

Erased == <<0, 0>>      \* f->erased
Old == <<0, 1>>         \* what the device held before the session
Junk == <<0, 2>>        \* over-programmed cells, bytes read outside the buffer
Byte(k, addr) == <<k, addr>>

VARIABLES
    flash_mode,  \* t->flash_mode
    fs,          \* per region: ready, buf (allocated), base, low, high, bytes
    mem,         \* contents of the device
    call,        \* the request in progress, with the locals of the code
    reply,       \* the last answer: what was asked, and whether it was OK
    image,       \* what the accepted requests add up to
    failed,      \* a request of this flash session failed
    clobbered,   \* an erase discarded buffered data in this session
    ops          \* number of requests so far

vars == <<flash_mode, fs, mem, call, reply, image, failed, clobbered, ops>>

Idle == [pc |-> "idle", kind |-> "none", addr |-> 0, len |-> 0, id |-> 0,
         active |-> 0, i |-> 1, part |-> 0, ret |-> TRUE]

Init ==
    /\ flash_mode = FALSE
    /\ fs = [f \in Regions |->
               [ready |-> FALSE, buf |-> FALSE, base |-> 0, low |-> 0, high |-> 0,
                bytes |-> [o \in 0..(WriteBufSize(f) - 1) |-> Junk]]]
    /\ \E v \in {Old, Erased} : mem = [a \in Addr |-> v]   \* a used or a blank device
    /\ image = mem
    /\ call = Idle
    /\ reply = [kind |-> "none", ok |-> TRUE]
    /\ failed = FALSE
    /\ clobbered = FALSE
    /\ ops = 0

May(fault, ok) == ok \/ fault \in Faults

\* target_flash_for_addr: the first region of the list that holds addr, or 0.
target_flash_for_addr(addr) ==
    LET first == {f \in Regions : InFlash(f, addr) /\ \A g \in 1..(f - 1) : ~InFlash(g, addr)}
    IN  IF first = {} THEN 0 ELSE CHOOSE f \in first : TRUE

---------------------------------------------------------------------------
(* The state of one region: flush, done, alloc, copy.                      *)

Dirty(st) ==
    st.buf /\ st.base # UINT32_MAX /\ st.low # UINT32_MAX /\ st.low < st.high

Fetch(st, offset) == IF offset \in DOMAIN st.bytes THEN st.bytes[offset] ELSE Junk

\* Programming a cell of NOR flash: it must be erased first; writing the
\* erased value changes nothing.
Cell(old, new) ==
    IF new = Erased THEN old ELSE IF old = Erased THEN new ELSE Junk

GranulesShort(f, st) ==   \* mutant: length counted from the unaligned address
    LET ws == Flash[f].writesize
        first == AlignDown(st.low, ws)
    IN  {g \in first..(st.high - 2) : (g - first) % ws = 0}

\* The write units that a flush of st programs.
Granules(f, st) ==
    LET ws == Flash[f].writesize
        first == AlignDown(st.low, ws)
    IN  {g \in first..(st.high - 1) : (g - first) % ws = 0}

\* f->write for every unit but those in bad.
Program(f, st, m, bad) ==
    [a \in Addr |->
       IF \E g \in Granules(f, st) \ bad : g <= a /\ a < g + Flash[f].writesize
       THEN Cell(m[a], Fetch(st, a - st.base))
       ELSE m[a]]

EmptyBufferBaseOnly(st) == [st EXCEPT !.base = UINT32_MAX]   \* mutant: low and high survive

\* The bookkeeping of a buffer without data.
EmptyBuffer(st) == [st EXCEPT !.base = UINT32_MAX, !.low = UINT32_MAX, !.high = 0]

\* flash_buffered_flush, with flash_prepare inside.
Flush(f, st, m) ==
    IF ~Dirty(st) THEN {[st |-> st, mem |-> m, ok |-> TRUE]}
    ELSE {[st |-> st, mem |-> m, ok |-> FALSE] : x \in {"prepare"} \cap Faults \cap
              (IF st.ready THEN {} ELSE {"prepare"})}
         \cup
         {[st |-> EmptyBuffer([st EXCEPT !.ready = TRUE]),
           mem |-> Program(f, st, m, bad),
           ok |-> bad = {}] :
            bad \in {b \in SUBSET Granules(f, st) : b = {} \/ "write" \in Faults}}

\* flash_done: a prepared region gives up its buffer, whatever is in it.
Done(st) ==
    IF ~st.ready THEN {[st |-> st, ok |-> TRUE]}
    ELSE {[st |-> [st EXCEPT !.ready = FALSE, !.buf = FALSE], ok |-> b] :
            b \in {b \in BOOLEAN : May("done", b)}}

\* flash_buffer_alloc when the region has no buffer.
Alloc(st) ==
    IF st.buf THEN {[st |-> st, ok |-> TRUE]}
    ELSE {[st |-> EmptyBuffer([st EXCEPT !.buf = TRUE]), ok |-> TRUE]}
         \cup {[st |-> st, ok |-> FALSE] : x \in {"alloc"} \cap Faults}

MinOf(a, b) == IF a <= b THEN a ELSE b
MaxOf(a, b) == IF a >= b THEN a ELSE b

CopyInNoBlank(f, st, dest, len, id) ==   \* mutant: the buffer is not blanked for a new block
    LET wbs == WriteBufSize(f)
        offset == dest % wbs
        local_len == MinOf(wbs - offset, len)
    IN  [st EXCEPT
          !.base = AlignDown(dest, wbs),
          !.bytes = [o \in DOMAIN st.bytes |->
                       IF offset <= o /\ o < offset + local_len
                       THEN Byte(id, dest + (o - offset)) ELSE st.bytes[o]],
          !.low = MinOf(st.low, dest),
          !.high = MaxOf(st.high, dest + local_len)]

\* The part of flash_buffered_write's loop body after the flush.
CopyIn(f, st, dest, len, id) ==
    LET wbs == WriteBufSize(f)
        base_addr == AlignDown(dest, wbs)
        blank == IF base_addr # st.base THEN [o \in DOMAIN st.bytes |-> Erased] ELSE st.bytes
        offset == dest % wbs
        local_len == MinOf(wbs - offset, len)
    IN  [st EXCEPT
          !.base = base_addr,
          !.bytes = [o \in DOMAIN st.bytes |->
                       IF offset <= o /\ o < offset + local_len
                       THEN Byte(id, dest + (o - offset)) ELSE blank[o]],
          !.low = MinOf(st.low, dest),
          !.high = MaxOf(st.high, dest + local_len)]

---------------------------------------------------------------------------
(* Requests.                                                               *)

\* A new flash session starts with a clean record.
NewSession ==
    IF flash_mode
    THEN UNCHANGED <<image, failed>>
    ELSE image' = mem /\ failed' = FALSE

\* target_enter_flash_mode failed: vFlashErase and vFlashWrite go on to
\* target_flash_complete, which refuses outside flash mode.
EnterFails(kind) ==
    /\ "enter" \in Faults
    /\ ~flash_mode
    /\ ops < MaxOps
    /\ call.pc = "idle"
    /\ reply' = [kind |-> kind, ok |-> FALSE]
    /\ ops' = ops + 1
    /\ UNCHANGED <<flash_mode, fs, mem, call, image, failed, clobbered>>

\* vFlashErase and erase_range up to target_flash_erase's loop.
EraseRequest(kind, r) ==
    LET active == target_flash_for_addr(r.addr) IN
    /\ call.pc = "idle"
    /\ ops < MaxOps
    /\ ops' = ops + 1
    /\ flash_mode' = TRUE
    /\ NewSession
    /\ clobbered' = (flash_mode /\ clobbered)
    /\ call' = [Idle EXCEPT !.pc = IF active = 0 THEN "return" ELSE "erase",
                            !.kind = kind, !.addr = r.addr, !.len = r.len,
                            !.active = active, !.ret = active # 0]
    /\ UNCHANGED <<fs, mem, reply>>

\* vFlashWrite up to the loop that closes the other regions.
WriteRequest(r) ==
    /\ call.pc = "idle"
    /\ ops < MaxOps
    /\ ops' = ops + 1
    /\ flash_mode' = TRUE
    /\ NewSession
    /\ clobbered' = (flash_mode /\ clobbered)
    /\ call' = [Idle EXCEPT !.pc = "sweep", !.kind = "write", !.addr = r.addr,
                            !.len = r.len, !.id = ops + 1]
    /\ UNCHANGED <<fs, mem, reply>>

\* vFlashDone.
DoneRequest ==
    /\ call.pc = "idle"
    /\ ops < MaxOps
    /\ ops' = ops + 1
    /\ IF flash_mode
       THEN /\ call' = [Idle EXCEPT !.pc = "complete", !.kind = "done"]
            /\ UNCHANGED reply
       ELSE /\ reply' = [kind |-> "done", ok |-> FALSE]
            /\ UNCHANGED call
    /\ UNCHANGED <<flash_mode, fs, mem, image, failed, clobbered>>

---------------------------------------------------------------------------
(* target_flash_erase.                                                     *)

EraseBlock(m, first, size) ==
    [a \in Addr |-> IF first <= a /\ a < first + size THEN Erased ELSE m[a]]

\* On to the next block.
Advance(c, first, size) ==
    [c EXCEPT !.len = @ - MinOf(first + size - c.addr, @), !.addr = first + size]

\* One iteration: close the region just left, prepare, erase one block.
EraseStep ==
    /\ call.pc = "erase"
    /\ call.len > 0
    /\ LET f == target_flash_for_addr(call.addr)
           old == call.active
       IN
       IF f = 0
       THEN /\ call' = [call EXCEPT !.pc = "return", !.ret = FALSE]
            /\ UNCHANGED <<fs, mem, image, clobbered>>
       ELSE LET size == Flash[f].blocksize
                first == AlignDown(call.addr, size)
            IN
            \E d \in IF f # old THEN Done(fs[old]) ELSE {[st |-> fs[old], ok |-> TRUE]} :
               /\ clobbered' = (clobbered \/ (f # old /\ fs[old].ready /\ Dirty(fs[old])))
               /\ \/ /\ ~fs[f].ready
                     /\ "prepare" \in Faults
                     /\ fs' = [fs EXCEPT ![old] = d.st]
                     /\ call' = [call EXCEPT !.pc = "return", !.ret = FALSE]
                     /\ UNCHANGED <<mem, image>>
                  \/ \E ok \in {b \in BOOLEAN : May("erase", b)} :
                     /\ fs' = [fs EXCEPT ![old] = d.st, ![f] =
                                 [(IF f = old THEN d.st ELSE fs[f]) EXCEPT !.ready = TRUE]]
                     /\ mem' = IF ok THEN EraseBlock(mem, first, size) ELSE mem
                     /\ image' = IF ok THEN EraseBlock(image, first, size) ELSE image
                     /\ call' = IF call.ret /\ d.ok /\ ok
                                THEN Advance([call EXCEPT !.active = f], first, size)
                                ELSE [call EXCEPT !.pc = "erased", !.active = f, !.ret = FALSE]
    /\ UNCHANGED <<flash_mode, reply, failed, ops>>

\* The flash_done after the loop.
EraseFinish ==
    /\ \/ call.pc = "erase" /\ call.len = 0
       \/ call.pc = "erased"
    /\ \E d \in Done(fs[call.active]) :
          /\ fs' = [fs EXCEPT ![call.active] = d.st]
          /\ call' = [call EXCEPT !.pc = "return", !.ret = call.ret /\ d.ok]
    /\ clobbered' = (clobbered \/ (fs[call.active].ready /\ Dirty(fs[call.active])))
    /\ UNCHANGED <<flash_mode, mem, reply, image, failed, ops>>

---------------------------------------------------------------------------
(* target_flash_write.                                                     *)

\* The first loop: every region that does not hold dest is flushed and closed.
SweepStep ==
    /\ call.pc = "sweep"
    /\ call.i <= Len(Flash)
    /\ LET f == call.i IN
       IF InFlash(f, call.addr)
       THEN /\ call' = [call EXCEPT !.active = f, !.i = f + 1]
            /\ UNCHANGED <<fs, mem>>
       ELSE IF ~fs[f].buf
       THEN /\ call' = [call EXCEPT !.i = f + 1]
            /\ UNCHANGED <<fs, mem>>
       ELSE \E u \in Flush(f, fs[f], mem) : \E d \in Done(u.st) :
            /\ fs' = [fs EXCEPT ![f] = d.st]
            /\ mem' = u.mem
            /\ call' = [call EXCEPT !.i = f + 1, !.ret = call.ret /\ u.ok /\ d.ok]
    /\ UNCHANGED <<flash_mode, reply, image, failed, clobbered, ops>>

SweepFinish ==
    /\ call.pc = "sweep"
    /\ call.i > Len(Flash)
    /\ call' = IF call.active = 0 \/ ~call.ret
               THEN [call EXCEPT !.pc = "return", !.ret = FALSE]
               ELSE [call EXCEPT !.pc = "write"]
    /\ UNCHANGED <<flash_mode, fs, mem, reply, image, failed, clobbered, ops>>

\* The second loop, up to flash_buffered_write: close the region just left
\* and make sure that the region of dest has a buffer.
WriteStep ==
    /\ call.pc = "write"
    /\ call.len > 0
    /\ LET f == target_flash_for_addr(call.addr)
           old == call.active
       IN
       IF f = 0
       THEN /\ call' = [call EXCEPT !.pc = "return", !.ret = FALSE]
            /\ UNCHANGED <<fs, mem>>
       ELSE \E u \in IF f # old THEN Flush(old, fs[old], mem)
                     ELSE {[st |-> fs[old], mem |-> mem, ok |-> TRUE]} :
            \E d \in IF f # old THEN Done(u.st) ELSE {[st |-> u.st, ok |-> TRUE]} :
            \E n \in Alloc(IF f = old THEN d.st ELSE fs[f]) :
               /\ fs' = [fs EXCEPT ![old] = d.st, ![f] = n.st]
               /\ mem' = u.mem
               /\ call' = IF call.ret /\ u.ok /\ d.ok /\ n.ok
                          THEN [call EXCEPT !.pc = "chunk", !.active = f,
                                  !.part = MinOf(call.addr + call.len, End(f)) - call.addr]
                          ELSE [call EXCEPT !.pc = "return", !.ret = FALSE]
    /\ UNCHANGED <<flash_mode, reply, image, failed, clobbered, ops>>

WriteFinish ==
    /\ call.pc = "write"
    /\ call.len = 0
    /\ call' = [call EXCEPT !.pc = "return"]
    /\ UNCHANGED <<flash_mode, fs, mem, reply, image, failed, clobbered, ops>>

\* One iteration of flash_buffered_write: a change of the block flushes the
\* buffer, then the chunk is copied in, even when the flush failed.
ChunkStep ==
    /\ call.pc = "chunk"
    /\ LET f == call.active
           wbs == WriteBufSize(f)
           n == MinOf(wbs - (call.addr % wbs), call.part)
       IN
       \E u \in IF AlignDown(call.addr, wbs) # fs[f].base THEN Flush(f, fs[f], mem)
                ELSE {[st |-> fs[f], mem |-> mem, ok |-> TRUE]} :
          /\ fs' = [fs EXCEPT ![f] = CopyIn(f, u.st, call.addr, call.part, call.id)]
          /\ mem' = u.mem
          /\ image' = [a \in Addr |->
                         IF call.addr <= a /\ a < call.addr + n
                         THEN Cell(image[a], Byte(call.id, a)) ELSE image[a]]
          /\ LET ret == call.ret /\ u.ok IN
             call' = [call EXCEPT
                        !.addr = @ + n, !.len = @ - n, !.part = @ - n, !.ret = ret,
                        !.pc = IF call.part > n THEN "chunk"
                               ELSE IF ret THEN "write" ELSE "return"]
    /\ UNCHANGED <<flash_mode, reply, failed, clobbered, ops>>

---------------------------------------------------------------------------
(* The answer, and target_flash_complete.                                  *)

\* A failed vFlashErase or vFlashWrite completes the session before "EFF".
Return ==
    /\ call.pc = "return"
    /\ failed' = (failed \/ ~call.ret)
    /\ IF call.ret \/ call.kind = "erase_range"
       THEN /\ reply' = [kind |-> call.kind, ok |-> call.ret]
            /\ call' = Idle
       ELSE /\ call' = [Idle EXCEPT !.pc = "complete", !.kind = call.kind, !.ret = FALSE]
            /\ UNCHANGED reply
    /\ UNCHANGED <<flash_mode, fs, mem, image, clobbered, ops>>

CompleteStep ==
    /\ call.pc = "complete"
    /\ call.i <= Len(Flash)
    /\ LET f == call.i IN
       \E u \in Flush(f, fs[f], mem) : \E d \in Done(u.st) :
          /\ fs' = [fs EXCEPT ![f] = d.st]
          /\ mem' = u.mem
          /\ call' = [call EXCEPT !.i = f + 1, !.ret = call.ret /\ u.ok /\ d.ok]
    /\ UNCHANGED <<flash_mode, reply, image, failed, clobbered, ops>>

\* target_exit_flash_mode; its result is not used.
CompleteFinish ==
    /\ call.pc = "complete"
    /\ call.i > Len(Flash)
    /\ flash_mode' = FALSE
    /\ reply' = [kind |-> call.kind, ok |-> call.ret]
    /\ call' = Idle
    /\ UNCHANGED <<fs, mem, image, failed, clobbered, ops>>

---------------------------------------------------------------------------
Request ==
    \/ \E kind \in {"erase", "erase_range", "write"} : EnterFails(kind)
    \/ \E kind \in {"erase", "erase_range"}, r \in Requests : EraseRequest(kind, r)
    \/ \E r \in Requests : WriteRequest(r)
    \/ DoneRequest

Step ==
    \/ EraseStep \/ EraseFinish
    \/ SweepStep \/ SweepFinish \/ WriteStep \/ WriteFinish \/ ChunkStep
    \/ Return
    \/ CompleteStep \/ CompleteFinish

Next == Request \/ Step

Spec == Init /\ [][Next]_vars

---------------------------------------------------------------------------
Bytes == {Erased, Old, Junk} \cup {Byte(k, a) : k \in 1..MaxOps, a \in Addr}

Addr32 == 0..UINT32_MAX

RegionState(f) ==
    [ready : BOOLEAN, buf : BOOLEAN, base : Addr32, low : Addr32, high : Addr32,
     bytes : [0..(WriteBufSize(f) - 1) -> Bytes]]

CallState ==
    [pc : {"idle", "erase", "erased", "sweep", "write", "chunk", "return", "complete"},
     kind : {"none", "erase", "erase_range", "write", "done"},
     addr : Nat, len : Nat, id : Nat, active : Nat, i : Nat, part : Nat, ret : BOOLEAN]

\* Type invariant of the flash bookkeeping and of the locals of a request.
TypeOK ==
    /\ flash_mode \in BOOLEAN
    /\ fs = [f \in Regions |-> fs[f]]
    /\ \A f \in Regions : fs[f] \in RegionState(f)
    /\ mem \in [Addr -> Bytes]
    /\ image \in [Addr -> Bytes]
    /\ call \in CallState
    /\ ops \in 0..MaxOps

\* A buffer with data to write holds exactly the bytes of one block: what
\* buf_addr_low and buf_addr_high delimit lies inside the block that
\* buf_addr_base names, so a flush (target_flash.c:187-193) reads the buffer
\* inside its bounds.
BufferWindow ==
    \A f \in Regions :
        Dirty(fs[f]) =>
            /\ fs[f].base <= fs[f].low
            /\ fs[f].high <= fs[f].base + WriteBufSize(f)

\* Whatever fails, a cell of the device holds the byte that some request
\* carried for that very address, or what it held before; a cell is ruined
\* only when the requests themselves programmed it twice without an erase.
NoStrayData ==
    \A a \in Addr :
        /\ mem[a] = Junk => image[a] = Junk \/ failed
        /\ mem[a][1] > 0 => mem[a][2] = a

\* vFlashDone answered OK and every request of the session was answered OK:
\* the device holds what the requests asked for.  (An erase of a region that
\* still has data in its buffer is excluded: see CommitDespiteErase.)
DoneCommits ==
    (reply = [kind |-> "done", ok |-> TRUE] /\ call.pc = "idle" /\ ~flash_mode
       /\ ~failed /\ ~clobbered)
      => \A a \in Addr : image[a] \in {Junk, mem[a]}

\* As DoneCommits, without the exclusion: "Commit flash operations."
CommitDespiteErase ==
    (reply = [kind |-> "done", ok |-> TRUE] /\ call.pc = "idle" /\ ~flash_mode /\ ~failed)
      => \A a \in Addr : image[a] \in {Junk, mem[a]}

\* Outside flash mode no region is prepared and no buffer holds data that a
\* later session would program.
SessionClean ==
    (~flash_mode) => \A f \in Regions : ~fs[f].ready /\ ~Dirty(fs[f])

\* How target_flash_complete ends a session: what was answered OK is in the
\* device, and nothing is left for the next one.
SessionEnds == DoneCommits /\ SessionClean

\* Every request is answered.
RequestsEnd == (call.pc # "idle") ~> (call.pc = "idle")

=============================================================================
