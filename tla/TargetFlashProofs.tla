------------------------- MODULE TargetFlashProofs -------------------------
(***************************************************************************)
(* Proofs about the buffered flash programming of target_flash.c, for      *)
(* every list of regions, every buffer ceiling and every set of requests.  *)
(***************************************************************************)
EXTENDS TargetFlash, TLAPS

\* A buffer that is for no block yet.
Empty(st) == st.base = UINT32_MAX /\ st.low = UINT32_MAX /\ st.high = 0

\* A buffer either is for no block or its dirty range lies inside its block.
Window(f, st) ==
    st.buf =>
      \/ Empty(st)
      \/ /\ st.base <= st.low
         /\ st.low < st.high
         /\ st.high <= st.base + WriteBufSize(f)
         /\ st.high <= UINT32_MAX

\* Where the locals of a request point.
CallInv ==
    /\ call.pc \in {"erase", "erased", "write", "chunk"} => call.active \in Regions
    /\ call.pc = "sweep" => call.active \in {0} \cup Regions
    /\ call.pc \in {"sweep", "complete"} => call.i > 0
    /\ call.pc \in {"sweep", "write", "chunk"} => call.id \in 1..MaxOps
    /\ call.pc = "chunk" =>
          call.part > 0 /\ call.part <= call.len /\ call.addr + call.part <= End(call.active)

FsInv(v) ==
    /\ v = [f \in Regions |-> v[f]]
    /\ \A f \in Regions : v[f] \in RegionState(f) /\ Window(f, v[f])

DataInv == flash_mode \in BOOLEAN /\ image \in [Addr -> Bytes] /\ mem \in [Addr -> Bytes]

\* The inductive invariant: types, call and the windows of all buffers.
IInv == FsInv(fs) /\ DataInv /\ call \in CallState /\ CallInv /\ ops \in 0..MaxOps

---------------------------------------------------------------------------
(* Arithmetic.                                                             *)

\* Rounding down with the mask of the code stays within one unit.
LEMMA AlignDownBounds ==
  ASSUME NEW a \in Nat, NEW n \in Nat \ {0}
  PROVE  /\ a % n \in 0..(n - 1)
         /\ AlignDown(a, n) \in Nat
         /\ AlignDown(a, n) <= a
         /\ a < AlignDown(a, n) + n
         /\ AlignDown(a, n) = a - (a % n)
BY DEF AlignDown

\* The fields of a region.
LEMMA RegionFields ==
  ASSUME NEW f \in Regions
  PROVE  /\ Flash[f].start \in Addr
         /\ Flash[f].length \in Nat
         /\ Flash[f].blocksize \in Nat \ {0}
         /\ Flash[f].writesize \in Nat \ {0}
         /\ End(f) \in 0..UINT32_MAX
         /\ UINT32_MAX \in Nat \ {0}
         /\ Ceiling \in Nat \ {0}
<1> DEFINE R == [start : Addr, length : Nat, blocksize : Nat \ {0}, writesize : Nat \ {0}]
<1>1. Flash \in Seq(R) /\ f \in 1..Len(Flash)
  BY FlashAssumption DEF FlashAssumption, Regions
<1>2. Flash[f] \in R
  <2> HIDE DEF R
  <2> QED BY <1>1
<1>3. Flash[f].start + Flash[f].length <= UINT32_MAX /\ UINT32_MAX \in Nat \ {0} /\ Ceiling \in Nat \ {0}
  BY <1>1, FlashAssumption, SMTT(60) DEF FlashAssumption
<1> QED BY <1>2, <1>3 DEF End, Addr

\* The sentinels are addresses, and the special bytes are bytes.
LEMMA Sentinels ==
  /\ UINT32_MAX \in Addr32 /\ 0 \in Addr32 /\ UINT32_MAX \in Nat \ {0}
  /\ Erased \in Bytes /\ Junk \in Bytes /\ Old \in Bytes
BY FlashAssumption DEF FlashAssumption, Addr32, Bytes

\* The automatically sized buffer is never empty.
LEMMA WriteBufSizePositive ==
  ASSUME NEW f \in Regions
  PROVE  WriteBufSize(f) \in Nat \ {0}
<1> DEFINE ws == Flash[f].writesize
           q == Ceiling \div ws
<1>1. ws \in Nat \ {0} /\ Ceiling \in Nat \ {0}
  BY RegionFields
<1>2. CASE ws <= Ceiling \div 2
  <2>1. ws <= Ceiling
    BY <1>1, <1>2
  <2>2. q \in Nat /\ q >= 1
    BY <1>1, <2>1
  <2>3. ws * q \in Nat \ {0}
    BY <1>1, <2>2
  <2> QED BY <2>3, <1>2 DEF WriteBufSize
<1>3. CASE ~(ws <= Ceiling \div 2)
  BY <1>1, <1>3 DEF WriteBufSize
<1> QED BY <1>2, <1>3

---------------------------------------------------------------------------
(* The operations on the state of one region.                              *)

\* Programming keeps cells within the byte values.
LEMMA ProgramType ==
  ASSUME NEW f \in Regions, NEW st \in RegionState(f), NEW m \in [Addr -> Bytes], NEW bad
  PROVE  Program(f, st, m, bad) \in [Addr -> Bytes]
<1>1. ASSUME NEW a \in Addr PROVE Fetch(st, a - st.base) \in Bytes
  BY Sentinels, Zenon DEF Fetch, RegionState
<1>2. ASSUME NEW a \in Addr PROVE Cell(m[a], Fetch(st, a - st.base)) \in Bytes
  BY <1>1, Sentinels DEF Cell
<1> QED BY <1>2 DEF Program

\* flash_buffered_flush keeps the window; unless preparing can fail, it
\* leaves the buffer without a block.
LEMMA FlushFacts ==
  ASSUME NEW f \in Regions, NEW st \in RegionState(f), NEW m \in [Addr -> Bytes],
         Window(f, st), NEW u \in Flush(f, st, m)
  PROVE  /\ u.st \in RegionState(f)
         /\ u.mem \in [Addr -> Bytes]
         /\ u.ok \in BOOLEAN
         /\ Window(f, u.st)
         /\ "prepare" \notin Faults /\ u.st.buf => Empty(u.st)
<1> DEFINE em == EmptyBuffer([st EXCEPT !.ready = TRUE])
<1>1. em \in RegionState(f) /\ Empty(em)
  BY Sentinels, Zenon DEF EmptyBuffer, RegionState, Empty
<1>2. CASE ~Dirty(st)
  <2>1. u = [st |-> st, mem |-> m, ok |-> TRUE]
    BY <1>2 DEF Flush
  <2>2. st.buf => Empty(st)
    BY <1>2, Sentinels DEF Dirty, Window, Empty, RegionState, Addr32
  <2> QED BY <2>1, <2>2
<1>3. CASE Dirty(st)
  <2>1. CASE u = [st |-> st, mem |-> m, ok |-> FALSE] /\ "prepare" \in Faults
    BY <2>1
  <2>2. CASE \E bad \in SUBSET Granules(f, st) :
               u = [st |-> em, mem |-> Program(f, st, m, bad), ok |-> bad = {}]
    <3>1. PICK bad \in SUBSET Granules(f, st) :
               u = [st |-> em, mem |-> Program(f, st, m, bad), ok |-> bad = {}]
      BY <2>2
    <3>2. Program(f, st, m, bad) \in [Addr -> Bytes]
      BY ProgramType
    <3> HIDE DEF em
    <3> QED BY <3>1, <3>2, <1>1 DEF Window
  <2> QED BY <1>3, <2>1, <2>2, Zenon DEF Flush
<1> QED BY <1>2, <1>3

\* flash_done keeps the window: a freed buffer has none.
LEMMA DoneFacts ==
  ASSUME NEW f \in Regions, NEW st \in RegionState(f), Window(f, st), NEW d \in Done(st)
  PROVE  d.st \in RegionState(f) /\ d.ok \in BOOLEAN /\ Window(f, d.st)
<1>1. CASE ~st.ready
  <2>1. d = [st |-> st, ok |-> TRUE]
    BY <1>1 DEF Done
  <2> QED BY <2>1
<1>2. CASE st.ready
  <2> DEFINE new == [st EXCEPT !.ready = FALSE, !.buf = FALSE]
  <2>1. new \in RegionState(f) /\ ~new.buf
    BY Zenon DEF RegionState
  <2>2. PICK b \in BOOLEAN : d = [st |-> new, ok |-> b]
    BY <1>2 DEF Done
  <2> HIDE DEF new
  <2> QED BY <2>1, <2>2 DEF Window
<1> QED BY <1>1, <1>2

\* flash_buffer_alloc starts with a buffer for no block.
LEMMA AllocFacts ==
  ASSUME NEW f \in Regions, NEW st \in RegionState(f), Window(f, st), NEW n \in Alloc(st)
  PROVE  n.st \in RegionState(f) /\ n.ok \in BOOLEAN /\ Window(f, n.st)
<1>1. CASE st.buf
  <2>1. n = [st |-> st, ok |-> TRUE]
    BY <1>1 DEF Alloc
  <2> QED BY <2>1
<1>2. CASE ~st.buf
  <2> DEFINE em == EmptyBuffer([st EXCEPT !.buf = TRUE])
  <2>1. em \in RegionState(f) /\ Empty(em)
    BY Sentinels, Zenon DEF EmptyBuffer, RegionState, Empty
  <2>2. n \in {[st |-> em, ok |-> TRUE], [st |-> st, ok |-> FALSE]}
    BY <1>2 DEF Alloc
  <2> HIDE DEF em
  <2>3. CASE n = [st |-> em, ok |-> TRUE]
    BY <2>1, <2>3 DEF Window
  <2>4. CASE n = [st |-> st, ok |-> FALSE]
    BY <2>4
  <2> QED BY <2>2, <2>3, <2>4
<1> QED BY <1>1, <1>2

\* Copying a chunk into the buffer of its block keeps the window.
LEMMA CopyInFacts ==
  ASSUME NEW f \in Regions, NEW st \in RegionState(f), Window(f, st),
         NEW dest \in Nat, NEW len \in Nat \ {0}, dest + len <= End(f),
         NEW id \in 1..MaxOps,
         AlignDown(dest, WriteBufSize(f)) # st.base /\ st.buf => Empty(st)
  PROVE  CopyIn(f, st, dest, len, id) \in RegionState(f)
         /\ Window(f, CopyIn(f, st, dest, len, id))
<1> DEFINE wbs == WriteBufSize(f)
           base == AlignDown(dest, wbs)
           offset == dest % wbs
           n == MinOf(wbs - offset, len)
           blank == IF base # st.base THEN [o \in DOMAIN st.bytes |-> Erased] ELSE st.bytes
           bytes == [o \in DOMAIN st.bytes |->
                       IF offset <= o /\ o < offset + n
                       THEN Byte(id, dest + (o - offset)) ELSE blank[o]]
           low == MinOf(st.low, dest)
           high == MaxOf(st.high, dest + n)
           new == [st EXCEPT !.base = base, !.bytes = bytes, !.low = low, !.high = high]
<1>1. CopyIn(f, st, dest, len, id) = new
  BY DEF CopyIn
<1>2. wbs \in Nat \ {0} /\ UINT32_MAX \in Nat \ {0} /\ End(f) \in 0..UINT32_MAX
  BY WriteBufSizePositive, RegionFields
<1>3. /\ offset \in 0..(wbs - 1) /\ base \in Nat /\ base <= dest /\ dest < base + wbs
      /\ base = dest - offset
  BY <1>2, AlignDownBounds, Zenon
<1>4. n \in Nat /\ n >= 1 /\ n <= wbs - offset /\ n <= len
  <2> HIDE DEF offset, wbs
  <2> QED BY <1>2, <1>3 DEF MinOf
<1>5. st.low \in Addr32 /\ st.high \in Addr32 /\ st.base \in Addr32
      /\ st.bytes \in [0..(wbs - 1) -> Bytes] /\ st.buf \in BOOLEAN
  BY DEF RegionState
<1>6. /\ low \in Addr32 /\ high \in Addr32 /\ base \in Addr32
      /\ dest + n <= UINT32_MAX
  <2> HIDE DEF n, base, wbs, offset
  <2>1. dest + n <= UINT32_MAX
    BY <1>2, <1>4
  <2>2. base \in Addr32 /\ dest \in Addr32 /\ dest + n \in Addr32
    BY <1>2, <1>3, <1>4, <2>1 DEF Addr32
  <2> QED BY <2>1, <2>2, <1>5 DEF MinOf, MaxOf
<1>7. bytes \in [0..(wbs - 1) -> Bytes]
  <2>1. ASSUME NEW o \in 0..(wbs - 1), offset <= o, o < offset + n
        PROVE  Byte(id, dest + (o - offset)) \in Bytes
    <3> HIDE DEF offset, n, wbs
    <3>1. dest + (o - offset) \in Addr
      BY <2>1, <1>2, <1>3, <1>4, <1>6 DEF Addr
    <3> QED BY <3>1 DEF Bytes
  <2>2. blank \in [0..(wbs - 1) -> Bytes]
    BY <1>5 DEF Bytes
  <2> HIDE DEF offset, n, wbs, blank
  <2> QED BY <2>1, <2>2, <1>5
<1>8. new \in RegionState(f)
  <2> HIDE DEF bytes, low, high, base
  <2> QED BY <1>6, <1>7, Zenon DEF RegionState
<1>9. new.buf = st.buf /\ new.base = base /\ new.low = low /\ new.high = high
  <2> HIDE DEF bytes, low, high, base
  <2> QED BY DEF RegionState
<1>10. ASSUME st.buf
       PROVE  base <= low /\ low < high /\ high <= base + wbs /\ high <= UINT32_MAX
  <2>1. CASE Empty(st)
    <3> HIDE DEF n, base, offset, wbs
    <3> QED BY <2>1, <1>2, <1>3, <1>4, <1>6 DEF Empty, MinOf, MaxOf
  <2>2. CASE ~Empty(st)
    <3>1. base = st.base /\ base <= st.low /\ st.low < st.high /\ st.high <= base + wbs
      BY <2>2, <1>10 DEF Window
    <3> HIDE DEF n, base, offset, wbs
    <3> QED BY <3>1, <1>2, <1>3, <1>4, <1>5, <1>6, SMTT(60) DEF MinOf, MaxOf, Addr32
  <2> QED BY <2>1, <2>2
<1> HIDE DEF new, base, low, high
<1> QED BY <1>1, <1>8, <1>9, <1>10 DEF Window

---------------------------------------------------------------------------
(* The invariant.                                                          *)

\* Replacing the state of one region.
LEMMA FsUpdate ==
  ASSUME NEW v, FsInv(v), NEW f \in Regions, NEW x \in RegionState(f), Window(f, x)
  PROVE  FsInv([v EXCEPT ![f] = x])
BY DEF FsInv

\* target_flash_for_addr answers a region that holds the address, or none.
LEMMA ForAddr ==
  ASSUME NEW addr
  PROVE  /\ target_flash_for_addr(addr) \in Nat
         /\ target_flash_for_addr(addr) # 0 =>
              /\ target_flash_for_addr(addr) \in Regions
              /\ InFlash(target_flash_for_addr(addr), addr)
<1> DEFINE first == {f \in Regions : InFlash(f, addr) /\ \A g \in 1..(f - 1) : ~InFlash(g, addr)}
<1>1. Len(Flash) \in Nat
  BY FlashAssumption DEF FlashAssumption
<1>2. CASE first = {}
  BY <1>1, <1>2 DEF target_flash_for_addr
<1>3. CASE first # {}
  <2>1. target_flash_for_addr(addr) \in first
    BY <1>3 DEF target_flash_for_addr
  <2> QED BY <2>1, <1>1 DEF Regions
<1> QED BY <1>2, <1>3

\* The initial state.
LEMMA InitIInv == Init => IInv
<1> SUFFICES ASSUME Init PROVE IInv
  OBVIOUS
<1>1. Len(Flash) \in Nat /\ MaxOps \in Nat
  BY FlashAssumption DEF FlashAssumption
<1>2. FsInv(fs)
  <2>1. ASSUME NEW f \in Regions
        PROVE  fs[f] \in RegionState(f) /\ Window(f, fs[f])
    BY Sentinels DEF Init, RegionState, Window
  <2> QED BY <2>1 DEF FsInv, Init
<1>3. DataInv
  BY Sentinels, Zenon DEF Init, DataInv
<1>4. call \in CallState /\ CallInv /\ ops \in 0..MaxOps
  BY <1>1 DEF Init, Idle, CallState, CallInv
<1> QED BY <1>2, <1>3, <1>4 DEF IInv

\* The requests.
LEMMA RequestIInv == IInv /\ Request => IInv'
<1> SUFFICES ASSUME IInv, Request PROVE IInv'
  OBVIOUS
<1>1. Len(Flash) \in Nat /\ MaxOps \in Nat /\ Requests \subseteq [addr : Addr, len : Nat]
  BY FlashAssumption DEF FlashAssumption
<1>2. ASSUME NEW kind \in {"erase", "erase_range", "write"}, EnterFails(kind) PROVE IInv'
  <2>1. fs' = fs /\ UNCHANGED <<flash_mode, image, mem, call>> /\ ops' \in 0..MaxOps
    BY <1>1, <1>2 DEF EnterFails, IInv
  <2> QED BY <2>1 DEF IInv, DataInv, CallInv
<1>3. ASSUME NEW kind \in {"erase", "erase_range"}, NEW r \in Requests, EraseRequest(kind, r)
      PROVE  IInv'
  <2>1. PICK active : active = target_flash_for_addr(r.addr)
    OBVIOUS
  <2>2. fs' = fs /\ ops' \in 0..MaxOps /\ DataInv'
    BY <1>1, <1>3 DEF EraseRequest, IInv, DataInv, NewSession
  <2>3. r.addr \in Nat /\ r.len \in Nat
    BY <1>1 DEF Addr
  <2>4. PICK pc : pc = IF active = 0 THEN "return" ELSE "erase"
    OBVIOUS
  <2>5. active \in Nat /\ (pc = "return" \/ (pc = "erase" /\ active \in Regions))
    BY <2>1, <2>4, ForAddr
  <2>a. call' = [pc |-> pc, kind |-> kind, addr |-> r.addr, len |-> r.len, id |-> 0,
                 active |-> active, i |-> 1, part |-> 0, ret |-> (active # 0)]
    BY <1>3, <2>1, <2>4, Zenon DEF EraseRequest, Idle
  <2>6. call' \in CallState
    BY <2>3, <2>5, <2>a DEF CallState
  <2>7. CallInv'
    BY <2>a, <2>5 DEF CallInv
  <2> QED BY <2>2, <2>6, <2>7 DEF IInv
<1>4. ASSUME NEW r \in Requests, WriteRequest(r) PROVE IInv'
  <2>1. fs' = fs /\ ops' \in 0..MaxOps /\ DataInv' /\ ops + 1 \in 1..MaxOps
    BY <1>1, <1>4 DEF WriteRequest, IInv, DataInv, NewSession
  <2>2. r.addr \in Nat /\ r.len \in Nat
    BY <1>1 DEF Addr
  <2>3. call' = [pc |-> "sweep", kind |-> "write", addr |-> r.addr, len |-> r.len,
                 id |-> ops + 1, active |-> 0, i |-> 1, part |-> 0, ret |-> TRUE]
    BY <1>4, Zenon DEF WriteRequest, Idle
  <2>4. call' \in CallState /\ CallInv'
    BY <2>1, <2>2, <2>3 DEF CallState, CallInv
  <2> QED BY <2>1, <2>4 DEF IInv
<1>5. CASE DoneRequest
  <2>1. fs' = fs /\ ops' \in 0..MaxOps /\ DataInv'
    BY <1>1, <1>5 DEF DoneRequest, IInv, DataInv
  <2>2. CASE ~flash_mode
    <3>1. call' = call
      BY <1>5, <2>2 DEF DoneRequest
    <3> QED BY <3>1, <2>1 DEF IInv, CallInv
  <2>3. CASE flash_mode
    <3>1. call' = [pc |-> "complete", kind |-> "done", addr |-> 0, len |-> 0, id |-> 0,
                   active |-> 0, i |-> 1, part |-> 0, ret |-> TRUE]
      BY <1>5, <2>3, ZenonT(30) DEF DoneRequest, Idle
    <3>2. call' \in CallState /\ CallInv'
      BY <3>1 DEF CallState, CallInv
    <3> QED BY <3>2, <2>1 DEF IInv
  <2> QED BY <2>2, <2>3
<1> QED BY <1>2, <1>3, <1>4, <1>5 DEF Request

\* flash_prepare sets one flag of a region.
LEMMA ReadyFacts ==
  ASSUME NEW f \in Regions, NEW st \in RegionState(f), Window(f, st)
  PROVE  [st EXCEPT !.ready = TRUE] \in RegionState(f) /\ Window(f, [st EXCEPT !.ready = TRUE])
BY Zenon DEF RegionState, Window, Empty

\* Erasing leaves the device with bytes.
LEMMA EraseBlockType ==
  ASSUME NEW m \in [Addr -> Bytes], NEW first, NEW size
  PROVE  EraseBlock(m, first, size) \in [Addr -> Bytes]
BY Sentinels DEF EraseBlock

\* target_flash_erase.
LEMMA EraseIInv == IInv /\ (EraseStep \/ EraseFinish) => IInv'
<1> SUFFICES ASSUME IInv, EraseStep \/ EraseFinish PROVE IInv'
  OBVIOUS
<1>1. CASE EraseStep
  <2>1. PICK f : f = target_flash_for_addr(call.addr)
    OBVIOUS
  <2>2. PICK old : old = call.active
    OBVIOUS
  <2>3. old \in Regions /\ old \in Nat /\ call \in CallState /\ call.pc = "erase"
    BY <1>1, <2>2, Zenon DEF EraseStep, IInv, CallInv, CallState
  <2>4. f \in Nat /\ (f # 0 => f \in Regions)
    BY <2>1, ForAddr, SMTT(30)
  <2>5. UNCHANGED <<flash_mode, ops>>
    BY <1>1, Zenon DEF EraseStep
  <2>6. CASE f = 0
    <3>1. call' = [call EXCEPT !.pc = "return", !.ret = FALSE] /\ UNCHANGED <<fs, mem, image>>
      BY <1>1, <2>1, <2>6 DEF EraseStep
    <3>2. call' \in CallState /\ CallInv'
      BY <3>1, <2>3, Zenon DEF CallState, CallInv
    <3> QED BY <3>1, <3>2, <2>5 DEF IInv, DataInv
  <2>7. CASE f # 0
    <3>1. PICK size : size = Flash[f].blocksize
      OBVIOUS
    <3>2. PICK first : first = AlignDown(call.addr, size)
      OBVIOUS
    <3>3. PICK d \in IF f # old THEN Done(fs[old]) ELSE {[st |-> fs[old], ok |-> TRUE]} :
             \/ /\ fs' = [fs EXCEPT ![old] = d.st]
                /\ call' = [call EXCEPT !.pc = "return", !.ret = FALSE]
                /\ UNCHANGED <<mem, image>>
             \/ \E ok \in BOOLEAN :
                /\ fs' = [fs EXCEPT ![old] = d.st, ![f] =
                            [(IF f = old THEN d.st ELSE fs[f]) EXCEPT !.ready = TRUE]]
                /\ mem' = IF ok THEN EraseBlock(mem, first, size) ELSE mem
                /\ image' = IF ok THEN EraseBlock(image, first, size) ELSE image
                /\ call' = IF call.ret /\ d.ok /\ ok
                           THEN Advance([call EXCEPT !.active = f], first, size)
                           ELSE [call EXCEPT !.pc = "erased", !.active = f, !.ret = FALSE]
      BY <1>1, <2>1, <2>2, <2>7, <3>1, <3>2, Zenon DEF EraseStep
    <3>4. d.st \in RegionState(old) /\ Window(old, d.st)
      <4>1. fs[old] \in RegionState(old) /\ Window(old, fs[old])
        BY <2>3 DEF IInv, FsInv
      <4>2. CASE f # old
        BY <4>1, <4>2, <3>3, <2>3, DoneFacts
      <4>3. CASE f = old
        BY <4>1, <4>3, <3>3
      <4> QED BY <4>2, <4>3
    <3>5. CASE fs' = [fs EXCEPT ![old] = d.st]
               /\ call' = [call EXCEPT !.pc = "return", !.ret = FALSE]
               /\ UNCHANGED <<mem, image>>
      <4>1. FsInv(fs)'
        BY <3>5, <3>4, <2>3, FsUpdate, Zenon DEF IInv
      <4>2. call' \in CallState /\ CallInv'
        BY <3>5, <2>3, Zenon DEF CallState, CallInv
      <4> QED BY <4>1, <4>2, <3>5, <2>5 DEF IInv, DataInv
    <3>6. ASSUME NEW ok \in BOOLEAN,
                 fs' = [fs EXCEPT ![old] = d.st, ![f] =
                          [(IF f = old THEN d.st ELSE fs[f]) EXCEPT !.ready = TRUE]],
                 mem' = IF ok THEN EraseBlock(mem, first, size) ELSE mem,
                 image' = IF ok THEN EraseBlock(image, first, size) ELSE image,
                 call' = IF call.ret /\ d.ok /\ ok
                         THEN Advance([call EXCEPT !.active = f], first, size)
                         ELSE [call EXCEPT !.pc = "erased", !.active = f, !.ret = FALSE]
          PROVE  IInv'
      <4>1. FsInv(fs)'
        <5>1. PICK g : g = [fs EXCEPT ![old] = d.st]
          BY Zenon
        <5>2. FsInv(g)
          BY <5>1, <3>4, <2>3, FsUpdate, Zenon DEF IInv
        <5>3. PICK y : y = IF f = old THEN d.st ELSE fs[f]
          OBVIOUS
        <5>4. f \in Regions /\ y \in RegionState(f) /\ Window(f, y)
          BY <5>3, <3>4, <2>4, <2>7 DEF IInv, FsInv
        <5>5. fs' = [g EXCEPT ![f] = [y EXCEPT !.ready = TRUE]]
          BY <3>6, <5>1, <5>3
        <5> QED BY <5>2, <5>4, <5>5, ReadyFacts, FsUpdate, Zenon
      <4>2. DataInv'
        BY <3>6, <2>5, EraseBlockType DEF IInv, DataInv
      <4>3. size \in Nat \ {0} /\ first \in Nat /\ first <= call.addr /\ call.addr < first + size
        BY <3>1, <3>2, <2>3, <2>4, <2>7, RegionFields, AlignDownBounds, Zenon DEF CallState
      <4>4. CASE call.ret /\ d.ok /\ ok
        <5>1. PICK l : l = call.len - MinOf(first + size - call.addr, call.len)
          OBVIOUS
        <5>2. l \in Nat /\ first + size \in Nat
          BY <5>1, <4>3, <2>3 DEF MinOf, CallState
        <5>3. call' = [call EXCEPT !.active = f, !.len = l, !.addr = first + size]
          BY <3>6, <4>4, <5>1, <2>3 DEF Advance, CallState
        <5>4. call' \in CallState /\ CallInv'
          BY <5>2, <5>3, <2>3, <2>4, <2>7, Zenon DEF CallState, CallInv
        <5> QED BY <4>1, <4>2, <5>4, <2>5 DEF IInv
      <4>5. CASE ~(call.ret /\ d.ok /\ ok)
        <5>1. call' = [call EXCEPT !.pc = "erased", !.active = f, !.ret = FALSE]
          BY <3>6, <4>5
        <5>2. call' \in CallState /\ CallInv'
          BY <5>1, <2>3, <2>4, <2>7, ZenonT(30) DEF CallState, CallInv
        <5> QED BY <4>1, <4>2, <5>2, <2>5 DEF IInv
      <4> QED BY <4>4, <4>5
    <3> QED BY <3>3, <3>5, <3>6
  <2> QED BY <2>6, <2>7
<1>2. CASE EraseFinish
  <2>1. call.active \in Regions /\ call \in CallState
    BY <1>2, Zenon DEF EraseFinish, IInv, CallInv
  <2>2. PICK d \in Done(fs[call.active]) :
           /\ fs' = [fs EXCEPT ![call.active] = d.st]
           /\ call' = [call EXCEPT !.pc = "return", !.ret = call.ret /\ d.ok]
    BY <1>2, Zenon DEF EraseFinish
  <2>3. d.st \in RegionState(call.active) /\ Window(call.active, d.st) /\ d.ok \in BOOLEAN
    BY <2>1, <2>2, DoneFacts DEF IInv, FsInv
  <2>4. FsInv(fs)'
    BY <2>1, <2>2, <2>3, FsUpdate, Zenon DEF IInv
  <2>5. call' \in CallState /\ CallInv'
    BY <2>1, <2>2, <2>3, Zenon DEF CallState, CallInv
  <2>6. UNCHANGED <<flash_mode, mem, image, ops>>
    BY <1>2, Zenon DEF EraseFinish
  <2> QED BY <2>4, <2>5, <2>6 DEF IInv, DataInv
<1> QED BY <1>1, <1>2

\* A region that is flushed and closed.
LEMMA FlushDoneFacts ==
  ASSUME IInv, NEW f \in Regions, NEW u \in Flush(f, fs[f], mem), NEW d \in Done(u.st)
  PROVE  /\ d.st \in RegionState(f) /\ Window(f, d.st)
         /\ u.mem \in [Addr -> Bytes] /\ u.ok \in BOOLEAN /\ d.ok \in BOOLEAN
<1>1. fs[f] \in RegionState(f) /\ Window(f, fs[f]) /\ mem \in [Addr -> Bytes]
  BY DEF IInv, FsInv, DataInv
<1>2. /\ u.st \in RegionState(f) /\ Window(f, u.st)
      /\ u.mem \in [Addr -> Bytes] /\ u.ok \in BOOLEAN
  BY <1>1, FlushFacts
<1> QED BY <1>2, DoneFacts

\* The loops over all regions: the sweep of target_flash_write, and
\* target_flash_complete; and the answer.
LEMMA LoopIInv ==
  IInv /\ (SweepStep \/ SweepFinish \/ CompleteStep \/ CompleteFinish \/ Return \/ WriteFinish)
    => IInv'
<1> SUFFICES ASSUME IInv,
                    \/ SweepStep \/ SweepFinish \/ CompleteStep \/ CompleteFinish
                    \/ Return \/ WriteFinish
             PROVE  IInv'
  OBVIOUS
<1>0. /\ call \in CallState /\ CallInv /\ call.i \in Nat /\ call.ret \in BOOLEAN
      /\ Len(Flash) \in Nat
  BY FlashAssumption DEF IInv, CallState, FlashAssumption
<1>1. CASE SweepStep
  <2>0. call.pc = "sweep" /\ call.i <= Len(Flash) /\ UNCHANGED <<flash_mode, image, ops>>
    BY <1>1, Zenon DEF SweepStep
  <2>1. call.pc = "sweep" /\ call.i \in Regions /\ UNCHANGED <<flash_mode, image, ops>>
    BY <1>0, <2>0 DEF CallInv, Regions
  <2>2. CASE InFlash(call.i, call.addr)
    <3>1. /\ call' = [call EXCEPT !.active = call.i, !.i = call.i + 1]
          /\ UNCHANGED <<fs, mem>>
      BY <1>1, <2>2 DEF SweepStep
    <3>2. call' \in CallState
      <4>1. PICK k \in Nat, j \in Nat : k = call.i /\ j = call.i + 1
        BY <1>0
      <4>2. call' = [call EXCEPT !.active = k, !.i = j]
        BY <3>1, <4>1
      <4> QED BY <4>2, <1>0, ZenonT(30) DEF CallState
    <3>3. CallInv'
      <4>1. call'.pc = "sweep" /\ call'.active = call.i /\ call'.i = call.i + 1 /\ call'.id = call.id
        BY <3>1, <2>1, <1>0 DEF CallState
      <4> QED BY <4>1, <2>1, <1>0 DEF CallInv
    <3> QED BY <3>1, <3>2, <3>3, <2>1 DEF IInv, DataInv
  <2>3. CASE ~InFlash(call.i, call.addr) /\ ~fs[call.i].buf
    <3>1. call' = [call EXCEPT !.i = call.i + 1] /\ UNCHANGED <<fs, mem>>
      BY <1>1, <2>3 DEF SweepStep
    <3>2. call' \in CallState /\ CallInv'
      BY <3>1, <2>1, <1>0 DEF CallState, CallInv
    <3> QED BY <3>1, <3>2, <2>1 DEF IInv, DataInv
  <2>4. CASE ~InFlash(call.i, call.addr) /\ fs[call.i].buf
    <3>1. PICK u \in Flush(call.i, fs[call.i], mem) : \E d \in Done(u.st) :
             /\ fs' = [fs EXCEPT ![call.i] = d.st]
             /\ mem' = u.mem
             /\ call' = [call EXCEPT !.i = call.i + 1, !.ret = call.ret /\ u.ok /\ d.ok]
      BY <1>1, <2>4, ZenonT(60) DEF SweepStep
    <3>2. PICK d \in Done(u.st) :
             /\ fs' = [fs EXCEPT ![call.i] = d.st]
             /\ mem' = u.mem
             /\ call' = [call EXCEPT !.i = call.i + 1, !.ret = call.ret /\ u.ok /\ d.ok]
      BY <3>1
    <3>3. /\ d.st \in RegionState(call.i) /\ Window(call.i, d.st)
          /\ u.mem \in [Addr -> Bytes] /\ u.ok \in BOOLEAN /\ d.ok \in BOOLEAN
      BY <2>1, FlushDoneFacts
    <3>4. FsInv(fs)'
      BY <2>1, <3>2, <3>3, FsUpdate, Zenon DEF IInv
    <3>5. call' \in CallState /\ CallInv'
      <4>1. PICK ret \in BOOLEAN : ret = (call.ret /\ u.ok /\ d.ok)
        BY <3>3, <1>0
      <4>2. PICK j \in Nat : j = call.i + 1 /\ j > 0
        BY <1>0
      <4>3. call' = [call EXCEPT !.i = j, !.ret = ret]
        BY <3>2, <4>1, <4>2
      <4> QED BY <4>2, <4>3, <2>1, <1>0, Zenon DEF CallState, CallInv
    <3> QED BY <3>2, <3>3, <3>4, <3>5, <2>1 DEF IInv, DataInv
  <2> QED BY <2>2, <2>3, <2>4, SMTT(30)
<1>2. CASE SweepFinish
  <2>1. UNCHANGED <<flash_mode, fs, mem, image, ops>> /\ call.pc = "sweep"
    BY <1>2 DEF SweepFinish
  <2>2. CASE call.active = 0 \/ ~call.ret
    <3>1. call' = [call EXCEPT !.pc = "return", !.ret = FALSE]
      BY <1>2, <2>2 DEF SweepFinish
    <3>2. call' \in CallState /\ CallInv'
      BY <3>1, <1>0, ZenonT(30) DEF CallState, CallInv
    <3> QED BY <3>2, <2>1 DEF IInv, DataInv
  <2>3. CASE ~(call.active = 0 \/ ~call.ret)
    <3>1. call' = [call EXCEPT !.pc = "write"]
      BY <1>2, <2>3 DEF SweepFinish
    <3>2. call' \in CallState /\ CallInv'
      BY <3>1, <2>1, <2>3, <1>0 DEF CallState, CallInv
    <3> QED BY <3>2, <2>1 DEF IInv, DataInv
  <2> QED BY <2>2, <2>3
<1>3. CASE CompleteStep
  <2>0. call.pc = "complete" /\ call.i <= Len(Flash) /\ UNCHANGED <<flash_mode, image, ops>>
    BY <1>3, Zenon DEF CompleteStep
  <2>1. call.pc = "complete" /\ call.i \in Regions /\ UNCHANGED <<flash_mode, image, ops>>
    BY <1>0, <2>0, SMTT(30) DEF CallInv, Regions
  <2>2. PICK u \in Flush(call.i, fs[call.i], mem) : \E d \in Done(u.st) :
           /\ fs' = [fs EXCEPT ![call.i] = d.st]
           /\ mem' = u.mem
           /\ call' = [call EXCEPT !.i = call.i + 1, !.ret = call.ret /\ u.ok /\ d.ok]
    BY <1>3, Zenon DEF CompleteStep
  <2>3. PICK d \in Done(u.st) :
           /\ fs' = [fs EXCEPT ![call.i] = d.st]
           /\ mem' = u.mem
           /\ call' = [call EXCEPT !.i = call.i + 1, !.ret = call.ret /\ u.ok /\ d.ok]
    BY <2>2
  <2>4. /\ d.st \in RegionState(call.i) /\ Window(call.i, d.st)
        /\ u.mem \in [Addr -> Bytes] /\ u.ok \in BOOLEAN /\ d.ok \in BOOLEAN
    BY <2>1, FlushDoneFacts
  <2>5. FsInv(fs)'
    BY <2>1, <2>3, <2>4, FsUpdate, Zenon DEF IInv
  <2>6. call' \in CallState /\ CallInv'
    <3>1. PICK ret \in BOOLEAN : ret = (call.ret /\ u.ok /\ d.ok)
      BY <2>4, <1>0
    <3>2. PICK j \in Nat : j = call.i + 1 /\ j > 0
      BY <1>0
    <3>3. call' = [call EXCEPT !.i = j, !.ret = ret]
      BY <2>3, <3>1, <3>2
    <3> QED BY <3>2, <3>3, <2>1, <1>0, Zenon DEF CallState, CallInv
  <2> QED BY <2>3, <2>4, <2>5, <2>6, <2>1 DEF IInv, DataInv
<1>4. CASE CompleteFinish
  <2>1. UNCHANGED <<fs, mem, image, ops>> /\ flash_mode' = FALSE /\ call' = Idle
    BY <1>4 DEF CompleteFinish
  <2>2. call' \in CallState /\ CallInv'
    BY <2>1 DEF Idle, CallState, CallInv
  <2> QED BY <2>1, <2>2, Zenon DEF IInv, DataInv
<1>5. CASE Return
  <2>1. UNCHANGED <<flash_mode, fs, mem, image, ops>>
    BY <1>5 DEF Return
  <2>2. call' = Idle \/ call' = [Idle EXCEPT !.pc = "complete", !.kind = call.kind, !.ret = FALSE]
    BY <1>5 DEF Return
  <2>3. call' \in CallState /\ CallInv'
    <3>1. CASE call' = Idle
      BY <3>1 DEF Idle, CallState, CallInv
    <3>2. CASE call' # Idle
      <4>1. call' = [pc |-> "complete", kind |-> call.kind, addr |-> 0, len |-> 0, id |-> 0,
                     active |-> 0, i |-> 1, part |-> 0, ret |-> FALSE]
        BY <2>2, <3>2, Zenon DEF Idle
      <4>2. call.kind \in {"none", "erase", "erase_range", "write", "done"}
        BY <1>0 DEF CallState
      <4> QED BY <4>1, <4>2 DEF CallState, CallInv
    <3> QED BY <3>1, <3>2
  <2> QED BY <2>1, <2>3 DEF IInv, DataInv
<1>6. CASE WriteFinish
  <2>1. UNCHANGED <<flash_mode, fs, mem, image, ops>> /\ call' = [call EXCEPT !.pc = "return"]
    BY <1>6 DEF WriteFinish
  <2>2. call' \in CallState /\ CallInv'
    BY <2>1, <1>0 DEF CallState, CallInv
  <2> QED BY <2>1, <2>2 DEF IInv, DataInv
<1> QED BY <1>1, <1>2, <1>3, <1>4, <1>5, <1>6

\* The second loop of target_flash_write up to flash_buffered_write.
LEMMA WriteStepIInv == IInv /\ WriteStep => IInv'
<1> SUFFICES ASSUME IInv, WriteStep PROVE IInv'
  OBVIOUS
<1>1. PICK f : f = target_flash_for_addr(call.addr)
  OBVIOUS
<1>2. PICK old : old = call.active
  OBVIOUS
<1>3. /\ old \in Regions /\ call \in CallState /\ call.pc = "write" /\ call.len > 0
      /\ call.id \in 1..MaxOps /\ call.ret \in BOOLEAN /\ call.len \in Nat /\ call.addr \in Nat
  BY <1>2 DEF WriteStep, IInv, CallInv, CallState
<1>4. f \in Nat /\ (f # 0 => f \in Regions /\ InFlash(f, call.addr))
  BY <1>1, ForAddr
<1>5. UNCHANGED <<flash_mode, image, ops>>
  BY DEF WriteStep
<1>6. CASE f = 0
  <2>1. call' = [call EXCEPT !.pc = "return", !.ret = FALSE] /\ UNCHANGED <<fs, mem>>
    BY <1>1, <1>6 DEF WriteStep
  <2>2. call' \in CallState /\ CallInv'
    BY <2>1, <1>3, Zenon DEF CallState, CallInv
  <2> QED BY <2>1, <2>2, <1>5 DEF IInv, DataInv
<1>7. CASE f # 0
  <2> DEFINE D(u) == IF f # old THEN Done(u.st) ELSE {[st |-> u.st, ok |-> TRUE]}
             A(d) == Alloc(IF f = old THEN d.st ELSE fs[f])
             part == MinOf(call.addr + call.len, End(f)) - call.addr
             R(u, d, n) ==
               /\ fs' = [fs EXCEPT ![old] = d.st, ![f] = n.st]
               /\ mem' = u.mem
               /\ call' = IF call.ret /\ u.ok /\ d.ok /\ n.ok
                          THEN [call EXCEPT !.pc = "chunk", !.active = f, !.part = part]
                          ELSE [call EXCEPT !.pc = "return", !.ret = FALSE]
  <2>1. PICK u \in IF f # old THEN Flush(old, fs[old], mem)
                   ELSE {[st |-> fs[old], mem |-> mem, ok |-> TRUE]} :
             \E d \in D(u) : \E n \in A(d) : R(u, d, n)
    BY <1>1, <1>2, <1>7 DEF WriteStep
  <2>2. PICK d \in D(u) : \E n \in A(d) : R(u, d, n)
    BY <2>1, Zenon
  <2>3. PICK n \in A(d) : R(u, d, n)
    BY <2>2, Zenon
  <2>4. fs[old] \in RegionState(old) /\ Window(old, fs[old]) /\ mem \in [Addr -> Bytes]
    BY <1>3 DEF IInv, FsInv, DataInv
  <2>5. d.st \in RegionState(old) /\ Window(old, d.st) /\ u.mem \in [Addr -> Bytes]
    <3>1. CASE f # old
      BY <3>1, <1>3, FlushDoneFacts
    <3>2. CASE f = old
      BY <3>2, <2>4
    <3> QED BY <3>1, <3>2
  <2>6. PICK y : y = IF f = old THEN d.st ELSE fs[f]
    OBVIOUS
  <2>7. f \in Regions /\ y \in RegionState(f) /\ Window(f, y)
    BY <2>5, <2>6, <1>4, <1>7, SMTT(60) DEF IInv, FsInv
  <2>8. n.st \in RegionState(f) /\ Window(f, n.st)
    BY <2>6, <2>7, AllocFacts
  <2>9. FsInv(fs)'
    <3>1. PICK g : g = [fs EXCEPT ![old] = d.st]
      BY Zenon
    <3>2. FsInv(g)
      BY <3>1, <2>5, <1>3, FsUpdate, Zenon DEF IInv
    <3>3. fs' = [g EXCEPT ![f] = n.st]
      BY <2>3, <3>1
    <3> QED BY <3>2, <3>3, <2>7, <2>8, FsUpdate, Zenon
  <2>10. part \in Nat /\ part > 0 /\ part <= call.len /\ call.addr + part <= End(f)
    BY <2>7, <1>3, <1>4, <1>7, RegionFields DEF MinOf, InFlash
  <2>11. mem' = u.mem
    BY <2>3
  <2>12. CASE call.ret /\ u.ok /\ d.ok /\ n.ok
    <3>1. call' = [call EXCEPT !.pc = "chunk", !.active = f, !.part = part]
      BY <2>3, <2>12
    <3> HIDE DEF part
    <3>2. call' \in CallState /\ CallInv'
      BY <3>1, <2>10, <2>7, <1>3, <1>4, Zenon DEF CallState, CallInv
    <3> QED BY <3>2, <2>5, <2>9, <2>11, <1>5 DEF IInv, DataInv
  <2>13. CASE ~(call.ret /\ u.ok /\ d.ok /\ n.ok)
    <3>1. call' = [call EXCEPT !.pc = "return", !.ret = FALSE]
      BY <2>3, <2>13
    <3>2. call' \in CallState /\ CallInv'
      BY <3>1, <1>3, Zenon DEF CallState, CallInv
    <3> QED BY <3>2, <2>5, <2>9, <2>11, <1>5 DEF IInv, DataInv
  <2> QED BY <2>12, <2>13
<1> QED BY <1>6, <1>7

\* flash_buffered_write: the only place where data enters a buffer.
LEMMA ChunkStepIInv == "prepare" \notin Faults /\ IInv /\ ChunkStep => IInv'
<1> SUFFICES ASSUME "prepare" \notin Faults, IInv, ChunkStep PROVE IInv'
  OBVIOUS
<1> DEFINE f == call.active
           wbs == WriteBufSize(f)
           n == MinOf(wbs - (call.addr % wbs), call.part)
           F == IF AlignDown(call.addr, wbs) # fs[f].base THEN Flush(f, fs[f], mem)
                ELSE {[st |-> fs[f], mem |-> mem, ok |-> TRUE]}
           R(u) ==
             /\ fs' = [fs EXCEPT ![f] = CopyIn(f, u.st, call.addr, call.part, call.id)]
             /\ mem' = u.mem
             /\ image' = [a \in Addr |->
                            IF call.addr <= a /\ a < call.addr + n
                            THEN Cell(image[a], Byte(call.id, a)) ELSE image[a]]
             /\ LET ret == call.ret /\ u.ok IN
                call' = [call EXCEPT
                           !.addr = @ + n, !.len = @ - n, !.part = @ - n, !.ret = ret,
                           !.pc = IF call.part > n THEN "chunk"
                                  ELSE IF ret THEN "write" ELSE "return"]
<1>0. \E u \in F : R(u)
  BY Zenon DEF ChunkStep
<1>1. f = call.active
  OBVIOUS
<1>2. /\ f \in Regions /\ call \in CallState /\ call.pc = "chunk"
      /\ call.id \in 1..MaxOps /\ call.ret \in BOOLEAN /\ call.len \in Nat /\ call.addr \in Nat
      /\ call.part \in Nat \ {0} /\ call.part <= call.len /\ call.addr + call.part <= End(f)
      /\ MaxOps \in Nat
  BY <1>1, FlashAssumption DEF ChunkStep, IInv, CallInv, CallState, FlashAssumption
<1>3. wbs = WriteBufSize(f)
  OBVIOUS
<1>4. wbs \in Nat \ {0}
  BY <1>2, <1>3, WriteBufSizePositive
<1>5. n = MinOf(wbs - (call.addr % wbs), call.part)
  OBVIOUS
<1> HIDE DEF f, wbs, n
<1>6. n \in Nat /\ 0 < n /\ n <= call.part
  <2>1. call.addr % wbs \in 0..(wbs - 1)
    BY <1>4, <1>2, AlignDownBounds, Zenon
  <2> QED BY <2>1, <1>5, <1>4, <1>2 DEF MinOf
<1>7. UNCHANGED <<flash_mode, ops>>
  BY SMTT(60) DEF ChunkStep
<1>8. PICK u \in F : R(u)
  BY <1>0
<1>9. fs[f] \in RegionState(f) /\ Window(f, fs[f]) /\ mem \in [Addr -> Bytes]
  BY <1>2 DEF IInv, FsInv, DataInv
<1>10. /\ u.st \in RegionState(f) /\ Window(f, u.st)
       /\ u.mem \in [Addr -> Bytes] /\ u.ok \in BOOLEAN
       /\ AlignDown(call.addr, wbs) # u.st.base /\ u.st.buf => Empty(u.st)
  <2>1. CASE AlignDown(call.addr, wbs) # fs[f].base
    BY <2>1, <1>2, <1>8, <1>9, FlushFacts
  <2>2. CASE AlignDown(call.addr, wbs) = fs[f].base
    <3>1. u = [st |-> fs[f], mem |-> mem, ok |-> TRUE]
      BY <2>2, <1>8
    <3>2. u.st = fs[f] /\ u.mem = mem /\ u.ok = TRUE
      BY <3>1
    <3> QED BY <2>2, <3>2, <1>9, Zenon
  <2> QED BY <2>1, <2>2
<1>11. FsInv(fs)'
  <2>1. PICK x : x = CopyIn(f, u.st, call.addr, call.part, call.id)
    OBVIOUS
  <2>2. x \in RegionState(f) /\ Window(f, x)
    BY <2>1, <1>2, <1>3, <1>10, CopyInFacts
  <2> QED BY <2>1, <2>2, <1>2, <1>8, FsUpdate, Zenon DEF IInv
<1>12. DataInv'
  <2>1. ASSUME NEW a \in Addr PROVE Cell(image[a], Byte(call.id, a)) \in Bytes
    BY <1>2, Sentinels DEF Cell, Bytes, IInv, DataInv
  <2> QED BY <2>1, <1>7, <1>8, <1>10, SMTT(60) DEF IInv, DataInv
<1>13. call' \in CallState /\ CallInv'
  <2>1. PICK ret \in BOOLEAN : ret = (call.ret /\ u.ok)
    BY <1>2, <1>10
  <2>2. PICK pc : pc = IF call.part > n THEN "chunk" ELSE IF ret THEN "write" ELSE "return"
    OBVIOUS
  <2>3. call' = [call EXCEPT !.addr = call.addr + n, !.len = call.len - n,
                             !.part = call.part - n, !.ret = ret, !.pc = pc]
    BY <1>2, <1>8, <2>1, <2>2, Zenon DEF CallState
  <2>4. /\ call.addr + n \in Nat /\ call.len - n \in Nat /\ call.part - n \in Nat
        /\ pc \in {"chunk", "write", "return"}
        /\ pc = "chunk" => call.part - n > 0
        /\ call.part - n <= call.len - n
        /\ (call.addr + n) + (call.part - n) <= End(f)
    BY <1>2, <1>6, <2>2, RegionFields
  <2>5. call' \in CallState
    BY <2>3, <2>4, <1>2, ZenonT(60) DEF CallState
  <2>6. /\ call'.pc = pc /\ call'.active = f /\ call'.id = call.id
        /\ call'.part = call.part - n /\ call'.len = call.len - n /\ call'.addr = call.addr + n
    BY <2>3, <1>1, <1>2 DEF CallState
  <2>7. CallInv'
    BY <2>4, <2>6, <1>2 DEF CallInv, End
  <2> QED BY <2>5, <2>7
<1> QED BY <1>7, <1>11, <1>12, <1>13 DEF IInv

---------------------------------------------------------------------------
\* IInv is inductive when a driver's prepare never fails.
LEMMA NextIInv == "prepare" \notin Faults /\ IInv /\ [Next]_vars => IInv'
<1> SUFFICES ASSUME "prepare" \notin Faults, IInv, [Next]_vars PROVE IInv'
  OBVIOUS
<1>1. CASE Request
  BY <1>1, RequestIInv
<1>2. CASE EraseStep \/ EraseFinish
  BY <1>2, EraseIInv
<1>3. CASE \/ SweepStep \/ SweepFinish \/ CompleteStep \/ CompleteFinish
           \/ Return \/ WriteFinish
  BY <1>3, LoopIInv
<1>4. CASE WriteStep
  BY <1>4, WriteStepIInv
<1>5. CASE ChunkStep
  BY <1>5, ChunkStepIInv
<1>6. CASE UNCHANGED vars
  BY <1>6 DEF vars, IInv, DataInv, CallInv
<1> QED BY <1>1, <1>2, <1>3, <1>4, <1>5, <1>6 DEF Next, Step

\* What the code keeps about its buffers and locals is well-typed after any
\* sequence of erase, write and done requests, with any driver failing in
\* any call but prepare.
THEOREM TypeCorrect == ASSUME "prepare" \notin Faults PROVE Spec => []TypeOK
<1>1. IInv => TypeOK
  BY DEF IInv, FsInv, DataInv, TypeOK
<1> QED BY <1>1, InitIInv, NextIInv, PTL DEF Spec

\* A flush never reads outside the buffer and never programs a byte under
\* another block's address (target_flash.c:187-193): the dirty range always
\* lies inside the block the buffer is for.  The hypothesis is needed: after a
\* failed prepare the chunk is copied in all the same, and the buffer is for the
\* new block with the bounds of the old one.
THEOREM BufferWindowHolds == ASSUME "prepare" \notin Faults PROVE Spec => []BufferWindow
<1>1. IInv => BufferWindow
  <2> SUFFICES ASSUME IInv, NEW f \in Regions, Dirty(fs[f])
               PROVE  fs[f].base <= fs[f].low /\ fs[f].high <= fs[f].base + WriteBufSize(f)
    BY Zenon DEF BufferWindow
  <2> QED BY Zenon DEF IInv, FsInv, Window, Empty, Dirty
<1> QED BY <1>1, InitIInv, NextIInv, PTL DEF Spec

---------------------------------------------------------------------------
(* What waits in a buffer.                                                 *)

\* The byte that a flush of st would program at address a; Erased if none.
Due(st, a) == IF Dirty(st) /\ a - st.base \in DOMAIN st.bytes THEN st.bytes[a - st.base] ELSE Erased

Carried(x, a) == \E k \in 1..MaxOps : x = Byte(k, a)

\* A buffer with data is for a block of its own size; what waits in it lies between
\* buf_addr_low and buf_addr_high, in its region, and was sent for its address.
Content(f, st) ==
    Dirty(st) =>
      /\ st.base % WriteBufSize(f) = 0
      /\ \A a \in Addr : Due(st, a) # Erased =>
            st.low <= a /\ a < st.high /\ InFlash(f, a) /\ Carried(Due(st, a), a)

\* The special bytes are told apart, and from those that requests carry.
LEMMA Distinct ==
  /\ Erased # Junk /\ Erased # Old /\ Old # Junk
  /\ \A x, a : Carried(x, a) => x # Erased /\ x # Junk /\ x[1] > 0 /\ x[2] = a
BY FlashAssumption DEF FlashAssumption, Erased, Junk, Old, Carried, Byte

LEMMA Cells ==
  /\ \A x : Cell(x, Erased) = x
  /\ \A y : y # Erased => Cell(Erased, y) = y
  /\ \A x, y : x # Erased /\ y # Erased => Cell(x, y) = Junk
BY Zenon DEF Cell

\* Division: every number is so many units and a rest.
LEMMA Units ==
  ASSUME NEW n \in Nat \ {0}, NEW a \in Nat
  PROVE  a \div n \in Nat /\ a % n \in 0..(n - 1) /\ a = n * (a \div n) + (a % n) /\ n * (a \div n) \in Nat
<1>1. a \div n \in Nat /\ a % n \in 0..(n - 1) /\ a = n * (a \div n) + (a % n)
  OBVIOUS
<1> QED BY <1>1

\* Of two different multiples, one is larger by a unit.
LEMMA UnitApart ==
  ASSUME NEW n \in Nat \ {0}, NEW p \in Int, NEW q \in Int, n * p < n * q
  PROVE  n * p + n <= n * q
<1>1. p < q
  <2> SUFFICES ASSUME q <= p PROVE FALSE
    OBVIOUS
  <2>1. PICK k \in Nat : p = q + k
    <3>1. p - q \in Nat /\ p = q + (p - q)
      OBVIOUS
    <3> QED BY <3>1, Zenon
  <2>2. n * (q + k) = n * q + n * k /\ n * k \in Nat /\ n * q \in Int
    OBVIOUS
  <2> QED BY <2>1, <2>2
<1>2. PICK k \in Nat : q = p + 1 + k
  <2>1. q - p - 1 \in Nat /\ q = p + 1 + (q - p - 1)
    BY <1>1
  <2> QED BY <2>1, Zenon
<1>3. n * (p + 1 + k) = n * p + n + n * k /\ n * k \in Nat /\ n * p \in Int
  OBVIOUS
<1> QED BY <1>2, <1>3

\* A multiple has no rest.
LEMMA NoRest ==
  ASSUME NEW n \in Nat \ {0}, NEW q \in Nat
  PROVE  (n * q) % n = 0
<1> DEFINE a == n * q
<1>1. a \in Nat
  OBVIOUS
<1>2. /\ a \div n \in Nat /\ a % n \in 0..(n - 1) /\ a = n * (a \div n) + (a % n)
      /\ n * (a \div n) \in Nat
  BY <1>1, Units, Zenon
<1>3. a % n # 0 => n * (a \div n) < n * q
  BY <1>2
<1>4. n * (a \div n) < n * q => n * (a \div n) + n <= n * q
  BY <1>2, UnitApart
<1> QED BY <1>1, <1>2, <1>3, <1>4

\* The size of a buffer is a number of write units.
LEMMA BufSizeUnits ==
  ASSUME NEW f \in Regions
  PROVE  \E k \in Nat \ {0} : WriteBufSize(f) = Flash[f].writesize * k
<1> DEFINE ws == Flash[f].writesize
           q == Ceiling \div ws
<1>1. ws \in Nat \ {0} /\ Ceiling \in Nat \ {0}
  BY RegionFields, Zenon
<1>2. CASE ws <= Ceiling \div 2
  <2>1. ws <= Ceiling
    BY <1>1, <1>2
  <2>2. q \in Nat \ {0}
    BY <1>1, <2>1
  <2>3. WriteBufSize(f) = ws * q
    BY <1>2, Zenon DEF WriteBufSize
  <2> QED BY <2>2, <2>3, Zenon
<1>3. CASE ~(ws <= Ceiling \div 2)
  <2>1. WriteBufSize(f) = ws /\ ws = ws * 1
    BY <1>1, <1>3 DEF WriteBufSize
  <2> QED BY <2>1
<1> QED BY <1>2, <1>3, Zenon

\* A flush programs whole units, all of them inside the buffer, and every byte of
\* the dirty range is in one of them.
LEMMA UnitsCover ==
  ASSUME NEW f \in Regions, NEW st \in RegionState(f), Window(f, st), Dirty(st), st.base % WriteBufSize(f) = 0
  PROVE  /\ \A g \in Granules(f, st) : \A a \in Nat :
                g <= a /\ a < g + Flash[f].writesize => a - st.base \in 0..(WriteBufSize(f) - 1)
         /\ \A a \in Nat : st.low <= a /\ a < st.high =>
                \E g \in Granules(f, st) : g <= a /\ a < g + Flash[f].writesize
<1> DEFINE ws == Flash[f].writesize
           wbs == WriteBufSize(f)
           base == st.base
           low == st.low
           high == st.high
           first == AlignDown(low, ws)
<1>1. ws \in Nat \ {0} /\ wbs \in Nat \ {0}
  BY RegionFields, WriteBufSizePositive, Zenon
<1>2. base \in Nat /\ low \in Nat /\ high \in Nat /\ base <= low /\ low < high /\ high <= base + wbs
  BY RegionFields DEF RegionState, Addr32, Dirty, Window, Empty
<1>3. PICK k \in Nat \ {0} : wbs = ws * k
  BY BufSizeUnits, Zenon
<1>4. PICK q \in Nat : base = wbs * q
  <2>1. base = wbs * (base \div wbs) + (base % wbs) /\ base \div wbs \in Nat
    BY <1>1, <1>2, Units, Zenon
  <2>2. base = wbs * (base \div wbs)
    BY <1>1, <1>2, <2>1
  <2> QED BY <2>1, <2>2, Zenon
<1>5. PICK b \in Nat : base = ws * b
  <2>1. base = (ws * k) * q /\ (ws * k) * q = ws * (k * q) /\ k * q \in Nat
    BY <1>1, <1>3, <1>4
  <2> QED BY <2>1, Zenon
<1>6. PICK e \in Nat : base + wbs = ws * e
  <2>1. base + wbs = ws * b + ws * k /\ ws * b + ws * k = ws * (b + k) /\ b + k \in Nat
    BY <1>1, <1>3, <1>5
  <2> QED BY <2>1, Zenon
<1>7. ASSUME NEW a \in Nat
      PROVE  AlignDown(a, ws) = ws * (a \div ws) /\ a \div ws \in Nat
  <2>1. /\ a = ws * (a \div ws) + (a % ws) /\ a % ws \in 0..(ws - 1) /\ a \div ws \in Nat
        /\ ws * (a \div ws) \in Nat
    BY <1>1, Units, Zenon
  <2> QED BY <2>1 DEF AlignDown
<1>8. first = ws * (low \div ws) /\ low \div ws \in Nat /\ first \in Nat
  BY <1>1, <1>2, <1>7, SMTT(60)
<1>9. base <= first
  <2> SUFFICES ASSUME first < base PROVE FALSE
    BY <1>2, <1>8
  <2>0. ws * (low \div ws) < ws * b
    BY <1>5, <1>8, Zenon
  <2>1. ws * (low \div ws) + ws <= ws * b
    <3>1. low \div ws \in Int /\ b \in Int
      BY <1>5, <1>8
    <3> QED BY <1>1, <2>0, <3>1, UnitApart, Zenon
  <2>2. low < first + ws
    BY <1>1, <1>2, AlignDownBounds, Zenon
  <2> QED BY <1>1, <1>2, <1>5, <1>8, <2>1, <2>2, SMTT(60)
<1>10. ASSUME NEW g \in Granules(f, st), NEW a \in Nat, g <= a, a < g + ws
       PROVE  a - base \in 0..(wbs - 1)
  <2>1. g \in Nat /\ first <= g /\ g <= high - 1 /\ (g - first) % ws = 0
    BY <1>2, <1>8 DEF Granules
  <2>2. PICK j \in Nat : g - first = ws * j
    <3>1. g - first \in Nat
      BY <1>8, <2>1
    <3>2. /\ g - first = ws * ((g - first) \div ws) + ((g - first) % ws) /\ (g - first) \div ws \in Nat
          /\ ws * ((g - first) \div ws) \in Nat
      BY <1>1, <3>1, Units, ZenonT(60)
    <3>3. g - first = ws * ((g - first) \div ws)
      BY <2>1, <3>2, SMTT(60)
    <3> QED BY <3>2, <3>3, Zenon
  <2>3. g = ws * (low \div ws + j) /\ low \div ws + j \in Nat
    <3>1. ws * (low \div ws + j) = ws * (low \div ws) + ws * j /\ ws * j \in Nat
      BY <1>1, <1>8, <2>2, SMTT(60)
    <3> QED BY <1>8, <2>1, <2>2, <3>1, SMTT(60)
  <2>4. ws * (low \div ws + j) < ws * e
    BY <1>1, <1>2, <1>6, <2>1, <2>3, SMTT(60)
  <2>5. g + ws <= base + wbs
    BY <1>1, <1>6, <2>3, <2>4, UnitApart
  <2> QED BY <1>1, <1>2, <1>8, <1>9, <1>10, <2>1, <2>5, SMTT(60)
<1>11. ASSUME NEW a \in Nat, low <= a, a < high
       PROVE  \E g \in Granules(f, st) : g <= a /\ a < g + ws
  <2> DEFINE g == AlignDown(a, ws)
  <2>1. g \in Nat /\ g <= a /\ a < g + ws
    BY <1>1, AlignDownBounds, Zenon
  <2>2. g = ws * (a \div ws) /\ a \div ws \in Nat
    BY <1>7, Zenon
  <2>3. first <= low
    BY <1>1, <1>2, AlignDownBounds, Zenon
  <2>4. first <= g
    <3> SUFFICES ASSUME g < first PROVE FALSE
      BY <1>8, <2>1, SMTT(60)
    <3>1. ws * (a \div ws) + ws <= ws * (low \div ws)
      BY <1>1, <1>8, <2>2, UnitApart
    <3>2. g + ws <= first
      BY <1>8, <2>2, <3>1, Zenon
    <3> QED BY <1>1, <1>2, <1>8, <1>11, <2>1, <2>3, <3>2, SMTT(60)
  <2>5. low \div ws <= a \div ws
    <3> SUFFICES ASSUME a \div ws < low \div ws PROVE FALSE
      BY <1>8, <2>2
    <3>1. PICK j \in Nat : low \div ws = (a \div ws) + 1 + j
      <4>1. (low \div ws) - (a \div ws) - 1 \in Nat /\ low \div ws = (a \div ws) + 1 + ((low \div ws) - (a \div ws) - 1)
        BY <1>8, <2>2
      <4> QED BY <4>1, Zenon
    <3>2. ws * ((a \div ws) + 1 + j) = ws * (a \div ws) + ws + ws * j /\ ws * j \in Nat
      BY <1>1, <2>2, SMTT(60)
    <3>3. g < first
      BY <1>1, <1>8, <2>1, <2>2, <3>1, <3>2
    <3> QED BY <1>8, <2>1, <2>4, <3>3
  <2>6. (g - first) % ws = 0
    <3>1. PICK j \in Nat : a \div ws = (low \div ws) + j
      <4>1. (a \div ws) - (low \div ws) \in Nat /\ a \div ws = (low \div ws) + ((a \div ws) - (low \div ws))
        BY <1>8, <2>2, <2>5
      <4> QED BY <4>1, Zenon
    <3>2. ws * ((low \div ws) + j) = ws * (low \div ws) + ws * j /\ ws * j \in Nat
      BY <1>1, <1>8, SMTT(60)
    <3>3. g - first = ws * j
      BY <1>8, <2>1, <2>2, <3>1, <3>2, SMTT(60)
    <3> QED BY <1>1, <3>3, NoRest, Zenon
  <2>7. g \in first..(high - 1)
    BY <1>2, <1>8, <1>11, <2>1, <2>4
  <2>8. g \in Granules(f, st)
    BY <2>6, <2>7, Zenon DEF Granules
  <2> QED BY <2>1, <2>8, Zenon
<1> QED BY <1>10, <1>11, Zenon

\* A buffer without data has nothing to program.
LEMMA CleanDue ==
  ASSUME NEW st, NEW a, ~Dirty(st)
  PROVE  Due(st, a) = Erased
BY Zenon DEF Due

\* What waits is for its own region and was sent for its address.
LEMMA DueIs ==
  ASSUME NEW f \in Regions, NEW st, Content(f, st), NEW a \in Addr, Due(st, a) # Erased
  PROVE  Dirty(st) /\ st.low <= a /\ a < st.high /\ InFlash(f, a) /\ Carried(Due(st, a), a)
BY CleanDue, Zenon DEF Content

\* flash_buffered_flush programs what waits in the buffer, each byte at its address,
\* and no other cell; a write that fails leaves cells as they were.
LEMMA FlushData ==
  ASSUME "prepare" \notin Faults, NEW f \in Regions, NEW st \in RegionState(f), Window(f, st), Content(f, st),
         NEW m, NEW u \in Flush(f, st, m)
  PROVE  /\ ~Dirty(u.st)
         /\ u.st.buf = st.buf
         /\ \A a \in Addr : u.mem[a] = m[a] \/ u.mem[a] = Cell(m[a], Due(st, a))
         /\ u.ok => \A a \in Addr : u.mem[a] = Cell(m[a], Due(st, a))
<1> DEFINE em == EmptyBuffer([st EXCEPT !.ready = TRUE])
<1>1. CASE ~Dirty(st)
  <2>1. u = [st |-> st, mem |-> m, ok |-> TRUE]
    BY <1>1, Zenon DEF Flush
  <2>2. u.st = st /\ u.mem = m
    BY <2>1, Zenon
  <2>3. ASSUME NEW a \in Addr PROVE m[a] = Cell(m[a], Due(st, a))
    BY <1>1, CleanDue, Cells, Zenon
  <2> QED BY <1>1, <2>2, <2>3, Zenon
<1>2. CASE Dirty(st)
  <2>1. PICK bad \in SUBSET Granules(f, st) :
               u = [st |-> em, mem |-> Program(f, st, m, bad), ok |-> bad = {}]
    BY <1>2, Zenon DEF Flush
  <2>2. em.base = UINT32_MAX /\ em.buf = st.buf
    BY Zenon DEF EmptyBuffer, RegionState
  <2>3. u.st = em /\ u.mem = Program(f, st, m, bad) /\ (u.ok => bad = {})
    <3> HIDE DEF em
    <3> QED BY <2>1, Zenon
  <2>4. ~Dirty(u.st) /\ u.st.buf = st.buf
    <3> HIDE DEF em
    <3> QED BY <2>2, <2>3, Zenon DEF Dirty
  <2>5. DOMAIN st.bytes = 0..(WriteBufSize(f) - 1)
    BY Zenon DEF RegionState
  <2>6. st.base % WriteBufSize(f) = 0
    BY <1>2, Zenon DEF Content
  <2>7. ASSUME NEW a \in Addr
        PROVE  /\ u.mem[a] = m[a] \/ u.mem[a] = Cell(m[a], Due(st, a))
               /\ bad = {} => u.mem[a] = Cell(m[a], Due(st, a))
    <3>0. a \in Nat
      BY FlashAssumption DEF FlashAssumption, Addr
    <3>1. CASE \E g \in Granules(f, st) \ bad : g <= a /\ a < g + Flash[f].writesize
      <4>1. a - st.base \in 0..(WriteBufSize(f) - 1)
        BY <1>2, <2>6, <3>0, <3>1, UnitsCover, Zenon
      <4>2. Due(st, a) = Fetch(st, a - st.base)
        BY <1>2, <2>5, <4>1, Zenon DEF Due, Fetch
      <4>3. u.mem[a] = Cell(m[a], Fetch(st, a - st.base))
        BY <2>3, <3>1, Zenon DEF Program
      <4> QED BY <4>2, <4>3, Zenon
    <3>2. CASE ~ \E g \in Granules(f, st) \ bad : g <= a /\ a < g + Flash[f].writesize
      <4>1. u.mem[a] = m[a]
        BY <2>3, <3>2, Zenon DEF Program
      <4>2. ASSUME bad = {} PROVE Due(st, a) = Erased
        <5>1. ~ (st.low <= a /\ a < st.high)
          <6>1. \A b \in Nat : st.low <= b /\ b < st.high =>
                   \E g \in Granules(f, st) : g <= b /\ b < g + Flash[f].writesize
            BY <1>2, <2>6, UnitsCover, Zenon
          <6> QED BY <3>0, <3>2, <4>2, <6>1, Zenon
        <5> QED BY <5>1, DueIs, Zenon
      <4> QED BY <4>1, <4>2, Cells, Zenon
    <3> QED BY <3>1, <3>2, Zenon
  <2> QED BY <2>3, <2>4, <2>7, Zenon
<1> QED BY <1>1, <1>2, Zenon

\* flash_done discards what waits in a prepared region; another one is left alone.
LEMMA DoneData ==
  ASSUME NEW f \in Regions, NEW st \in RegionState(f), NEW d \in Done(st)
  PROVE  /\ ~st.ready => d.st = st
         /\ st.ready => ~Dirty(d.st)
         /\ ~Dirty(st) => ~Dirty(d.st)
         /\ ~d.st.ready
<1>1. CASE ~st.ready
  <2>1. d = [st |-> st, ok |-> TRUE]
    BY <1>1, Zenon DEF Done
  <2> QED BY <1>1, <2>1, Zenon
<1>2. CASE st.ready
  <2> DEFINE new == [st EXCEPT !.ready = FALSE, !.buf = FALSE]
  <2>1. ~new.ready /\ ~new.buf
    BY Zenon DEF RegionState
  <2>2. PICK b \in BOOLEAN : d = [st |-> new, ok |-> b]
    BY <1>2, Zenon DEF Done
  <2>3. d.st = new
    <3> HIDE DEF new
    <3> QED BY <2>2, Zenon
  <2> HIDE DEF new
  <2> QED BY <1>2, <2>1, <2>3, Zenon DEF Dirty
<1> QED BY <1>1, <1>2, Zenon

\* flash_buffer_alloc changes nothing that waits.
LEMMA AllocData ==
  ASSUME NEW f \in Regions, NEW st \in RegionState(f), NEW n \in Alloc(st)
  PROVE  (n.st = st \/ (~Dirty(st) /\ ~Dirty(n.st))) /\ (n.ok => n.st.buf)
<1>1. CASE st.buf
  <2>1. n = [st |-> st, ok |-> TRUE]
    BY <1>1, Zenon DEF Alloc
  <2> QED BY <1>1, <2>1, Zenon
<1>2. CASE ~st.buf
  <2> DEFINE em == EmptyBuffer([st EXCEPT !.buf = TRUE])
  <2>1. em.base = UINT32_MAX /\ em.buf
    BY Zenon DEF EmptyBuffer, RegionState
  <2>2. n \in {[st |-> em, ok |-> TRUE], [st |-> st, ok |-> FALSE]}
    BY <1>2, Zenon DEF Alloc
  <2>3. (n.st = em /\ n.ok) \/ (n.st = st /\ ~n.ok)
    <3> HIDE DEF em
    <3> QED BY <2>2
  <2> HIDE DEF em
  <2> QED BY <1>2, <2>1, <2>3, Zenon DEF Dirty
<1> QED BY <1>1, <1>2, Zenon

\* flash_buffered_write puts the bytes of the chunk in the buffer, each for its
\* address, and keeps what waits there already.
LEMMA CopyInData ==
  ASSUME NEW f \in Regions, NEW st \in RegionState(f), Window(f, st), Content(f, st), st.buf,
         NEW dest \in Nat, NEW len \in Nat \ {0}, Start(f) <= dest, dest + len <= End(f),
         NEW id \in 1..MaxOps,
         AlignDown(dest, WriteBufSize(f)) # st.base => Empty(st),
         NEW n, n = MinOf(WriteBufSize(f) - (dest % WriteBufSize(f)), len),
         NEW x, x = CopyIn(f, st, dest, len, id)
  PROVE  /\ x.buf
         /\ \A a \in Addr : dest <= a /\ a < dest + n => Due(x, a) = Byte(id, a)
         /\ \A a \in Addr : ~(dest <= a /\ a < dest + n) => Due(x, a) = Due(st, a)
         /\ Content(f, x)
<1> DEFINE wbs == WriteBufSize(f)
           base == AlignDown(dest, wbs)
           offset == dest % wbs
           blank == IF base # st.base THEN [o \in DOMAIN st.bytes |-> Erased] ELSE st.bytes
           bytes == [o \in DOMAIN st.bytes |->
                       IF offset <= o /\ o < offset + n
                       THEN Byte(id, dest + (o - offset)) ELSE blank[o]]
           low == MinOf(st.low, dest)
           high == MaxOf(st.high, dest + n)
           new == [st EXCEPT !.base = base, !.bytes = bytes, !.low = low, !.high = high]
<1>1. x = new
  BY Zenon DEF CopyIn
<1>2. /\ wbs \in Nat \ {0} /\ UINT32_MAX \in Nat \ {0} /\ End(f) \in 0..UINT32_MAX
      /\ Start(f) \in Nat
  BY WriteBufSizePositive, RegionFields DEF Start, Addr
<1>3. /\ offset \in 0..(wbs - 1) /\ base \in Nat /\ base <= dest /\ dest < base + wbs
      /\ base = dest - offset
  BY <1>2, AlignDownBounds, Zenon
<1>4. n \in Nat /\ n >= 1 /\ n <= wbs - offset /\ n <= len
  <2>1. n = MinOf(wbs - offset, len)
    BY Zenon
  <2> HIDE DEF offset, wbs
  <2> QED BY <1>2, <1>3, <2>1 DEF MinOf
<1>5. st.low \in Nat /\ st.high \in Nat /\ st.base \in Nat
      /\ DOMAIN st.bytes = 0..(wbs - 1)
  BY <1>2 DEF RegionState, Addr32
<1>6. /\ x.buf = st.buf /\ x.base = base /\ x.low = low /\ x.high = high /\ x.bytes = bytes
  <2> HIDE DEF bytes, low, high, base
  <2> QED BY <1>1, Zenon DEF RegionState
<1>7. x.buf
  BY <1>6, Zenon
<1>8. low <= dest /\ low <= st.low /\ dest + n <= high /\ st.high <= high /\ low \in Nat /\ high \in Nat
  <2> HIDE DEF offset, wbs
  <2> QED BY <1>4, <1>5, SMTT(60) DEF MinOf, MaxOf
<1>9. dest + n <= UINT32_MAX /\ dest < UINT32_MAX /\ base < UINT32_MAX
  <2> HIDE DEF offset, wbs, base
  <2> QED BY <1>2, <1>3, <1>4
<1>10. Dirty(x)
  <2> HIDE DEF offset, wbs, base, low, high, bytes
  <2> QED BY <1>2, <1>3, <1>4, <1>6, <1>7, <1>8, <1>9 DEF Dirty
<1>11. base % wbs = 0
  <2>1. dest = wbs * (dest \div wbs) + (dest % wbs) /\ dest \div wbs \in Nat /\ wbs * (dest \div wbs) \in Nat
    BY <1>2, Units, Zenon
  <2>2. base = wbs * (dest \div wbs)
    BY <1>3, <2>1
  <2>3. (wbs * (dest \div wbs)) % wbs = 0
    BY <1>2, <2>1, NoRest, Zenon
  <2> QED BY <2>2, <2>3, Zenon
<1>12. Dirty(st) <=> base = st.base
  <2>1. CASE base # st.base
    BY <2>1, Zenon DEF Empty, Dirty
  <2>2. CASE base = st.base
    <3>1. ~Empty(st)
      BY <1>2, <1>3, <1>9, <2>2 DEF Empty
    <3>2. st.low < st.high /\ st.high <= UINT32_MAX
      BY <3>1, Zenon DEF Window
    <3>3. st.base # UINT32_MAX /\ st.low # UINT32_MAX
      <4>1. st.base < UINT32_MAX
        BY <1>9, <2>2, Zenon
      <4>2. st.low < UINT32_MAX
        BY <1>2, <1>5, <3>2, SMTT(30)
      <4> QED BY <1>2, <4>1, <4>2
    <3>4. Dirty(st)
      BY <3>2, <3>3, Zenon DEF Dirty
    <3> QED BY <2>2, <3>4, Zenon
  <2> QED BY <2>1, <2>2, Zenon
<1>13. ASSUME NEW a \in Addr
       PROVE  Due(x, a) = IF dest <= a /\ a < dest + n THEN Byte(id, a) ELSE Due(st, a)
  <2>0. a \in Nat
    BY FlashAssumption DEF FlashAssumption, Addr
  <2>1. CASE a - base \in 0..(wbs - 1)
    <3> DEFINE o == a - base
    <3>1. Due(x, a) = bytes[o]
      <4>1. DOMAIN bytes = 0..(wbs - 1)
        BY <1>5, Zenon
      <4> HIDE DEF bytes, base, wbs
      <4> QED BY <1>6, <1>10, <2>1, <4>1, Zenon DEF Due
    <3>2. bytes[o] = IF offset <= o /\ o < offset + n THEN Byte(id, dest + (o - offset)) ELSE blank[o]
      <4> HIDE DEF blank, base, wbs, offset
      <4> QED BY <1>5, <2>1, Zenon
    <3>3. /\ (offset <= o /\ o < offset + n) <=> (dest <= a /\ a < dest + n)
          /\ dest + (o - offset) = a
      <4> HIDE DEF base, wbs, offset
      <4> QED BY <1>2, <1>3, <1>4, <2>0
    <3>4. blank[o] = Due(st, a)
      <4>1. CASE base # st.base
        <5>1. Due(st, a) = Erased
          BY <1>12, <4>1, CleanDue, Zenon
        <5>2. blank = [p \in 0..(wbs - 1) |-> Erased]
          BY <1>5, <4>1, Zenon
        <5> HIDE DEF blank, base, wbs
        <5> QED BY <2>1, <5>1, <5>2, Zenon
      <4>2. CASE base = st.base
        <5>1. blank = st.bytes
          BY <4>2, Zenon
        <5>2. Dirty(st)
          BY <1>12, <4>2, Zenon
        <5> HIDE DEF blank, base, wbs
        <5> QED BY <1>5, <2>1, <4>2, <5>1, <5>2, Zenon DEF Due
      <4> QED BY <4>1, <4>2, Zenon
    <3> HIDE DEF o, bytes, blank, base, offset, wbs
    <3> QED BY <3>1, <3>2, <3>3, <3>4, Zenon
  <2>2. CASE a - base \notin 0..(wbs - 1)
    <3>1. Due(x, a) = Erased
      <4> HIDE DEF bytes, base, wbs
      <4>1. DOMAIN bytes = 0..(wbs - 1)
        BY <1>5, Zenon DEF bytes
      <4> QED BY <1>6, <2>2, <4>1, Zenon DEF Due
    <3>2. Due(st, a) = Erased
      <4> HIDE DEF bytes, base, wbs
      <4> QED BY <1>5, <1>12, <2>2, Zenon DEF Due
    <3>3. ~(dest <= a /\ a < dest + n)
      <4> HIDE DEF base, wbs, offset
      <4> QED BY <1>2, <1>3, <1>4, <2>0, <2>2
    <3> QED BY <3>1, <3>2, <3>3, Zenon
  <2> QED BY <2>1, <2>2, Zenon
<1>14. ASSUME NEW a \in Addr, Due(x, a) # Erased
       PROVE  x.low <= a /\ a < x.high /\ InFlash(f, a) /\ Carried(Due(x, a), a)
  <2>0. a \in Nat
    BY FlashAssumption DEF FlashAssumption, Addr
  <2>1. CASE dest <= a /\ a < dest + n
    <3>1. Due(x, a) = Byte(id, a)
      BY <1>13, <2>1, Zenon
    <3>2. InFlash(f, a)
      BY <1>2, <1>4, <2>0, <2>1 DEF InFlash
    <3>3. Carried(Due(x, a), a)
      BY <3>1, ZenonT(60) DEF Carried
    <3>4. x.low <= a /\ a < x.high
      <4> HIDE DEF low, high
      <4> QED BY <1>4, <1>6, <1>8, <2>0, <2>1
    <3> QED BY <3>2, <3>3, <3>4, Zenon
  <2>2. CASE ~(dest <= a /\ a < dest + n)
    <3>1. Due(x, a) = Due(st, a)
      BY <1>13, <2>2, Zenon
    <3>2. st.low <= a /\ a < st.high /\ InFlash(f, a) /\ Carried(Due(st, a), a)
      BY <1>14, <3>1, DueIs, ZenonT(60)
    <3>3. x.low <= a /\ a < x.high
      <4> HIDE DEF low, high
      <4> QED BY <1>5, <1>6, <1>8, <2>0, <3>2
    <3> QED BY <3>1, <3>2, <3>3, Zenon
  <2> QED BY <2>1, <2>2, Zenon
<1>15. Content(f, x)
  <2>1. x.base % WriteBufSize(f) = 0
    BY <1>6, <1>11, ZenonT(60)
  <2> QED BY <1>14, <2>1, Zenon DEF Content
<1> QED BY <1>7, <1>13, <1>15, Zenon

\* The same, of a chunk that is a constant.
Chunk(f, st, dest, len, id, n, x) ==
    /\ f \in Regions /\ st \in RegionState(f) /\ Window(f, st) /\ Content(f, st) /\ st.buf
    /\ dest \in Nat /\ len \in Nat \ {0} /\ Start(f) <= dest /\ dest + len <= End(f) /\ id \in 1..MaxOps
    /\ AlignDown(dest, WriteBufSize(f)) # st.base => Empty(st)
    /\ n = MinOf(WriteBufSize(f) - (dest % WriteBufSize(f)), len)
    /\ x = CopyIn(f, st, dest, len, id)

LEMMA ChunkData ==
  ASSUME NEW f, NEW st, NEW dest, NEW len, NEW id, NEW n, NEW x, Chunk(f, st, dest, len, id, n, x)
  PROVE  /\ x.buf
         /\ \A a \in Addr : dest <= a /\ a < dest + n => Due(x, a) = Byte(id, a)
         /\ \A a \in Addr : ~(dest <= a /\ a < dest + n) => Due(x, a) = Due(st, a)
         /\ Content(f, x)
BY CopyInData DEF Chunk

---------------------------------------------------------------------------
(* The device, the requests, and what waits between the two.               *)

\* No erase block of one region holds an address of another.
Separate ==
    \A f, g \in Regions : \A a, b \in Addr :
        f # g /\ InFlash(f, a) /\ InFlash(g, b) =>
          ~(AlignDown(a, Flash[f].blocksize) <= b /\ b < AlignDown(a, Flash[f].blocksize) + Flash[f].blocksize)

\* Cell a is not ruined unless the requests ruin it, and is blank wherever a byte
\* waits for it (but for region e, whose buffer is about to be given up).
StrayAt(v, m, im, e, a) ==
    \/ im[a] = Junk
    \/ /\ m[a] # Junk
       /\ im[a] = Erased => m[a] = Erased
       /\ \A f \in Regions : f # e /\ Due(v[f], a) # Erased => m[a] = Erased /\ im[a] # Erased

Stray(v, m, im, e) == \A a \in Addr : StrayAt(v, m, im, e, a)

\* What the requests ask for cell a waits in a buffer or is in the device.
CommitAt(v, m, im, a) ==
    \/ im[a] = Junk
    \/ \E f \in Regions : Due(v[f], a) # Erased /\ im[a] = Due(v[f], a)
    \/ im[a] = m[a] /\ \A f \in Regions : Due(v[f], a) = Erased

Commit(v, m, im) == \A a \in Addr : CommitAt(v, m, im, a)

Contents(v) == \A f \in Regions : Content(f, v[f])
CellAt(m, a) == m[a] \in {Erased, Old, Junk} \/ Carried(m[a], a)
CellsOK(m) == \A a \in Addr : CellAt(m, a)
Ruined(m, im) == \A a \in Addr : m[a] = Junk => im[a] = Junk

\* Two regions share no address, and no erase of one reaches the other.
LEMMA Apart ==
  ASSUME Separate, NEW f \in Regions, NEW g \in Regions, f # g, NEW a \in Addr, InFlash(f, a)
  PROVE  ~InFlash(g, a)
<1>1. Flash[f].blocksize \in Nat \ {0} /\ a \in Nat
  BY RegionFields, FlashAssumption DEF FlashAssumption, Addr
<1>2. AlignDown(a, Flash[f].blocksize) <= a /\ a < AlignDown(a, Flash[f].blocksize) + Flash[f].blocksize
  BY <1>1, AlignDownBounds, Zenon
<1> QED BY <1>2, Zenon DEF Separate

\* At most one buffer waits for a cell.
LEMMA OneWaits ==
  ASSUME Separate, NEW v, Contents(v), NEW f \in Regions, NEW g \in Regions, f # g, NEW a \in Addr,
         Due(v[f], a) # Erased
  PROVE  Due(v[g], a) = Erased
<1>1. InFlash(f, a)
  BY DueIs, Zenon DEF Contents
<1>2. ~InFlash(g, a)
  BY <1>1, Apart, Zenon
<1> QED BY <1>2, DueIs, Zenon DEF Contents

\* What a flush of region f, and a copy of byte b into its buffer, do at address a.
FlushedAt(v, w, m, k, im, f, a) ==
    /\ \A g \in Regions : g # f => w[g] = v[g]
    /\ Due(w[f], a) = Erased
    /\ k[a] = m[a] \/ k[a] = Cell(m[a], Due(v[f], a))

CopiedAt(v, w, m, im, jm, f, a, b) ==
    /\ \A g \in Regions : g # f => w[g] = v[g]
    /\ Carried(b, a)
    /\ Due(w[f], a) = b
    /\ jm[a] = Cell(im[a], b)

\* A flush of region f moves what waits there into the device.
LEMMA FlushAt ==
  ASSUME Separate, NEW v, Contents(v), NEW w, NEW m, NEW k, NEW im, NEW f \in Regions, NEW a \in Addr,
         FlushedAt(v, w, m, k, im, f, a)
  PROVE  /\ CellAt(m, a) => CellAt(k, a)
         /\ StrayAt(v, m, im, 0, a) => StrayAt(w, k, im, 0, a)
         /\ StrayAt(v, m, im, 0, a) /\ CommitAt(v, m, im, a) /\ k[a] = Cell(m[a], Due(v[f], a))
              => CommitAt(w, k, im, a)
<1>0. f # 0
  BY FlashAssumption DEF FlashAssumption, Regions
<1>1. ASSUME NEW g \in Regions, g # f PROVE w[g] = v[g]
  BY <1>1, Zenon DEF FlushedAt
<1>a. Due(w[f], a) = Erased /\ (k[a] = m[a] \/ k[a] = Cell(m[a], Due(v[f], a)))
  BY Zenon DEF FlushedAt
<1>2. CASE Due(v[f], a) = Erased
  <2>1. k[a] = m[a]
    BY <1>2, <1>a, Cells, Zenon
  <2>2. ASSUME NEW g \in Regions PROVE Due(w[g], a) = Due(v[g], a)
    BY <1>1, <1>2, <1>a, Zenon
  <2> QED BY <2>1, <2>2, Zenon DEF CellAt, StrayAt, CommitAt
<1>3. CASE Due(v[f], a) # Erased
  <2>1. Carried(Due(v[f], a), a)
    BY <1>3, DueIs, Zenon DEF Contents
  <2>2. Due(v[f], a) # Junk
    BY <2>1, Distinct, Zenon
  <2>3. ASSUME NEW g \in Regions PROVE Due(w[g], a) = Erased
    <3>1. CASE g = f
      BY <1>a, <3>1, Zenon
    <3>2. CASE g # f
      <4>1. w[g] = v[g]
        BY <1>1, <3>2, Zenon
      <4>2. Due(v[g], a) = Erased
        BY <1>3, <3>2, OneWaits, ZenonT(30)
      <4> QED BY <4>1, <4>2, Zenon
    <3> QED BY <3>1, <3>2, Zenon
  <2>4. CellAt(m, a) => CellAt(k, a)
    <3>1. Cell(m[a], Due(v[f], a)) \in {m[a], Due(v[f], a), Junk}
      BY Zenon DEF Cell
    <3> QED BY <1>a, <2>1, <3>1, Zenon DEF CellAt
  <2>5. ASSUME StrayAt(v, m, im, 0, a), im[a] # Junk
        PROVE  m[a] = Erased /\ im[a] # Erased /\ Cell(m[a], Due(v[f], a)) = Due(v[f], a)
    <3>1. m[a] = Erased /\ im[a] # Erased
      BY <1>0, <1>3, <2>5, Zenon DEF StrayAt
    <3> QED BY <1>3, <3>1, Cells, Zenon
  <2>6. StrayAt(v, m, im, 0, a) => StrayAt(w, k, im, 0, a)
    BY <1>3, <1>a, <2>2, <2>3, <2>5, Distinct, Zenon DEF StrayAt
  <2>7. ASSUME StrayAt(v, m, im, 0, a), CommitAt(v, m, im, a), k[a] = Cell(m[a], Due(v[f], a))
        PROVE  CommitAt(w, k, im, a)
    <3>1. CASE im[a] = Junk
      BY <3>1, Zenon DEF CommitAt
    <3>2. CASE im[a] # Junk
      <4>1. k[a] = Due(v[f], a)
        BY <2>5, <2>7, <3>2, Zenon
      <4>2. PICK g \in Regions : Due(v[g], a) # Erased /\ im[a] = Due(v[g], a)
        BY <1>3, <2>7, <3>2, Zenon DEF CommitAt
      <4>3. g = f
        BY <1>3, <4>2, OneWaits, Zenon
      <4> QED BY <2>3, <4>1, <4>2, <4>3, Zenon DEF CommitAt
    <3> QED BY <3>1, <3>2, Zenon
  <2> QED BY <2>4, <2>6, <2>7, Zenon
<1> QED BY <1>2, <1>3, ZenonT(60)

\* A byte b that is copied into the buffer of region f.
LEMMA CopyAt ==
  ASSUME NEW v, NEW w, NEW m, NEW im, NEW jm, NEW f \in Regions, NEW a \in Addr, NEW b,
         CopiedAt(v, w, m, im, jm, f, a, b), StrayAt(v, m, im, 0, a)
  PROVE  StrayAt(w, m, jm, 0, a) /\ CommitAt(w, m, jm, a)
<1>a. Carried(b, a) /\ Due(w[f], a) = b /\ jm[a] = Cell(im[a], b) /\ \A g \in Regions : g # f => w[g] = v[g]
  BY Zenon DEF CopiedAt
<1>0. \A g \in Regions : g # 0
  BY FlashAssumption DEF FlashAssumption, Regions
<1>1. b # Erased /\ b # Junk
  BY <1>a, Distinct, Zenon
<1>2. CASE im[a] # Erased
  <2>1. jm[a] = Junk
    BY <1>1, <1>2, <1>a, Cells, Zenon
  <2> QED BY <2>1, Zenon DEF StrayAt, CommitAt
<1>3. CASE im[a] = Erased
  <2>1. jm[a] = b
    BY <1>1, <1>3, <1>a, Cells, Zenon
  <2>2. m[a] = Erased
    BY <1>3, Distinct, Zenon DEF StrayAt
  <2>3. StrayAt(w, m, jm, 0, a)
    <3>1. ASSUME NEW g \in Regions, Due(w[g], a) # Erased PROVE m[a] = Erased /\ jm[a] # Erased
      BY <1>1, <2>1, <2>2, Zenon
    <3> QED BY <2>2, <1>1, <2>1, <3>1, Distinct, Zenon DEF StrayAt
  <2>4. CommitAt(w, m, jm, a)
    BY <1>1, <1>a, <2>1, Zenon DEF CommitAt
  <2> QED BY <2>3, <2>4, Zenon
<1> QED BY <1>2, <1>3, Zenon

\* A cell that nothing happens to.
LEMMA SameAt ==
  ASSUME NEW v, NEW w, NEW m, NEW im, NEW k, NEW jm, NEW a,
         \A g \in Regions : Due(w[g], a) = Due(v[g], a), k[a] = m[a], jm[a] = im[a]
  PROVE  /\ \A e : StrayAt(v, m, im, e, a) => StrayAt(w, k, jm, e, a)
         /\ CommitAt(v, m, im, a) => CommitAt(w, k, jm, a)
         /\ CellAt(m, a) => CellAt(k, a)
BY Zenon DEF StrayAt, CommitAt, CellAt

\* From buffers v to w: a flush u of region f; a copy of n bytes at dest into the
\* buffer of f; an erase of the block of f that holds addr.
FlushesTo(v, w, m, u, f, x) == u \in Flush(f, v[f], m) /\ ~Dirty(x) /\ w = [v EXCEPT ![f] = x]

CopiesTo(v, w, im, jm, f, x, dest, n, id) ==
    /\ Content(f, x)
    /\ \A a \in Addr : dest <= a /\ a < dest + n => Due(x, a) = Byte(id, a)
    /\ \A a \in Addr : ~(dest <= a /\ a < dest + n) => Due(x, a) = Due(v[f], a)
    /\ jm = [a \in Addr |-> IF dest <= a /\ a < dest + n THEN Cell(im[a], Byte(id, a)) ELSE im[a]]
    /\ w = [v EXCEPT ![f] = x]

ErasesTo(v, w, m, im, k, jm, e, f, addr, ok) ==
    LET size == Flash[f].blocksize
        first == AlignDown(addr, size)
    IN  /\ InFlash(f, addr)
        /\ k = IF ok THEN EraseBlock(m, first, size) ELSE m
        /\ jm = IF ok THEN EraseBlock(im, first, size) ELSE im
        /\ \A g \in Regions : ~Dirty(w[g]) \/ \A a \in Addr : Due(w[g], a) = Due(v[g], a)
        /\ \A g \in Regions : g = e /\ g # f => ~Dirty(w[g])

\* A flush keeps the device clean of stray data, and what was accepted.
LEMMA FlushKeeps ==
  ASSUME "prepare" \notin Faults, Separate, NEW v, FsInv(v), Contents(v), NEW f \in Regions, NEW m, NEW im,
         NEW u, NEW x, NEW w, FlushesTo(v, w, m, u, f, x)
  PROVE  /\ Contents(w)
         /\ CellsOK(m) => CellsOK(u.mem)
         /\ Stray(v, m, im, 0) => Stray(w, u.mem, im, 0)
         /\ Stray(v, m, im, 0) /\ Commit(v, m, im) /\ u.ok => Commit(w, u.mem, im)
<1>0. u \in Flush(f, v[f], m) /\ ~Dirty(x) /\ w = [v EXCEPT ![f] = x]
  BY Zenon DEF FlushesTo
<1>1. v[f] \in RegionState(f) /\ Window(f, v[f]) /\ Content(f, v[f])
  BY Zenon DEF FsInv, Contents
<1>2. /\ \A a \in Addr : u.mem[a] = m[a] \/ u.mem[a] = Cell(m[a], Due(v[f], a))
      /\ u.ok => \A a \in Addr : u.mem[a] = Cell(m[a], Due(v[f], a))
  BY <1>0, <1>1, FlushData
<1>3. w[f] = x /\ \A g \in Regions : g # f => w[g] = v[g]
  <2>1. v = [g \in Regions |-> v[g]]
    BY Zenon DEF FsInv
  <2> QED BY <1>0, <2>1, Zenon
<1>4. Contents(w)
  <2>1. Content(f, x)
    BY <1>0, Zenon DEF Content
  <2>2. ASSUME NEW g \in Regions PROVE Content(g, w[g])
    BY <1>3, <2>1, Zenon DEF Contents
  <2> QED BY <2>2, Zenon DEF Contents
<1>5. ASSUME NEW a \in Addr
      PROVE  /\ CellAt(m, a) => CellAt(u.mem, a)
             /\ StrayAt(v, m, im, 0, a) => StrayAt(w, u.mem, im, 0, a)
             /\ StrayAt(v, m, im, 0, a) /\ CommitAt(v, m, im, a) /\ u.ok => CommitAt(w, u.mem, im, a)
  <2>1. Due(w[f], a) = Erased
    BY <1>0, <1>3, CleanDue, Zenon
  <2>2. PICK k : k = u.mem
    BY Zenon
  <2>3. k[a] = m[a] \/ k[a] = Cell(m[a], Due(v[f], a))
    BY <1>2, <2>2, Zenon
  <2>4. /\ CellAt(m, a) => CellAt(k, a)
        /\ StrayAt(v, m, im, 0, a) => StrayAt(w, k, im, 0, a)
        /\ StrayAt(v, m, im, 0, a) /\ CommitAt(v, m, im, a) /\ k[a] = Cell(m[a], Due(v[f], a))
             => CommitAt(w, k, im, a)
    <3>1. FlushedAt(v, w, m, k, im, f, a)
      BY <1>3, <2>1, <2>3, Zenon DEF FlushedAt
    <3> QED BY <3>1, FlushAt, Zenon
  <2> QED BY <1>2, <2>2, <2>4, Zenon
<1> QED BY <1>4, <1>5, Zenon DEF CellsOK, Stray, Commit

\* A copy into a buffer keeps both, with the requests carrying one chunk more.
LEMMA CopyKeeps ==
  ASSUME NEW v, FsInv(v), Contents(v), NEW f \in Regions, NEW m, NEW im, NEW jm,
         NEW x, NEW dest, NEW n, NEW id \in 1..MaxOps, NEW w, CopiesTo(v, w, im, jm, f, x, dest, n, id)
  PROVE  /\ Contents(w)
         /\ Stray(v, m, im, 0) => Stray(w, m, jm, 0)
         /\ Stray(v, m, im, 0) /\ Commit(v, m, im) => Commit(w, m, jm)
<1>0. /\ Content(f, x)
      /\ \A a \in Addr : dest <= a /\ a < dest + n => Due(x, a) = Byte(id, a)
      /\ \A a \in Addr : ~(dest <= a /\ a < dest + n) => Due(x, a) = Due(v[f], a)
      /\ jm = [a \in Addr |-> IF dest <= a /\ a < dest + n THEN Cell(im[a], Byte(id, a)) ELSE im[a]]
      /\ w = [v EXCEPT ![f] = x]
  BY Zenon DEF CopiesTo
<1>1. w[f] = x /\ \A g \in Regions : g # f => w[g] = v[g]
  <2>1. v = [g \in Regions |-> v[g]]
    BY Zenon DEF FsInv
  <2> QED BY <1>0, <2>1, Zenon
<1>2. Contents(w)
  <2>1. ASSUME NEW g \in Regions PROVE Content(g, w[g])
    BY <1>0, <1>1, Zenon DEF Contents
  <2> QED BY <2>1, Zenon DEF Contents
<1>3. ASSUME NEW a \in Addr, StrayAt(v, m, im, 0, a)
      PROVE  StrayAt(w, m, jm, 0, a) /\ (CommitAt(v, m, im, a) => CommitAt(w, m, jm, a))
  <2>1. CASE dest <= a /\ a < dest + n
    <3>1. Carried(Byte(id, a), a)
      BY Zenon DEF Carried
    <3>2. Due(w[f], a) = Byte(id, a) /\ jm[a] = Cell(im[a], Byte(id, a))
      BY <1>0, <1>1, <2>1, Zenon
    <3>3. CopiedAt(v, w, m, im, jm, f, a, Byte(id, a))
      BY <1>1, <3>1, <3>2, Zenon DEF CopiedAt
    <3>4. StrayAt(w, m, jm, 0, a) /\ CommitAt(w, m, jm, a)
      BY <1>3, <3>3, CopyAt, Zenon
    <3> QED BY <3>4, Zenon
  <2>2. CASE ~(dest <= a /\ a < dest + n)
    <3>1. jm[a] = im[a]
      BY <1>0, <2>2, Zenon
    <3>2. ASSUME NEW g \in Regions PROVE Due(w[g], a) = Due(v[g], a)
      BY <1>0, <1>1, <2>2, Zenon
    <3> QED BY <1>3, <3>1, <3>2, SameAt, Zenon
  <2> QED BY <2>1, <2>2, Zenon
<1> QED BY <1>2, <1>3, Zenon DEF Stray, Commit

\* An erase of a block of region f, and the buffers given up on the way.
LEMMA EraseKeeps ==
  ASSUME Separate, NEW v, Contents(v), NEW w, NEW m, NEW im, NEW k, NEW jm, NEW e,
         NEW f \in Regions, NEW addr \in Addr, NEW ok, ErasesTo(v, w, m, im, k, jm, e, f, addr, ok)
  PROVE  /\ CellsOK(m) => CellsOK(k)
         /\ Stray(v, m, im, e) => Stray(w, k, jm, f)
         /\ (Commit(v, m, im) /\ ~Dirty(v[f]) /\ \A g \in Regions, a \in Addr : Due(w[g], a) = Due(v[g], a))
              => Commit(w, k, jm)
<1>a. PICK size : size = Flash[f].blocksize
  BY Zenon
<1>b. PICK first : first = AlignDown(addr, size)
  BY Zenon
<1>0. /\ InFlash(f, addr)
      /\ k = IF ok THEN EraseBlock(m, first, size) ELSE m
      /\ jm = IF ok THEN EraseBlock(im, first, size) ELSE im
      /\ \A g \in Regions : ~Dirty(w[g]) \/ \A a \in Addr : Due(w[g], a) = Due(v[g], a)
      /\ \A g \in Regions : g = e /\ g # f => ~Dirty(w[g])
  BY <1>a, <1>b, Zenon DEF ErasesTo
<1>1. ASSUME NEW g \in Regions, NEW a \in Addr
      PROVE  Due(w[g], a) = Due(v[g], a) \/ Due(w[g], a) = Erased
  BY <1>0, CleanDue, Zenon
<1>2. ASSUME NEW g \in Regions, NEW a \in Addr, g = e, g # f PROVE Due(w[g], a) = Erased
  BY <1>0, <1>2, CleanDue, Zenon
<1>3. ASSUME NEW a \in Addr, ok, first <= a, a < first + size
      PROVE  k[a] = Erased /\ jm[a] = Erased /\ \A g \in Regions : g # f => Due(v[g], a) = Erased
  <2>1. k[a] = Erased /\ jm[a] = Erased
    BY <1>0, <1>3, Zenon DEF EraseBlock
  <2>2. ASSUME NEW g \in Regions, g # f PROVE Due(v[g], a) = Erased
    <3>1. ~InFlash(g, a)
      BY <1>0, <1>3, <1>a, <1>b, <2>2, Zenon DEF Separate
    <3> QED BY <3>1, DueIs, Zenon DEF Contents
  <2> QED BY <2>1, <2>2, Zenon
<1>4. ASSUME NEW a \in Addr, ~(ok /\ first <= a /\ a < first + size)
      PROVE  k[a] = m[a] /\ jm[a] = im[a]
  BY <1>0, <1>4, Zenon DEF EraseBlock
<1>5. ASSUME NEW a \in Addr
      PROVE  /\ CellAt(m, a) => CellAt(k, a)
             /\ StrayAt(v, m, im, e, a) => StrayAt(w, k, jm, f, a)
  <2>1. CASE ok /\ first <= a /\ a < first + size
    <3>1. k[a] = Erased /\ jm[a] = Erased
      BY <1>3, <2>1, Zenon
    <3>2. ASSUME NEW g \in Regions, g # f PROVE Due(w[g], a) = Erased
      BY <1>1, <1>3, <2>1, <3>2, Zenon
    <3> QED BY <3>1, <3>2, Distinct, Zenon DEF CellAt, StrayAt
  <2>2. CASE ~(ok /\ first <= a /\ a < first + size)
    <3>1. k[a] = m[a] /\ jm[a] = im[a]
      BY <1>4, <2>2, Zenon
    <3> QED BY <1>1, <1>2, <3>1, Zenon DEF CellAt, StrayAt
  <2> QED BY <2>1, <2>2, Zenon
<1>6. ASSUME NEW a \in Addr, CommitAt(v, m, im, a), ~Dirty(v[f]),
             \A g \in Regions : Due(w[g], a) = Due(v[g], a)
      PROVE  CommitAt(w, k, jm, a)
  <2>1. CASE ok /\ first <= a /\ a < first + size
    <3>1. k[a] = Erased /\ jm[a] = Erased
      BY <1>3, <2>1, Zenon
    <3>2. Due(v[f], a) = Erased
      BY <1>6, CleanDue, Zenon
    <3>3. ASSUME NEW g \in Regions PROVE Due(w[g], a) = Erased
      BY <1>3, <1>6, <2>1, <3>2, Zenon
    <3> QED BY <3>1, <3>3, Zenon DEF CommitAt
  <2>2. CASE ~(ok /\ first <= a /\ a < first + size)
    BY <1>4, <1>6, <2>2, Zenon DEF CommitAt
  <2> QED BY <2>1, <2>2, Zenon
<1>7. CellsOK(m) => CellsOK(k)
  BY <1>5, Zenon DEF CellsOK
<1>8. Stray(v, m, im, e) => Stray(w, k, jm, f)
  BY <1>5, Zenon DEF Stray
<1>9. ASSUME Commit(v, m, im), ~Dirty(v[f]), \A g \in Regions, a \in Addr : Due(w[g], a) = Due(v[g], a)
      PROVE  Commit(w, k, jm)
  <2>1. ASSUME NEW a \in Addr PROVE CommitAt(w, k, jm, a)
    <3>1. CommitAt(v, m, im, a) /\ \A g \in Regions : Due(w[g], a) = Due(v[g], a)
      BY <1>9, Zenon DEF Commit
    <3> QED BY <1>6, <1>9, <3>1, Zenon
  <2> QED BY <2>1, Zenon DEF Commit
<1> QED BY <1>7, <1>8, <1>9, Zenon

---------------------------------------------------------------------------
(* The invariant of the data.                                              *)

\* Regions before the n-th are closed.
Closed(v, n) == \A f \in Regions : f < n => ~v[f].ready /\ ~Dirty(v[f])

Control ==
    /\ call.pc # "idle" => flash_mode
    /\ ~flash_mode => Closed(fs, Len(Flash) + 1)
    /\ call.pc = "complete" => Closed(fs, call.i)
    /\ call.pc = "chunk" => Start(call.active) <= call.addr /\ fs[call.active].buf
    /\ call.pc = "idle" => call.ret

\* The region whose buffer an erase gives up when it is done with it.
Erasing == IF call.pc \in {"erase", "erased"} /\ fs[call.active].ready THEN call.active ELSE 0

\* A request has failed and is about to say so.
Failing == call.pc = "return" /\ ~call.ret

\* Everything in this session went well so far.
Good == flash_mode /\ ~failed /\ ~clobbered /\ call.ret /\ (Erasing = 0 \/ ~Dirty(fs[Erasing]))

DataKept ==
    /\ Contents(fs)
    /\ CellsOK(mem)
    /\ failed \/ Stray(fs, mem, image, Erasing) \/ (Failing /\ Ruined(mem, image))
    /\ Good => Commit(fs, mem, image)

SInv == IInv /\ Control /\ DataKept /\ DoneCommits

\* No region has the number 0.
LEMMA NoZero == ASSUME NEW f \in Regions PROVE f # 0 /\ f \in Nat /\ f < Len(Flash) + 1 /\ Len(Flash) \in Nat
BY FlashAssumption DEF FlashAssumption, Regions

\* Where nothing is stray, only what the requests ruin is ruined.
LEMMA StrayRuined ==
  ASSUME NEW v, NEW m, NEW im, NEW e, Stray(v, m, im, e)
  PROVE  Ruined(m, im)
<1>1. ASSUME NEW a \in Addr, m[a] = Junk PROVE im[a] = Junk
  <2>1. StrayAt(v, m, im, e, a)
    BY Zenon DEF Stray
  <2> QED BY <1>1, <2>1, Zenon DEF StrayAt
<1> QED BY <1>1, Zenon DEF Ruined

\* Leaving out a region asks for less.
LEMMA StrayLess ==
  ASSUME NEW v, NEW m, NEW im, NEW e, Stray(v, m, im, 0)
  PROVE  Stray(v, m, im, e)
<1>1. ASSUME NEW a \in Addr PROVE StrayAt(v, m, im, e, a)
  <2>1. StrayAt(v, m, im, 0, a)
    BY Zenon DEF Stray
  <2> QED BY <2>1, NoZero, Zenon DEF StrayAt
<1> QED BY <1>1, Zenon DEF Stray

\* A device and requests that agree, with nothing waiting.
LEMMA FreshStray ==
  ASSUME NEW v, NEW m, \A f \in Regions : ~Dirty(v[f])
  PROVE  Stray(v, m, m, 0) /\ Commit(v, m, m) /\ Contents(v)
<1>1. ASSUME NEW a \in Addr, NEW f \in Regions PROVE Due(v[f], a) = Erased
  BY CleanDue, Zenon
<1>2. ASSUME NEW a \in Addr PROVE StrayAt(v, m, m, 0, a) /\ CommitAt(v, m, m, a)
  BY <1>1, Zenon DEF StrayAt, CommitAt
<1>3. Contents(v)
  BY Zenon DEF Contents, Content
<1> QED BY <1>2, <1>3, Zenon DEF Stray, Commit

\* The initial state.
LEMMA InitSInv == Init => SInv
<1> SUFFICES ASSUME Init PROVE SInv
  BY Zenon
<1>1. IInv
  BY InitIInv, Zenon
<1>2. ASSUME NEW f \in Regions PROVE ~fs[f].ready /\ ~Dirty(fs[f])
  BY Zenon DEF Init, Dirty
<1>3. call.pc = "idle" /\ call.ret /\ flash_mode = FALSE /\ image = mem /\ reply.kind = "none"
  BY Zenon DEF Init, Idle
<1>4. Control
  BY <1>2, <1>3, Zenon DEF Control, Closed
<1>5. Stray(fs, mem, image, 0) /\ Contents(fs)
  BY <1>2, <1>3, FreshStray, Zenon
<1>6. CellsOK(mem)
  BY Zenon DEF Init, CellsOK, CellAt
<1>7. Erasing = 0
  BY <1>3, Zenon DEF Erasing
<1>8. DataKept
  BY <1>3, <1>5, <1>6, <1>7, Zenon DEF DataKept, Good
<1>9. DoneCommits
  BY <1>3, Zenon DEF DoneCommits
<1> QED BY <1>1, <1>4, <1>8, <1>9, Zenon DEF SInv

\* The requests: a new session starts with a clean record.
LEMMA RequestSInv == SInv /\ IInv' /\ Request => SInv'
<1> SUFFICES ASSUME SInv, IInv', Request PROVE SInv'
  BY Zenon
<1>0. /\ Contents(fs) /\ CellsOK(mem) /\ call.pc = "idle" => call.ret
      /\ IInv /\ Control /\ DataKept /\ DoneCommits
  BY ZenonT(30) DEF SInv, DataKept, Control
<1>1. call.pc = "idle" /\ fs' = fs /\ mem' = mem
  BY Zenon DEF Request, EnterFails, EraseRequest, WriteRequest, DoneRequest
<1>2. Erasing = 0 /\ ~Failing /\ call.ret
  BY <1>0, <1>1, Zenon DEF Erasing, Failing, Control
<1>3. failed \/ Stray(fs, mem, image, 0)
  BY <1>0, <1>2, Zenon DEF DataKept
<1>4. Good <=> flash_mode /\ ~failed /\ ~clobbered
  BY <1>2, Zenon DEF Good
<1>5. CASE \E kind \in {"erase", "erase_range", "write"} : EnterFails(kind)
  <2>1. PICK kind \in {"erase", "erase_range", "write"} : EnterFails(kind)
    BY <1>5, Zenon
  <2>2. reply' = [kind |-> kind, ok |-> FALSE] /\ UNCHANGED <<flash_mode, fs, mem, call, image, failed, clobbered>>
    BY <2>1, Zenon DEF EnterFails
  <2>3. Control' /\ DataKept'
    BY <1>0, <2>2, Zenon DEF Control, DataKept, Good, Failing, Erasing
  <2>4. reply' # [kind |-> "done", ok |-> TRUE]
    BY <2>2, Zenon
  <2>5. DoneCommits'
    BY <2>4, Zenon DEF DoneCommits
  <2> QED BY <2>3, <2>5, Zenon DEF SInv
<1>6. CASE DoneRequest
  <2>1. UNCHANGED <<flash_mode, fs, mem, image, failed, clobbered>>
    BY <1>6, Zenon DEF DoneRequest
  <2>2. CASE ~flash_mode
    <3>1. reply' = [kind |-> "done", ok |-> FALSE] /\ call' = call
      BY <1>6, <2>2, Zenon DEF DoneRequest
    <3>2. Control' /\ DataKept'
      BY <1>0, <2>1, <3>1, Zenon DEF Control, DataKept, Good, Failing, Erasing
    <3>3. reply' # [kind |-> "done", ok |-> TRUE]
      BY <3>1, Zenon
    <3>4. DoneCommits'
      BY <3>3, Zenon DEF DoneCommits
    <3> QED BY <3>2, <3>4, Zenon DEF SInv
  <2>3. CASE flash_mode
    <3>1. call'.pc = "complete" /\ call'.i = 1
      BY <1>6, <2>3, ZenonT(30) DEF DoneRequest, Idle
    <3>2. Erasing' = 0
      BY <3>1, Zenon DEF Erasing
    <3>3. Control'
      BY <1>0, <2>1, <2>3, <3>1, NoZero DEF Control, Closed
    <3>4. DataKept'
      BY <1>0, <1>2, <1>3, <1>4, <2>1, <3>2, Zenon DEF DataKept, Good
    <3>5. DoneCommits'
      BY <3>1, Zenon DEF DoneCommits
    <3> QED BY <3>3, <3>4, <3>5, Zenon DEF SInv
  <2> QED BY <2>2, <2>3, Zenon
<1>7. CASE \/ \E kind \in {"erase", "erase_range"}, r \in Requests : EraseRequest(kind, r)
           \/ \E r \in Requests : WriteRequest(r)
  <2>1. flash_mode' = TRUE /\ NewSession /\ clobbered' = (flash_mode /\ clobbered)
    BY <1>7, ZenonT(30) DEF EraseRequest, WriteRequest
  <2>2. call'.pc \in {"return", "erase", "sweep"}
    BY <1>7, ZenonT(30) DEF EraseRequest, WriteRequest, Idle
  <2>3. Control'
    BY <2>1, <2>2, Zenon DEF Control
  <2>4. DoneCommits'
    BY <2>2, Zenon DEF DoneCommits
  <2>5. ~flash_mode => \A f \in Regions : ~Dirty(fs[f])
    BY <1>0, NoZero, Zenon DEF Control, Closed
  <2>6. /\ failed' \/ Stray(fs, mem, image', 0)
        /\ ~failed' /\ ~clobbered' => Commit(fs, mem, image')
    <3>1. CASE flash_mode
      <4>1. failed' = failed /\ image' = image /\ (clobbered => clobbered')
        BY <2>1, <3>1, Zenon DEF NewSession
      <4> QED BY <1>0, <1>3, <1>4, <3>1, <4>1, Zenon DEF DataKept
    <3>2. CASE ~flash_mode
      <4>1. image' = mem
        BY <2>1, <3>2, Zenon DEF NewSession
      <4> QED BY <2>5, <3>2, <4>1, FreshStray, Zenon
    <3> QED BY <3>1, <3>2, Zenon
  <2>7. failed' \/ Stray(fs', mem', image', Erasing')
    <3>1. Stray(fs, mem, image', 0) => Stray(fs, mem, image', Erasing')
      BY StrayLess, Zenon
    <3> QED BY <1>1, <2>6, <3>1, Zenon
  <2>8. DataKept'
    BY <1>0, <1>1, <2>6, <2>7, Zenon DEF DataKept, Good
  <2> QED BY <2>3, <2>4, <2>8, Zenon DEF SInv
<1> QED BY <1>5, <1>6, <1>7, Zenon DEF Request

\* Preparing a region changes nothing in its buffer.
LEMMA ReadyData ==
  ASSUME NEW f \in Regions, NEW st \in RegionState(f), NEW x, x = [st EXCEPT !.ready = TRUE]
  PROVE  x.ready /\ (Dirty(x) <=> Dirty(st)) /\ (\A a : Due(x, a) = Due(st, a)) /\ (Content(f, st) => Content(f, x))
<1>1. /\ x.ready /\ x.buf = st.buf /\ x.base = st.base /\ x.low = st.low /\ x.high = st.high
      /\ x.bytes = st.bytes
  BY Zenon DEF RegionState
<1>2. Dirty(x) <=> Dirty(st)
  BY <1>1, Zenon DEF Dirty
<1>3. \A a : Due(x, a) = Due(st, a)
  BY <1>1, <1>2 DEF Due
<1> QED BY <1>1, <1>2, <1>3, Zenon DEF Content

\* target_flash_erase, one block.
LEMMA EraseStepSInv ==
  "prepare" \notin Faults /\ Separate /\ SInv /\ IInv' /\ EraseStep => SInv'
<1> SUFFICES ASSUME "prepare" \notin Faults, Separate, SInv, IInv', EraseStep PROVE SInv'
  BY Zenon
<1>0. /\ IInv /\ Control /\ DataKept /\ Contents(fs) /\ CellsOK(mem) /\ FsInv(fs)
      /\ call \in CallState /\ call.pc = "erase" /\ flash_mode /\ call.active \in Regions
  BY Zenon DEF SInv, DataKept, Control, IInv, CallInv, EraseStep
<1>1. flash_mode' = flash_mode /\ failed' = failed
  BY Zenon DEF EraseStep
<1>2. Erasing = (IF fs[call.active].ready THEN call.active ELSE 0) /\ ~Failing
  BY <1>0, Zenon DEF Erasing, Failing
<1>3. failed \/ Stray(fs, mem, image, Erasing)
  BY <1>0, <1>2, Zenon DEF DataKept
<1>4. PICK f : f = target_flash_for_addr(call.addr)
  BY Zenon
<1>5. PICK old : old = call.active
  BY Zenon
<1>6. f \in Nat /\ (f # 0 => f \in Regions /\ InFlash(f, call.addr))
  BY <1>4, ForAddr, Zenon
<1>7. CASE f = 0
  <2>1. call' = [call EXCEPT !.pc = "return", !.ret = FALSE] /\ UNCHANGED <<fs, mem, image>>
    BY <1>4, <1>7, Zenon DEF EraseStep
  <2>2. call'.pc = "return" /\ ~call'.ret
    BY <1>0, <2>1, Zenon DEF CallState
  <2>3. Control' /\ DoneCommits'
    BY <1>0, <1>1, <2>2, Zenon DEF Control, DoneCommits
  <2>4. DataKept'
    BY <1>0, <1>1, <1>3, <2>1, <2>2, StrayRuined, Zenon DEF DataKept, Good, Failing
  <2> QED BY <2>3, <2>4, Zenon DEF SInv
<1>8. CASE f # 0
  <2>0. f \in Regions /\ InFlash(f, call.addr) /\ old \in Regions
    BY <1>0, <1>5, <1>6, <1>8, Zenon
  <2>1. PICK size : size = Flash[f].blocksize
    BY Zenon
  <2>2. PICK first : first = AlignDown(call.addr, size)
    BY Zenon
  <2>3. PICK d \in IF f # old THEN Done(fs[old]) ELSE {[st |-> fs[old], ok |-> TRUE]} :
           /\ clobbered' = (clobbered \/ (f # old /\ fs[old].ready /\ Dirty(fs[old])))
           /\ \E ok \in BOOLEAN :
                /\ fs' = [fs EXCEPT ![old] = d.st, ![f] =
                            [(IF f = old THEN d.st ELSE fs[f]) EXCEPT !.ready = TRUE]]
                /\ mem' = IF ok THEN EraseBlock(mem, first, size) ELSE mem
                /\ image' = IF ok THEN EraseBlock(image, first, size) ELSE image
                /\ call' = IF call.ret /\ d.ok /\ ok
                           THEN Advance([call EXCEPT !.active = f], first, size)
                           ELSE [call EXCEPT !.pc = "erased", !.active = f, !.ret = FALSE]
    BY <1>4, <1>5, <1>8, <2>1, <2>2, Zenon DEF EraseStep
  <2>4. PICK ok \in BOOLEAN :
                /\ fs' = [fs EXCEPT ![old] = d.st, ![f] =
                            [(IF f = old THEN d.st ELSE fs[f]) EXCEPT !.ready = TRUE]]
                /\ mem' = IF ok THEN EraseBlock(mem, first, size) ELSE mem
                /\ image' = IF ok THEN EraseBlock(image, first, size) ELSE image
                /\ call' = IF call.ret /\ d.ok /\ ok
                           THEN Advance([call EXCEPT !.active = f], first, size)
                           ELSE [call EXCEPT !.pc = "erased", !.active = f, !.ret = FALSE]
    BY <2>3, Zenon
  <2>5. call'.pc \in {"erase", "erased"} /\ call'.active = f /\ (call'.ret => call.ret)
    BY <1>0, <2>4, Zenon DEF Advance, CallState
  <2>6. PICK w : w = fs'
    BY Zenon
  <2>7. ASSUME NEW g \in Regions PROVE fs[g] \in RegionState(g) /\ Content(g, fs[g])
    BY <1>0, Zenon DEF FsInv, Contents
  <2>8. PICK y : y = IF f = old THEN d.st ELSE fs[f]
    BY Zenon
  <2>9. y = fs[f]
    BY <2>3, <2>8
  <2>10. /\ w[f] = [fs[f] EXCEPT !.ready = TRUE]
         /\ f # old => w[old] = d.st
         /\ \A g \in Regions : g # f /\ g # old => w[g] = fs[g]
    <3>1. fs = [g \in Regions |-> fs[g]]
      BY <1>0, Zenon DEF FsInv
    <3>2. w = [fs EXCEPT ![old] = d.st, ![f] = [fs[f] EXCEPT !.ready = TRUE]]
      BY <2>4, <2>6, <2>8, <2>9, Zenon
    <3> HIDE DEF FsInv
    <3> QED BY <2>0, <3>1, <3>2, Zenon
  <2>11. /\ w[f].ready /\ (Dirty(w[f]) <=> Dirty(fs[f])) /\ (\A a : Due(w[f], a) = Due(fs[f], a))
         /\ Content(f, w[f])
    BY <2>0, <2>7, <2>10, ReadyData
  <2>12. f # old => /\ ~fs[old].ready => w[old] = fs[old]
                    /\ fs[old].ready => ~Dirty(w[old])
                    /\ ~Dirty(fs[old]) => ~Dirty(w[old])
    <3> SUFFICES ASSUME f # old
                 PROVE  /\ ~fs[old].ready => d.st = fs[old]
                        /\ fs[old].ready => ~Dirty(d.st)
                        /\ ~Dirty(fs[old]) => ~Dirty(d.st)
      BY <2>10, Zenon
    <3>1. d \in Done(fs[old])
      BY <2>3, Zenon
    <3>2. fs[old] \in RegionState(old)
      BY <2>0, <2>7, Zenon
    <3> QED BY <2>0, <3>1, <3>2, DoneData, Zenon
  <2>13. ASSUME NEW g \in Regions PROVE w[g] = fs[g] \/ ~Dirty(w[g]) \/ g = f
    BY <2>10, <2>12, Zenon
  <2>14. Contents(w)
    <3>1. ASSUME NEW g \in Regions PROVE Content(g, w[g])
      <4>1. CASE ~Dirty(w[g])
        BY <4>1, Zenon DEF Content
      <4>2. CASE w[g] = fs[g]
        BY <2>7, <4>2, Zenon
      <4> QED BY <2>11, <2>13, <4>1, <4>2, Zenon
    <3> QED BY <3>1, Zenon DEF Contents
  <2>15. call.addr \in Addr
    BY <1>0, <2>0, RegionFields DEF CallState, InFlash, Addr
  <2>16. ErasesTo(fs, w, mem, image, mem', image', Erasing, f, call.addr, ok)
    <3>1. ASSUME NEW g \in Regions
          PROVE  ~Dirty(w[g]) \/ \A a \in Addr : Due(w[g], a) = Due(fs[g], a)
      BY <2>11, <2>13, Zenon
    <3>2. ASSUME NEW g \in Regions, g = Erasing, g # f PROVE ~Dirty(w[g])
      BY <1>2, <1>5, <2>12, <3>2, NoZero, Zenon
    <3> QED BY <2>0, <2>1, <2>2, <2>4, <3>1, <3>2, Zenon DEF ErasesTo
  <2>17. Erasing' = f
    BY <2>5, <2>6, <2>11, Zenon DEF Erasing
  <2>18. PICK k, jm : k = mem' /\ jm = image'
    BY Zenon
  <2>19. PICK e : e = Erasing
    BY Zenon
  <2>20. ErasesTo(fs, w, mem, image, k, jm, e, f, call.addr, ok)
    BY <2>16, <2>18, <2>19, Zenon
  <2>21. /\ CellsOK(mem) => CellsOK(k)
         /\ Stray(fs, mem, image, e) => Stray(w, k, jm, f)
         /\ (Commit(fs, mem, image) /\ ~Dirty(fs[f]) /\ \A g \in Regions, a \in Addr : Due(w[g], a) = Due(fs[g], a))
              => Commit(w, k, jm)
    <3>1. PICK adr \in Addr : adr = call.addr
      BY <2>15, Zenon
    <3>2. Contents(fs) /\ f \in Regions /\ ErasesTo(fs, w, mem, image, k, jm, e, f, adr, ok)
      BY <1>0, <2>0, <2>20, <3>1, Zenon
    <3> QED BY <3>2, EraseKeeps, Zenon
  <2>22. ASSUME Good' PROVE Commit(w, k, jm)
    <3>1. ~failed /\ ~clobbered' /\ call.ret /\ ~Dirty(w[f])
      BY <1>1, <2>0, <2>5, <2>6, <2>17, <2>22, NoZero, ZenonT(60) DEF Good
    <3>2. ~clobbered /\ ~(f # old /\ fs[old].ready /\ Dirty(fs[old])) /\ ~Dirty(fs[f])
      BY <2>3, <2>11, <3>1, Zenon
    <3>3. Good
      BY <1>0, <1>2, <1>5, <3>1, <3>2, Zenon DEF Good
    <3>4. ASSUME NEW g \in Regions, NEW a \in Addr PROVE Due(w[g], a) = Due(fs[g], a)
      <4>1. CASE g = f
        BY <2>11, <4>1, Zenon
      <4>2. CASE g = old /\ g # f
        <5>1. w[g] = fs[g] \/ (~Dirty(w[g]) /\ ~Dirty(fs[g]))
          BY <2>12, <3>2, <4>2, Zenon
        <5> QED BY <5>1, CleanDue, Zenon
      <4>3. CASE g # f /\ g # old
        BY <2>10, <4>3, Zenon
      <4> QED BY <4>1, <4>2, <4>3, Zenon
    <3>5. Commit(fs, mem, image)
      BY <1>0, <3>3, Zenon DEF DataKept
    <3> QED BY <2>21, <3>2, <3>4, <3>5, Zenon
  <2>23. DataKept'
    BY <1>0, <1>1, <1>3, <2>6, <2>14, <2>17, <2>18, <2>19, <2>21, <2>22, ZenonT(30) DEF DataKept
  <2>24. Control' /\ DoneCommits'
    BY <1>0, <1>1, <2>5, Zenon DEF Control, DoneCommits
  <2> QED BY <2>23, <2>24, Zenon DEF SInv
<1> QED BY <1>7, <1>8, Zenon

\* The flash_done after the loop of target_flash_erase.
LEMMA EraseFinishSInv == SInv /\ IInv' /\ EraseFinish => SInv'
<1> SUFFICES ASSUME SInv, IInv', EraseFinish PROVE SInv'
  BY Zenon
<1>0. /\ IInv /\ Control /\ DataKept /\ Contents(fs) /\ CellsOK(mem) /\ FsInv(fs)
      /\ call \in CallState /\ call.pc \in {"erase", "erased"} /\ flash_mode /\ call.active \in Regions
  BY Zenon DEF SInv, DataKept, Control, IInv, CallInv, EraseFinish
<1>1. /\ UNCHANGED <<flash_mode, mem, image, failed>>
      /\ clobbered' = (clobbered \/ (fs[call.active].ready /\ Dirty(fs[call.active])))
  BY Zenon DEF EraseFinish
<1>2. Erasing = (IF fs[call.active].ready THEN call.active ELSE 0) /\ ~Failing
  BY <1>0, Zenon DEF Erasing, Failing
<1>3. failed \/ Stray(fs, mem, image, Erasing)
  BY <1>0, <1>2, Zenon DEF DataKept
<1>4. PICK o : o = call.active
  BY ZenonT(30)
<1>5. PICK d \in Done(fs[o]) :
         /\ fs' = [fs EXCEPT ![o] = d.st]
         /\ call' = [call EXCEPT !.pc = "return", !.ret = call.ret /\ d.ok]
  BY <1>4, Zenon DEF EraseFinish
<1>6. call'.pc = "return" /\ (call'.ret => call.ret)
  BY <1>0, <1>5, Zenon DEF CallState
<1>7. PICK w : w = fs'
  BY Zenon
<1>8. o \in Regions /\ fs[o] \in RegionState(o) /\ w[o] = d.st /\ \A g \in Regions : g # o => w[g] = fs[g]
  <2>1. fs = [g \in Regions |-> fs[g]] /\ o \in Regions /\ fs[o] \in RegionState(o)
    BY <1>0, <1>4, Zenon DEF FsInv
  <2> QED BY <1>5, <1>7, <2>1, Zenon
<1>9. /\ ~fs[o].ready => w[o] = fs[o]
      /\ fs[o].ready => ~Dirty(w[o])
      /\ ~Dirty(fs[o]) => ~Dirty(w[o])
  BY <1>5, <1>8, DoneData, Zenon
<1>10. Contents(w)
  <2>1. ASSUME NEW g \in Regions PROVE Content(g, w[g])
    <3>1. Content(g, fs[g])
      BY <1>0, Zenon DEF Contents
    <3>2. CASE ~Dirty(w[g])
      BY <3>2, Zenon DEF Content
    <3> QED BY <1>8, <1>9, <3>1, <3>2, Zenon
  <2> QED BY <2>1, Zenon DEF Contents
<1>11. Erasing' = 0
  BY <1>6, Zenon DEF Erasing
<1>12. Stray(fs, mem, image, Erasing) => Stray(w, mem, image, 0)
  <2>1. ASSUME NEW a \in Addr, StrayAt(fs, mem, image, Erasing, a) PROVE StrayAt(w, mem, image, 0, a)
    <3>1. ASSUME NEW g \in Regions, Due(w[g], a) # Erased
          PROVE  g # Erasing /\ Due(w[g], a) = Due(fs[g], a)
      <4>1. Dirty(w[g])
        BY <3>1, CleanDue, Zenon
      <4>2. w[g] = fs[g] /\ g # Erasing
        BY <1>2, <1>4, <1>8, <1>9, <4>1, NoZero, Zenon
      <4> QED BY <4>2, Zenon
    <3> QED BY <2>1, <3>1, Zenon DEF StrayAt
  <2> QED BY <2>1, Zenon DEF Stray
<1>13. ASSUME Good' PROVE Commit(w, mem, image)
  <2>1. ~failed /\ ~clobbered' /\ call.ret
    BY <1>1, <1>6, <1>13, Zenon DEF Good
  <2>2. ~clobbered /\ ~(fs[o].ready /\ Dirty(fs[o]))
    BY <1>1, <1>4, <2>1, Zenon
  <2>3. Good
    BY <1>0, <1>2, <1>4, <2>1, <2>2, Zenon DEF Good
  <2>4. Commit(fs, mem, image)
    BY <1>0, <2>3, Zenon DEF DataKept
  <2>5. ASSUME NEW a \in Addr PROVE CommitAt(w, mem, image, a)
    <3>1. CommitAt(fs, mem, image, a)
      BY <2>4, Zenon DEF Commit
    <3>2. ASSUME NEW g \in Regions PROVE Due(w[g], a) = Due(fs[g], a)
      <4>1. w[g] = fs[g] \/ (~Dirty(w[g]) /\ ~Dirty(fs[g]))
        BY <1>8, <1>9, <2>2, Zenon
      <4> QED BY <4>1, CleanDue, Zenon
    <3> QED BY <3>1, <3>2, Zenon DEF CommitAt
  <2> QED BY <2>5, Zenon DEF Commit
<1>14. DataKept'
  BY <1>0, <1>1, <1>3, <1>7, <1>10, <1>11, <1>12, <1>13, Zenon DEF DataKept
<1>15. Control' /\ DoneCommits'
  BY <1>0, <1>1, <1>6, Zenon DEF Control, DoneCommits
<1> QED BY <1>14, <1>15, Zenon DEF SInv

\* A region that is flushed and closed, by the sweep, by a change of region or by
\* target_flash_complete.
LEMMA FlushDoneData ==
  ASSUME "prepare" \notin Faults, Separate, IInv, Contents(fs), NEW f \in Regions,
         NEW u \in Flush(f, fs[f], mem), NEW d \in Done(u.st), NEW w, w = [fs EXCEPT ![f] = d.st]
  PROVE  /\ Contents(w)
         /\ CellsOK(mem) => CellsOK(u.mem)
         /\ \A im : Stray(fs, mem, im, 0) => Stray(w, u.mem, im, 0)
         /\ \A im : Stray(fs, mem, im, 0) /\ Commit(fs, mem, im) /\ u.ok => Commit(w, u.mem, im)
         /\ ~Dirty(d.st) /\ ~d.st.ready
<1>1. /\ fs[f] \in RegionState(f) /\ Window(f, fs[f]) /\ mem \in [Addr -> Bytes] /\ FsInv(fs)
      /\ Content(f, fs[f])
  BY Zenon DEF IInv, FsInv, DataInv, Contents
<1>2. u.st \in RegionState(f)
  BY <1>1, FlushFacts, Zenon
<1>3. ~Dirty(u.st)
  BY <1>1, FlushData, Zenon
<1>4. ~Dirty(d.st) /\ ~d.st.ready
  BY <1>2, <1>3, DoneData, Zenon
<1>5. FlushesTo(fs, w, mem, u, f, d.st)
  BY <1>4, Zenon DEF FlushesTo
<1>6. PICK x : x = d.st
  BY Zenon
<1>7. FlushesTo(fs, w, mem, u, f, x)
  BY <1>5, <1>6, ZenonT(60)
<1>8. ASSUME NEW im
      PROVE  /\ Contents(w)
             /\ CellsOK(mem) => CellsOK(u.mem)
             /\ Stray(fs, mem, im, 0) => Stray(w, u.mem, im, 0)
             /\ Stray(fs, mem, im, 0) /\ Commit(fs, mem, im) /\ u.ok => Commit(w, u.mem, im)
  BY <1>1, <1>7, FlushKeeps
<1> QED BY <1>4, <1>8, Zenon

\* The sweep of target_flash_write, and target_flash_complete, one region.
LEMMA LoopSInv ==
  "prepare" \notin Faults /\ Separate /\ SInv /\ IInv' /\ (SweepStep \/ CompleteStep) => SInv'
<1> SUFFICES ASSUME "prepare" \notin Faults, Separate, SInv, IInv', SweepStep \/ CompleteStep PROVE SInv'
  BY Zenon
<1>0. /\ IInv /\ Control /\ DataKept /\ Contents(fs) /\ CellsOK(mem) /\ FsInv(fs)
      /\ call \in CallState /\ call.pc \in {"sweep", "complete"} /\ flash_mode
      /\ call.i \in Nat /\ call.i > 0 /\ call.i <= Len(Flash) /\ Len(Flash) \in Nat
      /\ UNCHANGED <<flash_mode, image, failed, clobbered>>
  <2>1. /\ call.pc \in {"sweep", "complete"} /\ call.i <= Len(Flash)
        /\ UNCHANGED <<flash_mode, image, failed, clobbered>>
    BY Zenon DEF SweepStep, CompleteStep
  <2>2. IInv /\ Control /\ DataKept /\ Contents(fs) /\ CellsOK(mem) /\ FsInv(fs) /\ call \in CallState /\ CallInv
    BY Zenon DEF SInv, DataKept, IInv
  <2>3. flash_mode /\ call.i > 0
    BY <2>1, <2>2, ZenonT(60) DEF Control, CallInv
  <2>4. call.i \in Nat /\ Len(Flash) \in Nat
    BY <2>2, FlashAssumption DEF CallState, FlashAssumption
  <2> QED BY <2>1, <2>2, <2>3, <2>4, ZenonT(30)
<1>1. PICK f : f = call.i
  BY Zenon
<1>2. f \in Regions
  BY <1>0, <1>1 DEF Regions
<1>3. Erasing = 0 /\ ~Failing
  BY <1>0, Zenon DEF Erasing, Failing
<1>4. failed \/ Stray(fs, mem, image, 0)
  BY <1>0, <1>3, Zenon DEF DataKept
<1>5. CASE SweepStep /\ (InFlash(f, call.addr) \/ ~fs[f].buf)
  <2>1. fs' = fs /\ mem' = mem /\ call'.pc = "sweep" /\ call'.ret = call.ret
    BY <1>0, <1>1, <1>5, Zenon DEF SweepStep, CallState
  <2>2. Control' /\ DoneCommits'
    BY <1>0, <2>1, Zenon DEF Control, DoneCommits
  <2>3. Erasing' = 0
    BY <2>1, Zenon DEF Erasing
  <2>4. DataKept'
    BY <1>0, <1>3, <1>4, <2>1, <2>3, Zenon DEF DataKept, Good
  <2> QED BY <2>2, <2>4, ZenonT(30) DEF SInv
<1>6. CASE CompleteStep \/ (SweepStep /\ ~InFlash(f, call.addr) /\ fs[f].buf)
  <2>1. PICK u \in Flush(f, fs[f], mem) : \E d \in Done(u.st) :
           /\ fs' = [fs EXCEPT ![f] = d.st]
           /\ mem' = u.mem
           /\ call' = [call EXCEPT !.i = f + 1, !.ret = call.ret /\ u.ok /\ d.ok]
    BY <1>1, <1>6, ZenonT(30) DEF CompleteStep, SweepStep
  <2>2. PICK d \in Done(u.st) :
           /\ fs' = [fs EXCEPT ![f] = d.st]
           /\ mem' = u.mem
           /\ call' = [call EXCEPT !.i = f + 1, !.ret = call.ret /\ u.ok /\ d.ok]
    BY <2>1, Zenon
  <2>3. PICK w : w = fs'
    BY Zenon
  <2>4. w = [fs EXCEPT ![f] = d.st]
    BY <2>2, <2>3, Zenon
  <2>5. /\ Contents(w)
        /\ CellsOK(mem) => CellsOK(u.mem)
        /\ \A im : Stray(fs, mem, im, 0) => Stray(w, u.mem, im, 0)
        /\ \A im : Stray(fs, mem, im, 0) /\ Commit(fs, mem, im) /\ u.ok => Commit(w, u.mem, im)
        /\ ~Dirty(d.st) /\ ~d.st.ready
    BY <1>0, <1>2, <2>4, FlushDoneData, Zenon
  <2>6. call'.pc = call.pc /\ call'.i = f + 1 /\ (call'.ret => call.ret /\ u.ok)
    BY <1>0, <2>2, Zenon DEF CallState
  <2>7. Erasing' = 0
    BY <1>0, <2>6, Zenon DEF Erasing
  <2>8. ASSUME Good' PROVE Commit(w, u.mem, image)
    <3>1. flash_mode /\ ~failed /\ ~clobbered /\ call.ret /\ u.ok
      BY <1>0, <2>6, <2>8, Zenon DEF Good
    <3>2. Good
      BY <1>3, <3>1, Zenon DEF Good
    <3> QED BY <1>0, <1>4, <2>5, <3>1, <3>2, Zenon DEF DataKept
  <2>9. DataKept'
    BY <1>0, <1>4, <2>2, <2>3, <2>5, <2>7, <2>8, ZenonT(60) DEF DataKept
  <2>10. call.pc = "complete" => Closed(w, f + 1)
    <3> SUFFICES ASSUME call.pc = "complete", NEW g \in Regions, g < f + 1
                 PROVE  ~w[g].ready /\ ~Dirty(w[g])
      BY Zenon DEF Closed
    <3>1. fs = [h \in Regions |-> fs[h]]
      BY <1>0, Zenon DEF FsInv
    <3>2. CASE g = f
      <4>1. w[g] = d.st
        BY <1>2, <2>4, <3>1, <3>2, Zenon
      <4> QED BY <2>5, <4>1, Zenon
    <3>3. CASE g # f
      <4>1. w[g] = fs[g]
        BY <1>2, <2>4, <3>1, <3>3, Zenon
      <4>2. g < call.i
        BY <1>1, <1>2, <3>3, NoZero, SMTT(60)
      <4> QED BY <1>0, <4>1, <4>2, Zenon DEF Control, Closed
    <3> QED BY <3>2, <3>3, Zenon
  <2>11. Control' /\ DoneCommits'
    BY <1>0, <2>3, <2>6, <2>10, Zenon DEF Control, DoneCommits
  <2> QED BY <2>9, <2>11, ZenonT(30) DEF SInv
<1> QED BY <1>1, <1>5, <1>6, Zenon

\* The ends of the loops, and the answers.
LEMMA EndSInv ==
  SInv /\ IInv' /\ (SweepFinish \/ WriteFinish \/ Return \/ CompleteFinish) => SInv'
<1> SUFFICES ASSUME SInv, IInv', SweepFinish \/ WriteFinish \/ Return \/ CompleteFinish PROVE SInv'
  BY Zenon
<1>0. /\ IInv /\ Control /\ DataKept /\ Contents(fs) /\ CellsOK(mem)
      /\ call \in CallState /\ call.pc \in {"sweep", "write", "return", "complete"} /\ flash_mode
      /\ UNCHANGED <<fs, mem, image, clobbered>>
  BY Zenon DEF SInv, DataKept, Control, IInv, SweepFinish, WriteFinish, Return, CompleteFinish
<1>1. Erasing = 0
  BY <1>0, Zenon DEF Erasing
<1>2. Good <=> ~failed /\ ~clobbered /\ call.ret
  BY <1>0, <1>1, Zenon DEF Good
<1>3. CASE SweepFinish \/ WriteFinish
  <2>1. UNCHANGED <<flash_mode, failed>> /\ call.pc \in {"sweep", "write"}
    BY <1>3, Zenon DEF SweepFinish, WriteFinish
  <2>2. call'.pc \in {"write", "return"} /\ (call'.ret => call.ret)
    BY <1>0, <1>3, Zenon DEF SweepFinish, WriteFinish, CallState
  <2>3. Erasing' = 0
    BY <2>2, Zenon DEF Erasing
  <2>4. DataKept'
    BY <1>0, <1>1, <1>2, <2>1, <2>2, <2>3, Zenon DEF DataKept, Good, Failing
  <2>5. Control' /\ DoneCommits'
    BY <1>0, <2>1, <2>2, Zenon DEF Control, DoneCommits
  <2> QED BY <2>4, <2>5, Zenon DEF SInv
<1>4. CASE Return
  <2>1. call.pc = "return" /\ flash_mode' = flash_mode /\ failed' = (failed \/ ~call.ret)
    BY <1>4, Zenon DEF Return
  <2>2. \/ call'.pc = "idle" /\ call'.ret
        \/ call'.pc = "complete" /\ ~call'.ret /\ call'.i = 1
    <3>1. CASE call' = Idle
      BY <3>1, Zenon DEF Idle
    <3>2. CASE call' = [Idle EXCEPT !.pc = "complete", !.kind = call.kind, !.ret = FALSE]
      <4>1. call' = [pc |-> "complete", kind |-> call.kind, addr |-> 0, len |-> 0, id |-> 0,
                     active |-> 0, i |-> 1, part |-> 0, ret |-> FALSE]
        BY <3>2, Zenon DEF Idle
      <4> QED BY <4>1, Zenon
    <3> QED BY <1>4, <3>1, <3>2, Zenon DEF Return
  <2>3. Erasing' = 0
    BY <2>2, Zenon DEF Erasing
  <2>4. failed' <=> failed \/ ~call.ret
    BY <2>1, Zenon
  <2>5. failed' \/ Stray(fs, mem, image, 0)
    BY <1>0, <1>1, <2>4, Zenon DEF DataKept, Failing
  <2>6. DataKept'
    BY <1>0, <1>2, <2>1, <2>3, <2>4, <2>5, Zenon DEF DataKept, Good
  <2>7. Control'
    <3>1. Closed(fs, 1)
      BY NoZero DEF Closed, Regions
    <3> QED BY <1>0, <2>1, <2>2, <3>1, Zenon DEF Control
  <2>8. DoneCommits'
    BY <1>0, <2>1, Zenon DEF DoneCommits
  <2> QED BY <2>6, <2>7, <2>8, Zenon DEF SInv
<1>5. CASE CompleteFinish
  <2>1. /\ call.pc = "complete" /\ call.i > Len(Flash) /\ flash_mode' = FALSE /\ call' = Idle
        /\ reply' = [kind |-> call.kind, ok |-> call.ret] /\ failed' = failed
    BY <1>5, Zenon DEF CompleteFinish
  <2>2. call'.pc = "idle" /\ call'.ret
    BY <2>1, Zenon DEF Idle
  <2>3. ASSUME NEW f \in Regions PROVE ~fs[f].ready /\ ~Dirty(fs[f])
    <3>1. f < call.i
      BY <1>0, <2>1, NoZero DEF CallState
    <3> QED BY <1>0, <2>1, <3>1, ZenonT(60) DEF Control, Closed
  <2>4. Control'
    BY <1>0, <2>1, <2>2, <2>3, Zenon DEF Control, Closed
  <2>5. Erasing' = 0
    BY <2>2, Zenon DEF Erasing
  <2>6. DataKept'
    BY <1>0, <1>1, <2>1, <2>5, Zenon DEF DataKept, Good, Failing
  <2>7. DoneCommits'
    <3> SUFFICES ASSUME reply' = [kind |-> "done", ok |-> TRUE], ~failed, ~clobbered, NEW a \in Addr
                 PROVE  image[a] \in {Junk, mem[a]}
      BY <1>0, <2>1, ZenonT(60) DEF DoneCommits
    <3>1. call.ret
      BY <1>0, <2>1 DEF CallState
    <3>2. Commit(fs, mem, image)
      BY <1>0, <1>2, <3>1, Zenon DEF DataKept
    <3>3. CommitAt(fs, mem, image, a)
      BY <3>2, Zenon DEF Commit
    <3>4. ASSUME NEW f \in Regions PROVE Due(fs[f], a) = Erased
      BY <2>3, CleanDue, Zenon
    <3> QED BY <3>3, <3>4, Zenon DEF CommitAt
  <2> QED BY <2>4, <2>6, <2>7, Zenon DEF SInv
<1> QED BY <1>3, <1>4, <1>5, Zenon

AllocsTo(v, w, n, f) == n \in Alloc(v[f]) /\ w = [v EXCEPT ![f] = n.st]

\* A region that gets a buffer.
LEMMA AllocKeeps ==
  ASSUME NEW v, FsInv(v), Contents(v), NEW f \in Regions, NEW n, NEW w, AllocsTo(v, w, n, f)
  PROVE  /\ Contents(w)
         /\ \A m, im : Stray(v, m, im, 0) => Stray(w, m, im, 0)
         /\ \A m, im : Commit(v, m, im) => Commit(w, m, im)
<1>1. v = [g \in Regions |-> v[g]] /\ v[f] \in RegionState(f)
  BY Zenon DEF FsInv
<1>a. n \in Alloc(v[f]) /\ w = [v EXCEPT ![f] = n.st]
  BY Zenon DEF AllocsTo
<1>2. w[f] = n.st /\ \A g \in Regions : g # f => w[g] = v[g]
  BY <1>1, <1>a, Zenon
<1>3. n.st = v[f] \/ (~Dirty(v[f]) /\ ~Dirty(n.st))
  BY <1>1, <1>a, AllocData, Zenon
<1>4. ASSUME NEW g \in Regions PROVE w[g] = v[g] \/ (~Dirty(v[g]) /\ ~Dirty(w[g]))
  BY <1>2, <1>3, Zenon
<1>5. ASSUME NEW g \in Regions, NEW a \in Addr PROVE Due(w[g], a) = Due(v[g], a)
  BY <1>4, CleanDue, Zenon
<1>6. Contents(w)
  <2>1. ASSUME NEW g \in Regions PROVE Content(g, w[g])
    <3>1. CASE ~Dirty(w[g])
      BY <3>1, Zenon DEF Content
    <3>2. CASE w[g] = v[g]
      BY <3>2, Zenon DEF Contents
    <3> QED BY <1>4, <3>1, <3>2, Zenon
  <2> QED BY <2>1, Zenon DEF Contents
<1>7. ASSUME NEW m, NEW im, Stray(v, m, im, 0) PROVE Stray(w, m, im, 0)
  BY <1>5, <1>7, Zenon DEF Stray, StrayAt
<1>8. ASSUME NEW m, NEW im, Commit(v, m, im) PROVE Commit(w, m, im)
  BY <1>5, <1>8, Zenon DEF Commit, CommitAt
<1> QED BY <1>6, <1>7, <1>8, Zenon

\* The second loop of target_flash_write, up to flash_buffered_write.
LEMMA WriteStepSInv ==
  "prepare" \notin Faults /\ Separate /\ SInv /\ IInv' /\ WriteStep => SInv'
<1> SUFFICES ASSUME "prepare" \notin Faults, Separate, SInv, IInv', WriteStep PROVE SInv'
  BY Zenon
<1>0. /\ IInv /\ Control /\ DataKept /\ Contents(fs) /\ CellsOK(mem) /\ FsInv(fs)
      /\ call \in CallState /\ call.pc = "write" /\ flash_mode /\ call.active \in Regions
      /\ UNCHANGED <<flash_mode, image, failed, clobbered>>
  BY Zenon DEF SInv, DataKept, Control, IInv, CallInv, WriteStep
<1>1. Erasing = 0 /\ ~Failing
  BY <1>0, Zenon DEF Erasing, Failing
<1>2. failed \/ Stray(fs, mem, image, 0)
  BY <1>0, <1>1, Zenon DEF DataKept
<1>3. PICK f : f = target_flash_for_addr(call.addr)
  BY Zenon
<1>4. PICK old : old = call.active
  BY Zenon
<1>5. f \in Nat /\ (f # 0 => f \in Regions /\ InFlash(f, call.addr)) /\ old \in Regions
  BY <1>0, <1>3, <1>4, ForAddr, Zenon
<1>6. CASE f = 0
  <2>1. call' = [call EXCEPT !.pc = "return", !.ret = FALSE] /\ UNCHANGED <<fs, mem>>
    BY <1>3, <1>6, Zenon DEF WriteStep
  <2>2. call'.pc = "return" /\ ~call'.ret
    BY <1>0, <2>1, Zenon DEF CallState
  <2>3. Erasing' = 0
    BY <2>2, Zenon DEF Erasing
  <2>4. DataKept'
    BY <1>0, <1>2, <2>1, <2>2, <2>3, Zenon DEF DataKept, Good
  <2>5. Control' /\ DoneCommits'
    BY <1>0, <2>2, Zenon DEF Control, DoneCommits
  <2> QED BY <2>4, <2>5, Zenon DEF SInv
<1>7. CASE f # 0
  <2> DEFINE D(u) == IF f # old THEN Done(u.st) ELSE {[st |-> u.st, ok |-> TRUE]}
             A(d) == Alloc(IF f = old THEN d.st ELSE fs[f])
             part == MinOf(call.addr + call.len, End(f)) - call.addr
             R(u, d, n) ==
               /\ fs' = [fs EXCEPT ![old] = d.st, ![f] = n.st]
               /\ mem' = u.mem
               /\ call' = IF call.ret /\ u.ok /\ d.ok /\ n.ok
                          THEN [call EXCEPT !.pc = "chunk", !.active = f, !.part = part]
                          ELSE [call EXCEPT !.pc = "return", !.ret = FALSE]
  <2>1. PICK u \in IF f # old THEN Flush(old, fs[old], mem)
                   ELSE {[st |-> fs[old], mem |-> mem, ok |-> TRUE]} :
             \E d \in D(u) : \E n \in A(d) : R(u, d, n)
    BY <1>3, <1>4, <1>7, SMTT(60) DEF WriteStep
  <2>2. PICK d \in D(u) : \E n \in A(d) : R(u, d, n)
    BY <2>1, Zenon
  <2>3. PICK n \in A(d) : R(u, d, n)
    BY <2>2, Zenon
  <2>4. f \in Regions /\ InFlash(f, call.addr) /\ old \in Regions
    BY <1>5, <1>7, Zenon
  <2>5. PICK v : v = [fs EXCEPT ![old] = d.st]
    BY ZenonT(30)
  <2>6. PICK w : w = fs'
    BY Zenon
  <2>7. fs = [g \in Regions |-> fs[g]] /\ fs[old] \in RegionState(old) /\ Window(old, fs[old])
    BY <1>0, <2>4, Zenon DEF FsInv
  <2>8. w = [v EXCEPT ![f] = n.st]
    BY <2>3, <2>5, <2>6, Zenon
  <2> DEFINE G == /\ Contents(v) /\ CellsOK(u.mem) /\ FsInv(v)
                  /\ \A im : Stray(fs, mem, im, 0) => Stray(v, u.mem, im, 0)
                  /\ \A im : Stray(fs, mem, im, 0) /\ Commit(fs, mem, im) /\ u.ok => Commit(v, u.mem, im)
  <2>g. G
    <3>1. CASE f # old
      <4>1. u \in Flush(old, fs[old], mem) /\ d \in Done(u.st)
        BY <2>1, <2>2, <3>1, ZenonT(30)
      <4>2. d.st \in RegionState(old) /\ Window(old, d.st)
        BY <1>0, <2>4, <4>1, FlushDoneFacts, Zenon
      <4>3. FsInv(v)
        BY <1>0, <2>4, <2>5, <4>2, FsUpdate, ZenonT(60)
      <4>4. /\ Contents(v)
            /\ CellsOK(mem) => CellsOK(u.mem)
            /\ \A im : Stray(fs, mem, im, 0) => Stray(v, u.mem, im, 0)
            /\ \A im : Stray(fs, mem, im, 0) /\ Commit(fs, mem, im) /\ u.ok => Commit(v, u.mem, im)
        BY <1>0, <2>4, <2>5, <4>1, FlushDoneData, Zenon
      <4> QED BY <1>0, <4>3, <4>4, Zenon DEF G
    <3>2. CASE f = old
      <4>1. u.st = fs[old] /\ u.mem = mem /\ d.st = u.st
        BY <2>1, <2>2, <3>2
      <4>2. v = fs
        BY <2>4, <2>5, <2>7, <4>1, Zenon
      <4> QED BY <1>0, <4>1, <4>2, Zenon DEF G
    <3> HIDE DEF G
    <3> QED BY <3>1, <3>2, Zenon
  <2>9. /\ Contents(v) /\ CellsOK(u.mem) /\ FsInv(v)
        /\ \A im : Stray(fs, mem, im, 0) => Stray(v, u.mem, im, 0)
        /\ \A im : Stray(fs, mem, im, 0) /\ Commit(fs, mem, im) /\ u.ok => Commit(v, u.mem, im)
    BY <2>g, Zenon DEF G
  <2> HIDE DEF G
  <2>10. n \in Alloc(v[f])
    <3>1. v[f] = IF f = old THEN d.st ELSE fs[f]
      BY <2>4, <2>5, <2>7, Zenon
    <3> QED BY <2>3, <3>1, Zenon
  <2>11. v[f] \in RegionState(f) /\ w[f] = n.st
    <3>1. v = [g \in Regions |-> v[g]] /\ v[f] \in RegionState(f)
      BY <2>4, <2>9, Zenon DEF FsInv
    <3> QED BY <2>4, <2>8, <3>1, Zenon
  <2>12. n.ok => w[f].buf
    BY <2>4, <2>10, <2>11, AllocData, ZenonT(60)
  <2>13. PICK k : k = u.mem
    BY Zenon
  <2>14. /\ Contents(w)
         /\ \A im : Stray(v, k, im, 0) => Stray(w, k, im, 0)
         /\ \A im : Commit(v, k, im) => Commit(w, k, im)
    <3>1. FsInv(v) /\ Contents(v) /\ f \in Regions /\ AllocsTo(v, w, n, f)
      BY <2>4, <2>8, <2>9, <2>10, ZenonT(60) DEF AllocsTo
    <3>2. /\ Contents(w)
          /\ \A m, im : Stray(v, m, im, 0) => Stray(w, m, im, 0)
          /\ \A m, im : Commit(v, m, im) => Commit(w, m, im)
      BY <3>1, AllocKeeps, Zenon
    <3> QED BY <3>2, Zenon
  <2>15. \/ call'.pc = "return" /\ ~call'.ret
         \/ call'.pc = "chunk" /\ call'.active = f /\ call'.addr = call.addr /\ call'.ret = call.ret
            /\ n.ok /\ u.ok
    <3> HIDE DEF part
    <3> QED BY <1>0, <2>3, Zenon DEF CallState
  <2>16. Erasing' = 0
    BY <2>15, Zenon DEF Erasing
  <2>17. ASSUME Good' PROVE Commit(w, k, image)
    <3>1. flash_mode /\ ~failed /\ ~clobbered /\ call.ret /\ u.ok
      BY <1>0, <2>15, <2>17, Zenon DEF Good
    <3>2. Good
      BY <1>1, <3>1, Zenon DEF Good
    <3>3. Commit(fs, mem, image) /\ Stray(fs, mem, image, 0)
      BY <1>0, <1>2, <3>1, <3>2, ZenonT(60) DEF DataKept
    <3>4. Commit(v, k, image)
      BY <2>9, <2>13, <3>1, <3>3, Zenon
    <3> QED BY <2>14, <3>4, Zenon
  <2>18. mem' = k
    BY <2>3, <2>13, Zenon
  <2>19. failed \/ Stray(w, k, image, 0)
    <3>1. Stray(fs, mem, image, 0) => Stray(v, k, image, 0)
      BY <2>9, <2>13, Zenon
    <3>2. Stray(v, k, image, 0) => Stray(w, k, image, 0)
      BY <2>14, Zenon
    <3> QED BY <1>2, <3>1, <3>2, Zenon
  <2>20. DataKept'
    <3>1. Contents(w) /\ CellsOK(k) /\ (failed \/ Stray(w, k, image, Erasing')) /\ (Good' => Commit(w, k, image))
      BY <2>9, <2>13, <2>14, <2>16, <2>17, <2>19, ZenonT(60)
    <3>2. fs' = w /\ mem' = k /\ image' = image /\ failed' = failed
      BY <1>0, <2>6, <2>18, Zenon
    <3> QED BY <3>1, <3>2, Zenon DEF DataKept
  <2>21. Control' /\ DoneCommits'
    BY <1>0, <2>4, <2>6, <2>12, <2>15, ZenonT(60) DEF Control, DoneCommits, InFlash, Start
  <2> QED BY <2>20, <2>21, Zenon DEF SInv
<1> QED BY <1>6, <1>7, Zenon

\* flash_buffered_write, one chunk.
LEMMA ChunkStepSInv ==
  "prepare" \notin Faults /\ Separate /\ SInv /\ IInv' /\ ChunkStep => SInv'
<1> SUFFICES ASSUME "prepare" \notin Faults, Separate, SInv, IInv', ChunkStep PROVE SInv'
  BY Zenon
<1>0. /\ IInv /\ Control /\ DataKept /\ Contents(fs) /\ CellsOK(mem) /\ FsInv(fs) /\ mem \in [Addr -> Bytes]
      /\ call \in CallState /\ CallInv /\ call.pc = "chunk"
      /\ UNCHANGED <<flash_mode, failed, clobbered>>
  BY ZenonT(30) DEF SInv, DataKept, IInv, DataInv, ChunkStep
<1> DEFINE f == call.active
           wbs == WriteBufSize(f)
           n == MinOf(wbs - (call.addr % wbs), call.part)
           F == IF AlignDown(call.addr, wbs) # fs[f].base THEN Flush(f, fs[f], mem)
                ELSE {[st |-> fs[f], mem |-> mem, ok |-> TRUE]}
           R(u) ==
             /\ fs' = [fs EXCEPT ![f] = CopyIn(f, u.st, call.addr, call.part, call.id)]
             /\ mem' = u.mem
             /\ image' = [a \in Addr |->
                            IF call.addr <= a /\ a < call.addr + n
                            THEN Cell(image[a], Byte(call.id, a)) ELSE image[a]]
             /\ LET ret == call.ret /\ u.ok IN
                call' = [call EXCEPT
                           !.addr = @ + n, !.len = @ - n, !.part = @ - n, !.ret = ret,
                           !.pc = IF call.part > n THEN "chunk"
                                  ELSE IF ret THEN "write" ELSE "return"]
<1>a. \E u \in F : R(u)
  BY Zenon DEF ChunkStep
<1>1. f = call.active
  BY Zenon
<1>5. wbs = WriteBufSize(f)
  BY Zenon
<1>6. n = MinOf(wbs - (call.addr % wbs), call.part)
  BY ZenonT(60)
<1> HIDE DEF f, wbs, n
<1>2. /\ f \in Regions /\ flash_mode /\ Start(f) <= call.addr /\ fs[f].buf
      /\ call.id \in 1..MaxOps /\ call.addr \in Nat /\ call.ret \in BOOLEAN
      /\ call.part \in Nat \ {0} /\ call.addr + call.part <= End(f)
  BY <1>0, <1>1 DEF Control, CallInv, CallState
<1>3. Erasing = 0 /\ ~Failing
  BY <1>0, Zenon DEF Erasing, Failing
<1>4. failed \/ Stray(fs, mem, image, 0)
  BY <1>0, <1>3, ZenonT(30) DEF DataKept
<1>7. PICK u \in F : R(u)
  BY <1>a, ZenonT(60)
<1>8. wbs \in Nat \ {0} /\ n \in Nat
  <2>1. wbs \in Nat \ {0}
    BY <1>2, <1>5, WriteBufSizePositive, Zenon
  <2>2. call.addr % wbs \in 0..(wbs - 1)
    BY <1>2, <2>1, AlignDownBounds, Zenon
  <2> QED BY <1>2, <1>6, <2>1, <2>2, SMTT(60) DEF MinOf
<1>9. /\ fs = [g \in Regions |-> fs[g]] /\ fs[f] \in RegionState(f) /\ Window(f, fs[f]) /\ Content(f, fs[f])
  BY <1>0, <1>2, Zenon DEF FsInv, Contents
<1>10. PICK st, k, x : st = u.st /\ k = u.mem /\ x = CopyIn(f, st, call.addr, call.part, call.id)
  BY Zenon
<1>11. PICK v : v = [fs EXCEPT ![f] = st]
  BY Zenon
<1>12. /\ st \in RegionState(f) /\ Window(f, st) /\ Content(f, st) /\ st.buf
       /\ AlignDown(call.addr, wbs) # st.base => Empty(st)
       /\ FsInv(v) /\ Contents(v) /\ CellsOK(k)
       /\ Stray(fs, mem, image, 0) => Stray(v, k, image, 0)
       /\ Stray(fs, mem, image, 0) /\ Commit(fs, mem, image) /\ u.ok => Commit(v, k, image)
  <2>1. CASE AlignDown(call.addr, wbs) # fs[f].base
    <3>1. u \in Flush(f, fs[f], mem)
      BY <1>7, <2>1, Zenon
    <3>2. st \in RegionState(f) /\ Window(f, st) /\ (st.buf => Empty(st))
      BY <1>0, <1>2, <1>9, <1>10, <3>1, FlushFacts, ZenonT(60)
    <3>3. ~Dirty(st) /\ st.buf = fs[f].buf
      BY <1>2, <1>9, <1>10, <3>1, FlushData, Zenon
    <3>4. Content(f, st)
      BY <3>3, Zenon DEF Content
    <3>5. FsInv(v)
      BY <1>0, <1>2, <1>11, <3>2, FsUpdate, ZenonT(30)
    <3>6. FlushesTo(fs, v, mem, u, f, st)
      BY <1>11, <3>1, <3>3, Zenon DEF FlushesTo
    <3>7. /\ Contents(v)
          /\ CellsOK(mem) => CellsOK(u.mem)
          /\ Stray(fs, mem, image, 0) => Stray(v, u.mem, image, 0)
          /\ Stray(fs, mem, image, 0) /\ Commit(fs, mem, image) /\ u.ok => Commit(v, u.mem, image)
      BY <1>0, <1>2, <3>6, FlushKeeps, Zenon
    <3> QED BY <1>0, <1>2, <1>10, <3>2, <3>3, <3>4, <3>5, <3>7, ZenonT(60)
  <2>2. CASE AlignDown(call.addr, wbs) = fs[f].base
    <3>1. u.st = fs[f] /\ u.mem = mem
      BY <1>7, <2>2
    <3>2. st = fs[f] /\ k = mem /\ v = fs
      BY <1>2, <1>9, <1>10, <1>11, <3>1, Zenon
    <3> QED BY <1>0, <1>2, <1>9, <2>2, <3>2, Zenon
  <2> QED BY <2>1, <2>2, Zenon
<1>13. PICK w, jm : w = fs' /\ jm = image'
  BY Zenon
<1>14. w = [v EXCEPT ![f] = x] /\ v[f] = st
  BY <1>2, <1>7, <1>9, <1>10, <1>11, <1>13, Zenon
<1>15. /\ x.buf
       /\ \A a \in Addr : call.addr <= a /\ a < call.addr + n => Due(x, a) = Byte(call.id, a)
       /\ \A a \in Addr : ~(call.addr <= a /\ a < call.addr + n) => Due(x, a) = Due(st, a)
       /\ Content(f, x)
  <2>1. PICK dest \in Nat, len \in Nat \ {0}, id \in 1..MaxOps : dest = call.addr /\ len = call.part /\ id = call.id
    BY <1>2, Zenon
  <2>2. /\ Start(f) <= dest /\ dest + len <= End(f)
        /\ AlignDown(dest, WriteBufSize(f)) # st.base => Empty(st)
        /\ n = MinOf(WriteBufSize(f) - (dest % WriteBufSize(f)), len)
        /\ x = CopyIn(f, st, dest, len, id)
    BY <1>2, <1>5, <1>6, <1>10, <1>12, <2>1, ZenonT(60)
  <2>3. st \in RegionState(f) /\ Window(f, st) /\ Content(f, st) /\ st.buf
    BY <1>12, Zenon
  <2>4. /\ x.buf
        /\ \A a \in Addr : dest <= a /\ a < dest + n => Due(x, a) = Byte(id, a)
        /\ \A a \in Addr : ~(dest <= a /\ a < dest + n) => Due(x, a) = Due(st, a)
        /\ Content(f, x)
    <3>1. Chunk(f, st, dest, len, id, n, x)
      BY <1>2, <2>2, <2>3, Zenon DEF Chunk
    <3> QED BY <3>1, ChunkData, Zenon
  <2> QED BY <2>1, <2>4, Zenon
<1>16. CopiesTo(v, w, image, jm, f, x, call.addr, n, call.id)
  BY <1>7, <1>13, <1>14, <1>15, Zenon DEF CopiesTo
<1>17. /\ Contents(w)
       /\ Stray(v, k, image, 0) => Stray(w, k, jm, 0)
       /\ Stray(v, k, image, 0) /\ Commit(v, k, image) => Commit(w, k, jm)
  <2>1. PICK id \in 1..MaxOps : id = call.id
    BY <1>2, Zenon
  <2>2. PICK dest : dest = call.addr
    BY Zenon
  <2>3. FsInv(v) /\ Contents(v) /\ f \in Regions /\ CopiesTo(v, w, image, jm, f, x, dest, n, id)
    BY <1>2, <1>12, <1>16, <2>1, <2>2, Zenon
  <2> QED BY <2>3, CopyKeeps, Zenon
<1>18. /\ call'.pc \in {"chunk", "write", "return"} /\ call'.active = f
       /\ call'.addr = call.addr + n /\ (call'.ret => call.ret /\ u.ok)
  <2>1. PICK pc : pc = IF call.part > n THEN "chunk" ELSE IF call.ret /\ u.ok THEN "write" ELSE "return"
    BY Zenon
  <2>2. PICK ret : ret = (call.ret /\ u.ok)
    BY Zenon
  <2>3. call' = [call EXCEPT !.addr = call.addr + n, !.len = call.len - n,
                             !.part = call.part - n, !.ret = ret, !.pc = pc]
    BY <1>0, <1>7, <2>1, <2>2, Zenon DEF CallState
  <2>4. call'.pc = pc /\ call'.active = call.active /\ call'.addr = call.addr + n /\ call'.ret = ret
    BY <1>0, <2>3, Zenon DEF CallState
  <2> QED BY <1>1, <2>1, <2>2, <2>4, Zenon
<1>19. Erasing' = 0
  BY <1>18, Zenon DEF Erasing
<1>20. ASSUME Good' PROVE Commit(w, k, jm)
  <2>1. flash_mode /\ ~failed /\ ~clobbered /\ call.ret /\ u.ok
    BY <1>0, <1>18, <1>20, Zenon DEF Good
  <2>2. Good
    BY <1>3, <2>1, Zenon DEF Good
  <2>3. Commit(fs, mem, image) /\ Stray(fs, mem, image, 0)
    BY <1>0, <1>4, <2>1, <2>2, Zenon DEF DataKept
  <2>4. Stray(v, k, image, 0) /\ Commit(v, k, image)
    BY <1>12, <2>1, <2>3, Zenon
  <2> QED BY <1>17, <2>4, Zenon
<1>21. failed \/ Stray(w, k, jm, 0)
  BY <1>4, <1>12, <1>17, Zenon
<1>22. DataKept'
  <2>1. Contents(w) /\ CellsOK(k) /\ (failed \/ Stray(w, k, jm, Erasing')) /\ (Good' => Commit(w, k, jm))
    BY <1>12, <1>17, <1>19, <1>20, <1>21, Zenon
  <2>2. fs' = w /\ mem' = k /\ image' = jm /\ failed' = failed
    BY <1>0, <1>7, <1>10, <1>13, Zenon
  <2> QED BY <2>1, <2>2, Zenon DEF DataKept
<1>23. Control' /\ DoneCommits'
  <2>1. w[f] = x /\ Start(f) <= call.addr + n
    <3>1. v = [g \in Regions |-> v[g]] /\ Start(f) \in Nat
      BY <1>2, <1>12, RegionFields, SMTT(60) DEF FsInv, Start, Addr
    <3> QED BY <1>2, <1>8, <1>14, <3>1, SMTT(60)
  <2> QED BY <1>0, <1>2, <1>13, <1>15, <1>18, <2>1, ZenonT(60) DEF Control, DoneCommits, Start
<1> QED BY <1>22, <1>23, Zenon DEF SInv

---------------------------------------------------------------------------
\* SInv is inductive when prepare never fails and the regions are separate.
LEMMA NextSInv == "prepare" \notin Faults /\ Separate /\ SInv /\ [Next]_vars => SInv'
<1> SUFFICES ASSUME "prepare" \notin Faults, Separate, SInv, [Next]_vars PROVE SInv'
  BY Zenon
<1>0. IInv'
  BY NextIInv, Zenon DEF SInv
<1>1. CASE Request
  BY <1>0, <1>1, RequestSInv, Zenon
<1>2. CASE EraseStep
  BY <1>0, <1>2, EraseStepSInv, Zenon
<1>3. CASE EraseFinish
  BY <1>0, <1>3, EraseFinishSInv, Zenon
<1>4. CASE SweepStep \/ CompleteStep
  BY <1>0, <1>4, LoopSInv, Zenon
<1>5. CASE SweepFinish \/ WriteFinish \/ Return \/ CompleteFinish
  BY <1>0, <1>5, EndSInv, ZenonT(60)
<1>6. CASE WriteStep
  BY <1>0, <1>6, WriteStepSInv, Zenon
<1>7. CASE ChunkStep
  BY <1>0, <1>7, ChunkStepSInv, Zenon
<1>8. CASE UNCHANGED vars
  <2>1. Control' /\ DataKept' /\ DoneCommits'
    BY <1>8, Zenon DEF vars, SInv, Control, DataKept, DoneCommits, Good, Failing, Erasing
  <2> QED BY <1>0, <2>1, Zenon DEF SInv
<1> QED BY <1>1, <1>2, <1>3, <1>4, <1>5, <1>6, <1>7, <1>8, Zenon DEF Next, Step

\* Whatever a driver refuses to erase or to write, a cell of the device holds a byte
\* sent for that very address or what it held before, and is ruined only where the
\* requests program it twice (target_flash.c:177-201, 203-233): for every list of
\* regions of which no erase block reaches into another region.
THEOREM NothingStray ==
  ASSUME "prepare" \notin Faults, Separate PROVE Spec => []NoStrayData
<1>1. SInv => NoStrayData
  <2> SUFFICES ASSUME SInv, NEW a \in Addr
               PROVE  /\ mem[a] = Junk => image[a] = Junk \/ failed
                      /\ mem[a][1] > 0 => mem[a][2] = a
    BY Zenon DEF NoStrayData
  <2>1. CellAt(mem, a)
    BY Zenon DEF SInv, DataKept, CellsOK
  <2>2. failed \/ Ruined(mem, image)
    BY StrayRuined, Zenon DEF SInv, DataKept
  <2>3. mem[a] \in {Erased, Old, Junk} => ~(mem[a][1] > 0)
    BY DEF Erased, Old, Junk
  <2>4. Carried(mem[a], a) => mem[a][2] = a
    BY Distinct, Zenon
  <2> QED BY <2>1, <2>2, <2>3, <2>4, Zenon DEF CellAt, Ruined
<1> QED BY <1>1, InitSInv, NextSInv, PTL DEF Spec

\* When vFlashDone and every request before it are answered OK, the device holds what
\* they asked for, unless an erase gave up buffered data; and after target_flash_complete
\* no region is prepared and nothing is left for a later session (target_flash.c:288-301).
THEOREM SessionsEnd ==
  ASSUME "prepare" \notin Faults, Separate PROVE Spec => []SessionEnds
<1>1. SInv => SessionEnds
  <2> SUFFICES ASSUME SInv PROVE SessionEnds
    BY Zenon
  <2>1. Control /\ DoneCommits
    BY Zenon DEF SInv
  <2>2. SessionClean
    BY <2>1, NoZero, Zenon DEF Control, Closed, SessionClean
  <2> QED BY <2>1, <2>2, Zenon DEF SessionEnds
<1> QED BY <1>1, InitSInv, NextSInv, PTL DEF Spec

=============================================================================
