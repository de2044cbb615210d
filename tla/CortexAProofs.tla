--------------------------- MODULE CortexAProofs ----------------------------
(***************************************************************************)
(* Run control of Cortex-A targets: what is proved of it holds for every   *)
(* number of comparators and every set of break- and watchpoints.          *)
(***************************************************************************)
EXTENDS CortexA, PointProofs

---------------------------------------------------------------------------
(* Cortex-A: the user's registers.                                         *)

Names == Registers \cup {"scratch"}
Values == Names \X Int

\* Registers as a program may leave them: the pc is even, Thumb or not.
UserFile(f) ==
    /\ f \in [Registers -> Values]
    /\ f["pc"][1] = "pc" /\ f["pc"][2] % 2 = 0 /\ f["cpsr"][2] \in {0, 1}

\* Two register files that agree in every register are the same.
LEMMA SameFile ==
    ASSUME NEW f \in [Registers -> Values], NEW g \in [Registers -> Values],
           f["r0"] = g["r0"], f["r1"] = g["r1"], f["sp"] = g["sp"], f["pc"] = g["pc"],
           f["cpsr"] = g["cpsr"], f["fpscr"] = g["fpscr"], f["dhigh"] = g["dhigh"], f["dlow"] = g["dlow"]
    PROVE  f = g
<1>1. \A r \in Registers : f[r] = g[r]
  BY Zenon DEF Registers
<1>2. f = [r \in Registers |-> f[r]] /\ g = [r \in Registers |-> g[r]]
  BY Zenon
<1> QED BY <1>1, <1>2, Zenon

LEMMA OfUserFile ==
    ASSUME NEW thumb \in BOOLEAN, NEW at \in {0, 2}
    PROVE  UserFile(OfUser(thumb, at))
<1> DEFINE f == OfUser(thumb, at)
<1>1. f["pc"] = <<"pc", at>> /\ f["cpsr"] = <<"cpsr", IF thumb THEN 1 ELSE 0>>
  BY Zenon DEF OfUser, Registers
<1>2. f \in [Registers -> Values]
  <2>1. ASSUME NEW r \in Registers PROVE f[r] \in Values
    <3>1. r \in Names
      BY Zenon DEF Names
    <3>2. (CASE r = "pc" -> at [] r = "cpsr" -> IF thumb THEN 1 ELSE 0 [] OTHER -> 0) \in Int
      OBVIOUS
    <3> QED BY <3>1, <3>2, Zenon DEF OfUser, Values
  <2>2. f = [r \in Registers |-> f[r]]
    BY Zenon DEF OfUser
  <2> HIDE DEF f
  <2> QED BY <2>1, <2>2, Zenon
<1> HIDE DEF f
<1>3. UserFile(f)
  BY <1>1, <1>2 DEF UserFile
<1> QED BY <1>3, Zenon DEF f

\* cortexa_regs_read_internal finds every register as the core left it.
LEMMA ReadsAll ==
    ASSUME NEW f, UserFile(f)
    PROVE  /\ cortexa_regs_read_internal(f).cache = f
           /\ cortexa_regs_read_internal(f).file \in [Registers -> Values]
<1> DEFINE c == cortexa_regs_read_internal(f).cache
<1>1. f \in [Registers -> Values] /\ f["pc"] \in Values /\ f["cpsr"] \in Values
  BY Zenon DEF UserFile, Registers
<1>2. f["pc"] = <<"pc", f["pc"][2]>> /\ f["pc"][2] \in Int /\ f["cpsr"][2] \in {0, 1}
  BY <1>1 DEF UserFile, Values
<1>3. cortexa_regs_read_internal(f).file \in [Registers -> Values]
  BY <1>1, <1>2 DEF cortexa_regs_read_internal, write_gpreg, Registers, Values, ReadAhead, Thumb
<1>4. c = [r0 |-> f["r0"], r1 |-> f["r1"], sp |-> f["sp"], pc |-> <<"pc", f["pc"][2]>>,
           cpsr |-> f["cpsr"], fpscr |-> f["fpscr"], dhigh |-> f["dhigh"], dlow |-> f["dlow"]]
  BY <1>1, <1>2 DEF cortexa_regs_read_internal, write_gpreg, Registers, ReadAhead, Thumb
<1> HIDE DEF c
<1>5. c \in [Registers -> Values]
  BY <1>1, <1>2, <1>4, SMTT(30) DEF Registers
<1>6. c = f
  BY <1>1, <1>2, <1>4, <1>5, SameFile, Zenon
<1> QED BY <1>3, <1>6, Zenon DEF c

\* cortexa_regs_write_internal puts back every register that is cached.
LEMMA WritesAll ==
    ASSUME NEW file \in [Registers -> Values], NEW cache, UserFile(cache)
    PROVE  cortexa_regs_write_internal(file, cache) = cache
<1>1. cache \in [Registers -> Values] /\ cache["pc"] \in Values /\ cache["cpsr"] \in Values
  BY Zenon DEF UserFile, Registers
<1>2. cache["pc"] = <<"pc", cache["pc"][2]>> /\ cache["pc"][2] \in Int /\ cache["cpsr"][2] \in {0, 1}
  BY <1>1 DEF UserFile, Values
<1>3. PICK x : x = cache["pc"][2] + (IF Thumb(cache) THEN 1 ELSE 0)
  BY Zenon
<1>4. x \in Int /\ x - (x % 2) = cache["pc"][2]
  BY <1>2, <1>3 DEF UserFile
<1> DEFINE g == cortexa_regs_write_internal(file, cache)
<1>5. g \in [Registers -> Values]
  <2>1. <<"pc", x>> \in Values /\ <<"pc", x - (x % 2)>> \in Values
    <3>1. "pc" \in Names /\ x \in Int /\ x - (x % 2) \in Int
      BY <1>2, <1>4, Zenon DEF Names, Registers
    <3> QED BY <3>1, Zenon DEF Values
  <2>2. \A h \in [Registers -> Values], r \in Registers, v \in Values : [h EXCEPT ![r] = v] \in [Registers -> Values]
    BY Zenon
  <2> DEFINE F == [Registers -> Values]
             pair == write_gpreg(write_gpreg(file, "r1", cache["dhigh"]), "r0", cache["dlow"])
             vfp == [pair EXCEPT !["dhigh"] = pair["r1"], !["dlow"] = pair["r0"]]
             fpscr == write_gpreg(vfp, "r0", cache["fpscr"])
             cpsr == write_gpreg([fpscr EXCEPT !["fpscr"] = fpscr["r0"]], "r0", cache["cpsr"])
             at == write_gpreg([cpsr EXCEPT !["cpsr"] = cpsr["r0"]], "r0", <<"pc", x>>)
             gone == [at EXCEPT !["pc"] = <<"pc", x - (x % 2)>>]
  <2>3. pair \in F
    BY <1>1, Zenon DEF write_gpreg, Registers
  <2>4. vfp \in F
    <3> HIDE DEF pair
    <3> QED BY <2>3, Zenon DEF Registers
  <2>5. fpscr \in F
    <3> HIDE DEF vfp
    <3> QED BY <1>1, <2>4, Zenon DEF write_gpreg, Registers
  <2>6. cpsr \in F
    <3> HIDE DEF fpscr
    <3> QED BY <1>1, <2>5, Zenon DEF write_gpreg, Registers
  <2>7. at \in F /\ at["r0"] = <<"pc", x>>
    <3> HIDE DEF cpsr
    <3> QED BY <2>1, <2>6, Zenon DEF write_gpreg, Registers
  <2>8. gone \in F
    <3> HIDE DEF at
    <3> QED BY <2>1, <2>7, SMTT(30) DEF Registers
  <2>9. g = write_gpreg(write_gpreg(write_gpreg(gone, "r0", cache["r0"]), "r1", cache["r1"]), "sp", cache["sp"])
    <3>1. at["r0"][2] = x
      <4> HIDE DEF at
      <4> QED BY <2>7
    <3> QED BY <1>3, <3>1, ZenonT(60) DEF cortexa_regs_write_internal
  <2> HIDE DEF gone
  <2> QED BY <1>1, <2>8, <2>9, SMTT(30) DEF write_gpreg, Registers
<1>6. g["pc"] = <<"pc", x - (x % 2)>>
  BY <1>1, <1>3, ZenonT(30) DEF cortexa_regs_write_internal, write_gpreg, Registers
<1>7. /\ g["r0"] = cache["r0"] /\ g["r1"] = cache["r1"] /\ g["sp"] = cache["sp"] /\ g["cpsr"] = cache["cpsr"]
      /\ g["fpscr"] = cache["fpscr"] /\ g["dhigh"] = cache["dhigh"] /\ g["dlow"] = cache["dlow"]
  BY <1>1, ZenonT(60) DEF cortexa_regs_write_internal, write_gpreg, Registers
<1> HIDE DEF g
<1>8. g = cache
  BY <1>1, <1>2, <1>4, <1>5, <1>6, <1>7, SameFile, SMTT(30)
<1> QED BY <1>8, Zenon DEF g

\* While the session holds the core the user's registers are in the cache; from
\* the stop of the core to its first poll they are where they were.
Held == a_attached /\ a_doing = "idle"
RegInv ==
    /\ a_attached \in BOOLEAN /\ in_debug \in BOOLEAN /\ (a_doing = "attaching" => ~a_attached)
    /\ UserFile(truth) /\ regs \in [Registers -> Values]
    /\ Held => in_debug /\ reg_cache = truth
    /\ in_debug /\ ~Held => regs = truth

\* The operations that change the user's registers only as scratch.
Scratches(f) == {f, AfterMemRead(f), AfterMemWrite(f), AfterMemWriteBytes(f), va_to_pa(f)}

LEMMA ScratchTyped ==
    ASSUME NEW f \in [Registers -> Values], NEW g \in Scratches(f)
    PROVE  g \in [Registers -> Values]
BY DEF Scratches, AfterMemRead, AfterMemWrite, AfterMemWriteBytes, va_to_pa, write_gpreg, Scratch, Values, Names, Registers

LEMMA PolledKeeps ==
    ASSUME UserFile(truth), regs = truth, Polled
    PROVE  reg_cache' = truth /\ regs' \in [Registers -> Values]
BY ReadsAll, Zenon DEF Polled

LEMMA HeldKeeps ==
    ASSUME RegInv, Held, regs' \in Scratches(regs), UNCHANGED <<a_attached, a_doing, reg_cache, in_debug, truth>>
    PROVE  RegInv'
<1>1. regs' \in [Registers -> Values]
  BY ScratchTyped, Zenon DEF RegInv
<1> QED BY <1>1, Zenon DEF RegInv, Held, UserFile

LEMMA RegInit ==
    ASSUME CortexAInit
    PROVE  RegInv
<1>1. UserFile(OfUser(FALSE, 0))
  BY OfUserFile, Zenon
<1>2. truth = OfUser(FALSE, 0) /\ regs = truth /\ a_attached = FALSE /\ in_debug = FALSE
  BY Zenon DEF CortexAInit
<1> QED BY <1>1, <1>2, Zenon DEF RegInv, Held, UserFile

LEMMA RegNext ==
    ASSUME RegInv, [CortexANext]_cortexAVars
    PROVE  RegInv' /\ (in_debug /\ ~in_debug' => regs' = truth)
<1> DEFINE Goal == RegInv' /\ (in_debug /\ ~in_debug' => regs' = truth)
<1>0. /\ a_attached \in BOOLEAN /\ in_debug \in BOOLEAN /\ (a_doing = "attaching" => ~a_attached)
      /\ UserFile(truth) /\ regs \in [Registers -> Values]
      /\ Held => in_debug /\ reg_cache = truth
      /\ in_debug /\ ~Held => regs = truth
  BY Zenon DEF RegInv
<1>1. CASE cortexa_attach \/ AttachFails \/ cortexa_halt_request \/ LinkError
  <2>1. ~Held /\ ~Held' /\ UNCHANGED <<regs, in_debug, truth>> /\ a_attached' \in BOOLEAN /\ (a_doing' = "attaching" => ~a_attached')
    <3>1. CASE cortexa_attach
      BY <1>0, <3>1, Zenon DEF cortexa_attach, Held
    <3>2. CASE AttachFails
      BY <1>0, <3>2, Zenon DEF AttachFails, Held, a_coreVars
    <3>3. CASE cortexa_halt_request
      BY <1>0, <3>3, Zenon DEF cortexa_halt_request, Held, a_probeVars
    <3>4. CASE LinkError
      BY <1>0, <3>4, Zenon DEF LinkError, Held, a_coreVars
    <3> QED BY <1>1, <3>1, <3>2, <3>3, <3>4, Zenon
  <2> QED BY <1>0, <2>1, Zenon DEF RegInv
<1>2. CASE AttachPolled
  <2>1. in_debug /\ ~Held /\ Polled /\ a_attached' = TRUE /\ UNCHANGED <<in_debug, truth>>
    BY <1>2, Zenon DEF AttachPolled, Held
  <2>2. reg_cache' = truth /\ regs' \in [Registers -> Values]
    BY <1>0, <2>1, PolledKeeps, SMTT(30)
  <2>3. Held'
    BY <1>2, Zenon DEF AttachPolled, Held
  <2> QED BY <1>0, <2>1, <2>2, <2>3, Zenon DEF RegInv, Held
<1>3. CASE cortexa_halt_poll
  <2>1. in_debug /\ ~Held /\ Polled /\ a_attached' = TRUE /\ UNCHANGED <<in_debug, truth>>
    BY <1>0, <1>3, Zenon DEF cortexa_halt_poll, Held
  <2>2. reg_cache' = truth /\ regs' \in [Registers -> Values]
    BY <1>0, <2>1, PolledKeeps, Zenon
  <2>3. Held'
    BY <1>3, Zenon DEF cortexa_halt_poll, Held
  <2> QED BY <1>0, <2>1, <2>2, <2>3, Zenon DEF RegInv, Held
<1>4. CASE cortexa_detach \/ \E step \in BOOLEAN : cortexa_halt_resume(step)
  <2>1. /\ Held /\ ~Held' /\ in_debug' = FALSE /\ truth' = truth /\ a_attached' \in BOOLEAN /\ (a_doing' = "attaching" => ~a_attached')
        /\ regs' = cortexa_regs_write_internal(regs, reg_cache)
    BY <1>0, <1>4, Zenon DEF cortexa_detach, cortexa_halt_resume, Held
  <2>2. regs' = truth
    BY <1>0, <2>1, WritesAll, Zenon
  <2> QED BY <1>0, <2>1, <2>2, Zenon DEF RegInv, UserFile
<1>5. CASE AccessMemory
  BY <1>0, <1>5, HeldKeeps, SMTT(30) DEF AccessMemory, Scratches, Held
<1>6. ASSUME NEW r \in {"r0", "cpsr"}, WriteRegister(r) PROVE Goal
  <2>1. PICK v : v = <<r, 1>>
    BY Zenon
  <2>2. /\ Held /\ reg_cache' = [reg_cache EXCEPT ![r] = v] /\ truth' = [truth EXCEPT ![r] = v]
        /\ UNCHANGED <<a_attached, a_doing, regs, in_debug>>
    BY <1>6, <2>1, Zenon DEF WriteRegister, Held
  <2>3. v \in Values /\ v[2] = 1
    BY <2>1 DEF Values, Names, Registers
  <2>4. UserFile(truth')
    BY <1>0, <2>2, <2>3, Zenon DEF UserFile, Registers
  <2> QED BY <1>0, <2>2, <2>4, Zenon DEF RegInv, Held
<1>7. ASSUME NEW q \in Points, SetPoint(q) \/ ClearPoint(q) PROVE Goal
  <2>1. CASE SetPoint(q)
    <3>1. Held /\ UNCHANGED <<a_attached, a_doing, reg_cache, in_debug, truth>>
      BY <2>1, Zenon DEF SetPoint, Held
    <3>2. HardSet(q) \/ WatchSet(q) \/ WideWatchSet \/ SoftSet(q)
      BY <2>1, Zenon DEF SetPoint
    <3>3. regs' \in Scratches(regs)
      BY <3>2, Zenon DEF HardSet, WatchSet, WideWatchSet, SoftSet, Scratches
    <3> QED BY <1>0, <3>1, <3>3, HeldKeeps, Zenon
  <2>2. CASE ClearPoint(q)
    <3>1. Held /\ UNCHANGED <<a_attached, a_doing, reg_cache, in_debug, truth>>
      BY <2>2, Zenon DEF ClearPoint, Held
    <3>2. regs' = regs \/ regs' = AfterMemWriteBytes(regs)
      BY <2>2, Zenon DEF ClearPoint, HardClear, WatchClear, SoftClear
    <3> QED BY <1>0, <3>1, <3>2, HeldKeeps, Zenon DEF Scratches
  <2> QED BY <1>7, <2>1, <2>2, Zenon
<1>8. CASE cortexa_reset
  <2>1. /\ Held /\ truth' = OfUser(FALSE, 0) /\ UNCHANGED <<a_attached, a_doing, in_debug>>
        /\ reg_cache' = cortexa_regs_read_internal(OfUser(FALSE, 0)).cache
        /\ regs' = cortexa_regs_read_internal(OfUser(FALSE, 0)).file
    BY <1>8, Zenon DEF cortexa_reset, Held
  <2>2. UserFile(OfUser(FALSE, 0))
    BY OfUserFile, Zenon
  <2> QED BY <1>0, <2>1, <2>2, ReadsAll, Zenon DEF RegInv, Held
<1>9. CASE CoreStops
  <2>1. /\ ~in_debug /\ in_debug' = TRUE /\ truth' = regs' /\ UNCHANGED <<a_attached, a_doing, reg_cache>>
        /\ \E thumb \in BOOLEAN : regs' = OfUser(thumb, 2)
    BY <1>9, Zenon DEF CoreStops, a_probeVars
  <2>2. UserFile(regs')
    BY <2>1, OfUserFile, Zenon
  <2> QED BY <1>0, <2>1, <2>2, Zenon DEF RegInv, Held, UserFile
<1>10. CASE UNCHANGED cortexAVars
  BY <1>0, <1>10, Zenon DEF RegInv, Held, cortexAVars, a_probeVars, a_coreVars
<1> QED BY <1>1, <1>2, <1>3, <1>4, <1>5, <1>6, <1>7, <1>8, <1>9, <1>10, Zenon DEF CortexANext

\* cortexa_halt_resume and cortexa_detach give the core back every register as it
\* stopped or as GDB wrote it, after any use of r0, r1 and sp by the probe.
THEOREM RegistersSafe == CortexASpec => RegistersKept
<1>1. RegInv /\ [CortexANext]_cortexAVars => [in_debug /\ ~in_debug' => regs' = truth]_cortexAVars
  BY RegNext, Zenon
<1>2. RegInv /\ [CortexANext]_cortexAVars => RegInv'
  BY RegNext, Zenon
<1> QED BY RegInit, <1>1, <1>2, PTL DEF CortexASpec, RegistersKept

---------------------------------------------------------------------------
(* Cortex-A: the break- and watchpoints.                                   *)

Hard == {p \in Points : p.kind = "hard"}
Reserved == Nat \cup {"code", "bkpt"}
Items == [place : {p \in Points : p.kind # "wide"}, reserved : Reserved]

\* What was set is on the list.
Lists(list, ins) ==
    /\ list \in Seq(Items) /\ ins \in SUBSET Points
    /\ \A p \in ins : \E k \in 1..Len(list) : list[k].place = p

\* The comparators, the first one as it is when no step borrows it.  Each has an owner,
\* the address of a breakpoint that GDB set, and holds what that was translated to.
Lent(breaks, first) == [i \in Breaks |-> IF i = 0 THEN first ELSE breaks[i]]
Owned(comp, owner, pa) == \A i \in Breaks : comp[i] = IF owner[i] = Unarmed THEN None ELSE pa[owner[i]]
HardFits(breaks, first, mask, list, ins, pa) ==
    /\ breaks \in [Breaks -> Int] /\ first \in Int /\ breaks[0] \in {first, Step}
    /\ pa \in [{p.addr : p \in Points} -> Nat]
    /\ \E owner : Fits(Breaks, Hard, owner, mask, list, ins) /\ Owned(Lent(breaks, first), owner, pa)

\* Instructions are replaced for a soft breakpoint that is set or forgotten; an
\* entry that would put a replaced one back is of a forgotten one.
Replaced(mem, ins, lost) ==
    /\ mem \in [{p.addr : p \in Points} -> Reserved] /\ lost \in SUBSET Soft(Points)
    /\ \A a \in DOMAIN mem : mem[a] = "bkpt" => \E p \in ins \cup lost : p.kind = "soft" /\ p.addr = a
Restores(list, lost) ==
    \A k \in 1..Len(list) : list[k].place.kind = "soft" /\ list[k].reserved = "bkpt" => list[k].place \in lost

PointInv ==
    /\ a_attached \in BOOLEAN /\ translated \in [{p.addr : p \in Points} -> Nat]
    /\ Lists(a_list, a_inserted) /\ Replaced(a_memory, a_inserted, forgotten) /\ Restores(a_list, forgotten)
    /\ a_attached => HardFits(dbgbcr, bcr0, break_mask, a_list, a_inserted, translated)

LEMMA PointIs ==
    ASSUME NEW p \in Points
    PROVE  /\ p.addr \in Nat /\ p.kind \in {"hard", "watch", "wide", "soft"}
           /\ p = [kind |-> p.kind, addr |-> p.addr]
BY CortexAAssumption, Zenon

LEMMA HardAddressed == Addressed(Hard)
<1>1. ASSUME NEW p \in Hard, NEW q \in Hard, p.addr = q.addr PROVE p = q
  <2>1. /\ p = [kind |-> p.kind, addr |-> p.addr] /\ q = [kind |-> q.kind, addr |-> q.addr]
        /\ p.kind = "hard" /\ q.kind = "hard"
    BY PointIs, Zenon DEF Hard
  <2> QED BY <1>1, <2>1, Zenon
<1>2. \A p \in Hard : p.addr \in Nat
  BY PointIs, Zenon DEF Hard
<1> QED BY <1>1, <1>2, Zenon DEF Addressed

LEMMA ListsMore ==
    ASSUME NEW list, NEW ins, Lists(list, ins), NEW e \in Items
    PROVE  Lists(<<e>> \o list, ins \cup {e.place})
<1> DEFINE l == <<e>> \o list
<1>1. l \in Seq(Items) /\ Len(l) = Len(list) + 1 /\ l[1] = e /\ \A k \in 1..Len(list) : l[k + 1] = list[k]
  BY Prepended DEF Lists
<1>2. Len(list) \in Nat /\ e.place \in Points
  BY DEF Lists, Items
<1> HIDE DEF l
<1>3. ASSUME NEW p \in ins PROVE \E k \in 1..Len(l) : l[k].place = p
  <2>1. PICK k \in 1..Len(list) : list[k].place = p
    BY Zenon DEF Lists
  <2>2. k + 1 \in 1..Len(l) /\ l[k + 1] = list[k]
    BY <1>1, <1>2
  <2> QED BY <2>1, <2>2, Zenon
<1>4. 1 \in 1..Len(l)
  BY <1>1, <1>2
<1>5. Lists(l, ins \cup {e.place})
  BY <1>1, <1>2, <1>3, <1>4, Zenon DEF Lists
<1> QED BY <1>5, Zenon DEF l

LEMMA ListsLess ==
    ASSUME NEW list, NEW ins, Lists(list, ins), NEW n \in 1..Len(list)
    PROVE  Lists(RemoveAt(list, n), ins \ {list[n].place})
<1> DEFINE l == RemoveAt(list, n)
<1>1. /\ l \in Seq(Items) /\ Len(l) = Len(list) - 1
      /\ \A k \in 1..(n - 1) : l[k] = list[k]
      /\ \A k \in n..(Len(list) - 1) : l[k] = list[k + 1]
  BY Removed, Zenon DEF Lists
<1>2. Len(list) \in Nat
  BY DEF Lists
<1> HIDE DEF l
<1>3. ASSUME NEW p \in ins, p # list[n].place PROVE \E k \in 1..Len(l) : l[k].place = p
  <2>1. PICK k \in 1..Len(list) : list[k].place = p
    BY Zenon DEF Lists
  <2>2. CASE k < n
    <3>1. k \in 1..(n - 1) /\ k \in 1..Len(l)
      BY <1>1, <1>2, <2>2, SMTT(30)
    <3> QED BY <1>1, <2>1, <3>1, Zenon
  <2>3. CASE k > n
    <3>1. k - 1 \in n..(Len(list) - 1) /\ k - 1 \in 1..Len(l) /\ (k - 1) + 1 = k
      BY <1>1, <1>2, <2>3, SMTT(30)
    <3>2. l[k - 1] = list[k]
      BY <1>1, <3>1, Zenon
    <3> QED BY <2>1, <3>1, <3>2, Zenon
  <2>4. k # n
    BY <1>3, <2>1, Zenon
  <2> QED BY <1>2, <2>2, <2>3, <2>4
<1>4. Lists(l, ins \ {list[n].place})
  BY <1>1, <1>3, Zenon DEF Lists
<1> QED BY <1>4, Zenon DEF l

LEMMA RestoresMore ==
    ASSUME NEW list \in Seq(Items), NEW lost, Restores(list, lost), NEW e \in Items,
           e.place.kind = "soft" /\ e.reserved = "bkpt" => e.place \in lost
    PROVE  Restores(<<e>> \o list, lost)
<1> DEFINE l == <<e>> \o list
<1>1. Len(l) = Len(list) + 1 /\ l[1] = e /\ \A k \in 1..Len(list) : l[k + 1] = list[k]
  BY Prepended
<1> HIDE DEF l
<1>2. ASSUME NEW k \in 1..Len(l), k # 1 PROVE \E j \in 1..Len(list) : l[k] = list[j]
  <2>1. k - 1 \in 1..Len(list) /\ (k - 1) + 1 = k
    BY <1>1, <1>2
  <2> QED BY <1>1, <2>1, Zenon
<1>3. ASSUME NEW k \in 1..Len(l), l[k].place.kind = "soft", l[k].reserved = "bkpt" PROVE l[k].place \in lost
  BY <1>1, <1>2, <1>3, Zenon DEF Restores
<1>4. Restores(l, lost)
  BY <1>3, Zenon DEF Restores
<1> QED BY <1>4, Zenon DEF l

LEMMA RestoresLess ==
    ASSUME NEW list \in Seq(Items), NEW lost, Restores(list, lost), NEW n \in 1..Len(list)
    PROVE  Restores(RemoveAt(list, n), lost)
<1> DEFINE l == RemoveAt(list, n)
<1>1. /\ Len(l) = Len(list) - 1
      /\ \A k \in 1..(n - 1) : l[k] = list[k]
      /\ \A k \in n..(Len(list) - 1) : l[k] = list[k + 1]
  BY Removed, Zenon
<1> HIDE DEF l
<1>2. ASSUME NEW k \in 1..Len(l) PROVE \E j \in 1..Len(list) : l[k] = list[j]
  <2>1. CASE k < n
    <3>1. k \in 1..(n - 1) /\ k \in 1..Len(list)
      BY <2>1
    <3> QED BY <1>1, <3>1, Zenon
  <2>2. CASE k >= n
    <3>1. k \in n..(Len(list) - 1) /\ k + 1 \in 1..Len(list)
      BY <1>1, <2>2
    <3> QED BY <1>1, <3>1, Zenon
  <2> QED BY <1>1, <2>1, <2>2
<1>3. ASSUME NEW k \in 1..Len(l), l[k].place.kind = "soft", l[k].reserved = "bkpt" PROVE l[k].place \in lost
  BY <1>2, <1>3, Zenon DEF Restores
<1>4. Restores(l, lost)
  BY <1>3, Zenon DEF Restores
<1> QED BY <1>4, Zenon DEF l

LEMMA HardMore ==
    ASSUME NEW breaks, NEW first, NEW mask, NEW list \in Seq(Items), NEW ins, NEW pa,
           HardFits(breaks, first, mask, list, ins, pa), NEW v \in Nat,
           NEW p \in Hard, p \notin ins, NEW i \in Breaks, ~mask[i], [place |-> p, reserved |-> i] \in Items
    PROVE  HardFits([breaks EXCEPT ![i] = v], IF i = 0 THEN v ELSE first, [mask EXCEPT ![i] = TRUE],
                    <<[place |-> p, reserved |-> i]>> \o list, ins \cup {p}, [pa EXCEPT ![p.addr] = v])
<1>1. PICK owner : Fits(Breaks, Hard, owner, mask, list, ins) /\ Owned(Lent(breaks, first), owner, pa)
  BY Zenon DEF HardFits
<1>2. v \in Int /\ p.addr \in Nat /\ p.addr \in {q.addr : q \in Points}
  BY PointIs DEF Hard
<1>3. breaks \in [Breaks -> Int] /\ first \in Int /\ breaks[0] \in {first, Step} /\ pa \in [{q.addr : q \in Points} -> Nat]
  BY Zenon DEF HardFits
<1> DEFINE b == [breaks EXCEPT ![i] = v]
           f == IF i = 0 THEN v ELSE first
           o == [owner EXCEPT ![i] = p.addr]
           t == [pa EXCEPT ![p.addr] = v]
<1>4. b \in [Breaks -> Int] /\ f \in Int /\ b[0] \in {f, Step} /\ t \in [{q.addr : q \in Points} -> Nat]
  <2>1. 0 \in Breaks
    BY CortexAAssumption, SMTT(30) DEF Breaks
  <2> QED BY <1>2, <1>3, <2>1, Zenon
<1>5. Fits(Breaks, Hard, o, [mask EXCEPT ![i] = TRUE], <<[place |-> p, reserved |-> i]>> \o list, ins \cup {p})
  BY <1>1, FitsSet, HardAddressed, Zenon
<1>6. owner \in [Breaks -> Int] /\ \A j \in Breaks : owner[j] # Unarmed => \E q \in ins : q \in Hard /\ q.addr = owner[j]
  BY <1>1, Zenon DEF Fits
<1>7. ASSUME NEW j \in Breaks PROVE Lent(b, f)[j] = IF o[j] = Unarmed THEN None ELSE t[o[j]]
  <2>1. CASE j = i
    <3>1. o[j] = p.addr /\ t[p.addr] = v /\ Lent(b, f)[j] = v
      BY <1>2, <1>3, <1>6, <2>1, Zenon DEF Lent
    <3>2. p.addr # Unarmed
      BY <1>2 DEF Unarmed
    <3> QED BY <3>1, <3>2, Zenon
  <2>2. CASE j # i
    <3>1. o[j] = owner[j] /\ Lent(b, f)[j] = Lent(breaks, first)[j]
      BY <1>3, <1>6, <2>2, Zenon DEF Lent
    <3>2. Lent(breaks, first)[j] = IF owner[j] = Unarmed THEN None ELSE pa[owner[j]]
      BY <1>1, Zenon DEF Owned
    <3>3. ASSUME owner[j] # Unarmed PROVE t[owner[j]] = pa[owner[j]]
      <4>1. PICK q \in ins : q \in Hard /\ q.addr = owner[j]
        BY <1>6, <3>3, Zenon
      <4>2. owner[j] # p.addr
        BY <4>1, HardAddressed, Zenon DEF Addressed
      <4>3. owner[j] \in {x.addr : x \in Points}
        BY <4>1, Zenon DEF Hard
      <4> QED BY <1>3, <4>2, <4>3, Zenon
    <3> QED BY <3>1, <3>2, <3>3, Zenon
  <2> QED BY <2>1, <2>2, Zenon
<1> HIDE DEF b, f, o, t
<1>8. HardFits(b, f, [mask EXCEPT ![i] = TRUE], <<[place |-> p, reserved |-> i]>> \o list, ins \cup {p}, t)
  BY <1>4, <1>5, <1>7, Zenon DEF HardFits, Owned
<1> QED BY <1>8, Zenon DEF b, f, t

LEMMA HardLess ==
    ASSUME NEW breaks, NEW first, NEW mask, NEW list \in Seq(Items), NEW ins, NEW pa,
           HardFits(breaks, first, mask, list, ins, pa),
           NEW p \in Hard, p \in ins, NEW n \in 1..Len(list), NewestAt(list, n, p), NEW i, i = list[n].reserved
    PROVE  HardFits([breaks EXCEPT ![i] = None], IF i = 0 THEN None ELSE first, [mask EXCEPT ![i] = FALSE],
                    RemoveAt(list, n), ins \ {p}, pa)
<1>1. PICK owner : Fits(Breaks, Hard, owner, mask, list, ins) /\ Owned(Lent(breaks, first), owner, pa)
  BY Zenon DEF HardFits
<1>2. /\ breaks \in [Breaks -> Int] /\ first \in Int /\ breaks[0] \in {first, Step} /\ None \in Int
      /\ pa \in [{q.addr : q \in Points} -> Nat] /\ owner \in [Breaks -> Int]
  BY <1>1 DEF HardFits, Fits, None
<1> DEFINE b == [breaks EXCEPT ![i] = None]
           f == IF i = 0 THEN None ELSE first
           o == [owner EXCEPT ![i] = Unarmed]
<1>3. i \in Breaks /\ Fits(Breaks, Hard, o, [mask EXCEPT ![i] = FALSE], RemoveAt(list, n), ins \ {p})
  BY <1>1, FitsClear, HardAddressed, ZenonT(30)
<1>4. b \in [Breaks -> Int] /\ f \in Int /\ b[0] \in {f, Step}
  <2>1. 0 \in Breaks
    BY CortexAAssumption DEF Breaks
  <2> QED BY <1>2, <1>3, <2>1, Zenon
<1>5. ASSUME NEW j \in Breaks PROVE Lent(b, f)[j] = IF o[j] = Unarmed THEN None ELSE pa[o[j]]
  <2>1. CASE j = i
    BY <1>2, <2>1, Zenon DEF Lent
  <2>2. CASE j # i
    <3>1. o[j] = owner[j] /\ Lent(b, f)[j] = Lent(breaks, first)[j]
      BY <1>2, <2>2, Zenon DEF Lent
    <3> QED BY <1>1, <3>1, Zenon DEF Owned
  <2> QED BY <2>1, <2>2, Zenon
<1> HIDE DEF b, f, o
<1>6. HardFits(b, f, [mask EXCEPT ![i] = FALSE], RemoveAt(list, n), ins \ {p}, pa)
  BY <1>2, <1>3, <1>4, <1>5, Zenon DEF HardFits, Owned
<1> QED BY <1>6, Zenon DEF b, f

\* What a breakpoint was translated to no longer matters when it is cleared.
LEMMA HardUntranslated ==
    ASSUME NEW breaks, NEW first, NEW mask, NEW list, NEW ins, NEW pa, HardFits(breaks, first, mask, list, ins, pa),
           NEW p \in Hard, p \notin ins
    PROVE  HardFits(breaks, first, mask, list, ins, [pa EXCEPT ![p.addr] = 0])
<1> DEFINE t == [pa EXCEPT ![p.addr] = 0]
<1>1. PICK owner : Fits(Breaks, Hard, owner, mask, list, ins) /\ Owned(Lent(breaks, first), owner, pa)
  BY Zenon DEF HardFits
<1>2. /\ breaks \in [Breaks -> Int] /\ first \in Int /\ breaks[0] \in {first, Step}
      /\ pa \in [{q.addr : q \in Points} -> Nat] /\ 0 \in Nat
  BY Zenon DEF HardFits
<1>3. t \in [{q.addr : q \in Points} -> Nat]
  BY <1>2, Zenon
<1>4. ASSUME NEW i \in Breaks, owner[i] # Unarmed PROVE t[owner[i]] = pa[owner[i]]
  <2>1. PICK q \in ins : q \in Hard /\ q.addr = owner[i]
    BY <1>1, <1>4, Zenon DEF Fits
  <2>2. q.addr # p.addr
    BY <2>1, HardAddressed, Zenon DEF Addressed
  <2>3. owner[i] \in DOMAIN pa
    BY <1>2, <2>1, Zenon DEF Hard
  <2> QED BY <1>2, <2>1, <2>2, <2>3, Zenon
<1> HIDE DEF t
<1>5. Owned(Lent(breaks, first), owner, t)
  BY <1>1, <1>4, Zenon DEF Owned
<1>6. HardFits(breaks, first, mask, list, ins, t)
  BY <1>1, <1>2, <1>3, <1>5, Zenon DEF HardFits
<1> QED BY <1>6, Zenon DEF t

\* Nothing is set as a session begins, whatever is on the list.
LEMMA HardNone ==
    ASSUME NEW breaks, breaks = [i \in Breaks |-> None], NEW mask, mask = [i \in Breaks |-> FALSE], NEW list,
           NEW pa \in [{p.addr : p \in Points} -> Nat]
    PROVE  HardFits(breaks, None, mask, list, {}, pa)
<1> DEFINE owner == [i \in Breaks |-> Unarmed]
<1>1. Owned(Lent(breaks, None), owner, pa)
  BY Zenon DEF Lent, Owned
<1>2. Fits(Breaks, Hard, owner, mask, list, {})
  BY FitsNothing, Zenon
<1> HIDE DEF owner
<1>3. 0 \in Breaks
  BY CortexAAssumption DEF Breaks
<1>4. breaks \in [Breaks -> Int] /\ None \in Int
  BY DEF None
<1> QED BY <1>1, <1>2, <1>3, <1>4, Zenon DEF HardFits

\* A step borrows the first comparator, a resume gives it back.
LEMMA HardLent ==
    ASSUME NEW breaks, NEW first, NEW mask, NEW list, NEW ins, NEW pa, HardFits(breaks, first, mask, list, ins, pa),
           NEW v \in {first, Step}, NEW b, b = [breaks EXCEPT ![0] = v]
    PROVE  HardFits(b, first, mask, list, ins, pa)
<1>1. breaks \in [Breaks -> Int] /\ first \in Int /\ 0 \in Breaks /\ v \in Int
  BY CortexAAssumption DEF HardFits, Breaks, Step
<1>2. b \in [Breaks -> Int] /\ b[0] = v /\ \A i \in Breaks : i # 0 => b[i] = breaks[i]
  BY <1>1, Zenon
<1>3. Lent(b, first) = Lent(breaks, first)
  BY <1>2, Zenon DEF Lent
<1> QED BY <1>1, <1>2, <1>3, Zenon DEF HardFits

\* The entries of other points come and go beside those of the comparators.
LEMMA HardOther ==
    ASSUME NEW breaks, NEW first, NEW mask, NEW list, NEW ins, NEW pa, HardFits(breaks, first, mask, list, ins, pa),
           NEW list2, NEW ins2,
           \A owner : Fits(Breaks, Hard, owner, mask, list, ins) => Fits(Breaks, Hard, owner, mask, list2, ins2)
    PROVE  HardFits(breaks, first, mask, list2, ins2, pa)
BY Zenon DEF HardFits

\* More of the soft breakpoints may be forgotten.
LEMMA Forgets ==
    ASSUME NEW mem, NEW ins, NEW lost, Replaced(mem, ins, lost), ins \in SUBSET Points
    PROVE  Replaced(mem, {}, lost \cup Soft(ins))
BY Zenon DEF Replaced, Soft

LEMMA RestoresLost ==
    ASSUME NEW list, NEW lost, NEW lost2, Restores(list, lost), lost \subseteq lost2
    PROVE  Restores(list, lost2)
BY Zenon DEF Restores

LEMMA SetHard ==
    ASSUME PointInv, NEW p \in Points, p.kind = "hard", SetPoint(p)
    PROVE  PointInv'
<1>1. PICK i : i = Min(FreeBreaks)
  BY Zenon
<1> DEFINE e == [place |-> p, reserved |-> i]
<1>2. HardSet(p) /\ a_attached /\ a_attached' = a_attached /\ p \notin a_inserted
  BY Zenon DEF SetPoint
<1>3. i \in Breaks /\ ~break_mask[i]
  <2>1. FreeBreaks \in SUBSET Nat /\ FreeBreaks # {}
    BY <1>2 DEF FreeBreaks, Breaks, HardSet
  <2>2. i \in FreeBreaks
    BY <1>1, <2>1, MinIn, SMTT(30)
  <2> QED BY <2>2, Zenon DEF FreeBreaks
<1>4. PICK v \in Physical :
        /\ break_mask' = [break_mask EXCEPT ![i] = TRUE] /\ dbgbcr' = [dbgbcr EXCEPT ![i] = v]
        /\ bcr0' = (IF i = 0 THEN v ELSE bcr0) /\ a_list' = <<e>> \o a_list /\ a_memory' = a_memory
        /\ translated' = [translated EXCEPT ![p.addr] = v] /\ forgotten' = forgotten
  BY <1>1, <1>2, Zenon DEF HardSet, SaveFirst
<1>5. e \in Items /\ e.place = p /\ a_list \in Seq(Items)
  BY <1>3 DEF Items, Breaks, Reserved, PointInv, Lists
<1>6. Len(a_list') > Len(a_list)
  <2>1. Len(<<e>> \o a_list) = Len(a_list) + 1 /\ Len(a_list) \in Nat
    BY <1>5, Prepended
  <2> QED BY <1>4, <2>1
<1>7. a_inserted' = a_inserted \cup {p} /\ v \in Nat
  BY <1>6, CortexAAssumption, Zenon DEF SetPoint
<1>8. Lists(a_list', a_inserted')
  BY <1>4, <1>5, <1>7, ListsMore, Zenon DEF PointInv
<1>9. Replaced(a_memory', a_inserted', forgotten')
  BY <1>4, <1>7, ZenonT(30) DEF PointInv, Replaced
<1>10. Restores(a_list', forgotten')
  BY <1>4, <1>5, <1>7, RestoresMore, Zenon DEF PointInv
<1>11. HardFits(dbgbcr', bcr0', break_mask', a_list', a_inserted', translated')
  <2>1. HardFits(dbgbcr, bcr0, break_mask, a_list, a_inserted, translated) /\ p \in Hard
    BY <1>2, Zenon DEF PointInv, Hard
  <2> QED BY <1>2, <1>3, <1>4, <1>5, <1>7, <2>1, HardMore, Zenon
<1>12. translated' \in [{q.addr : q \in Points} -> Nat]
  BY <1>4, <1>7, Zenon DEF PointInv
<1> QED BY <1>2, <1>8, <1>9, <1>10, <1>11, <1>12, Zenon DEF PointInv

\* What is set besides hard breakpoints, and the comparators it leaves alone.
LEMMA SetListed ==
    ASSUME PointInv, a_attached, a_attached' = a_attached, NEW e \in Items, e.place.kind # "hard",
           a_list' = <<e>> \o a_list, a_inserted' = a_inserted \cup {e.place},
           UNCHANGED <<dbgbcr, bcr0, break_mask, translated>>, Replaced(a_memory', a_inserted', forgotten'), forgotten' = forgotten,
           e.place.kind = "soft" /\ e.reserved = "bkpt" => e.place \in forgotten
    PROVE  PointInv'
<1>1. Lists(a_list', a_inserted')
  BY ListsMore, Zenon DEF PointInv
<1>2. Restores(a_list', forgotten')
  BY RestoresMore, Zenon DEF PointInv, Lists
<1>3. \A owner : Fits(Breaks, Hard, owner, break_mask, a_list, a_inserted)
                   => Fits(Breaks, Hard, owner, break_mask, a_list', a_inserted')
  BY FitsSetOther, Zenon DEF PointInv, Lists, Hard
<1>4. HardFits(dbgbcr', bcr0', break_mask', a_list', a_inserted', translated')
  BY <1>3, HardOther, Zenon DEF PointInv
<1> QED BY <1>1, <1>2, <1>4, SMTT(30) DEF PointInv

LEMMA SetWatch ==
    ASSUME PointInv, NEW p \in Points, p.kind = "watch", SetPoint(p)
    PROVE  PointInv'
<1>1. PICK i : i = Min(FreeWatches)
  BY Zenon
<1>2. PICK e : e = [place |-> p, reserved |-> i]
  BY Zenon
<1>3. WatchSet(p) /\ a_attached /\ a_attached' = a_attached
  BY Zenon DEF SetPoint
<1>4. i \in Nat
  <2>1. FreeWatches \in SUBSET Nat /\ FreeWatches # {}
    BY <1>3 DEF FreeWatches, Watches, WatchSet
  <2> QED BY <1>1, <2>1, MinIn, Zenon
<1>5. e \in Items /\ e.place = p /\ a_list \in Seq(Items)
  BY <1>2, <1>4, Zenon DEF Items, Reserved, PointInv, Lists
<1>6. a_list' = <<e>> \o a_list /\ UNCHANGED <<dbgbcr, bcr0, break_mask, a_memory, translated, forgotten>>
  BY <1>1, <1>2, <1>3, SMTT(30) DEF WatchSet
<1>7. Len(a_list') > Len(a_list)
  <2>1. Len(<<e>> \o a_list) = Len(a_list) + 1 /\ Len(a_list) \in Nat
    BY <1>5, Prepended
  <2> QED BY <1>6, <2>1
<1>8. a_inserted' = a_inserted \cup {p} /\ forgotten' = forgotten
  BY <1>6, <1>7, Zenon DEF SetPoint
<1>9. Replaced(a_memory', a_inserted', forgotten')
  BY <1>6, <1>8, Zenon DEF PointInv, Replaced
<1> QED BY <1>3, <1>5, <1>6, <1>8, <1>9, SetListed, Zenon

\* A comparator lost to a watchpoint of an odd size is none of the breakpoints'.
LEMMA SetWide ==
    ASSUME PointInv, NEW p \in Points, p.kind = "wide", SetPoint(p)
    PROVE  PointInv'
<1>1. WideWatchSet /\ a_attached' = a_attached
  BY Zenon DEF SetPoint
<1>2. UNCHANGED <<dbgbcr, bcr0, break_mask, a_memory, a_list, translated, forgotten>> /\ Len(a_list) \in Nat
  BY <1>1 DEF WideWatchSet, PointInv, Lists
<1>3. a_inserted' = a_inserted
  BY <1>2 DEF SetPoint
<1> QED BY <1>1, <1>2, <1>3, Zenon DEF PointInv

LEMMA SetSoft ==
    ASSUME PointInv, NEW p \in Points, p.kind = "soft", SetPoint(p)
    PROVE  PointInv'
<1>1. PICK e : e = [place |-> p, reserved |-> a_memory[p.addr]]
  BY Zenon
<1>2. SoftSet(p) /\ a_attached /\ a_attached' = a_attached /\ p \notin a_inserted
  BY Zenon DEF SetPoint
<1>3. PICK refused \in BOOLEAN :
        /\ a_memory' = IF refused THEN a_memory ELSE [a_memory EXCEPT ![p.addr] = "bkpt"]
        /\ a_list' = IF refused \/ mmu_fault THEN a_list ELSE <<e>> \o a_list
        /\ forgotten' = IF (refused \/ mmu_fault) /\ ~refused THEN forgotten \cup {p} ELSE forgotten
        /\ UNCHANGED <<break_mask, bcr0, dbgbcr, translated>>
  BY <1>1, <1>2, Zenon DEF SoftSet
<1>4. /\ a_list \in Seq(Items) /\ a_inserted \in SUBSET Points
      /\ a_memory \in [{q.addr : q \in Points} -> Reserved] /\ forgotten \in SUBSET Soft(Points)
  BY Zenon DEF PointInv, Lists, Replaced
<1>5. p.addr \in DOMAIN a_memory /\ DOMAIN a_memory = {q.addr : q \in Points} /\ "bkpt" \in Reserved
  BY <1>4, Zenon DEF Reserved
<1>6. e \in Items /\ e.place = p /\ e.reserved = a_memory[p.addr]
  BY <1>1, <1>4, <1>5, Zenon DEF Items
<1>7. \A a \in DOMAIN a_memory : a_memory[a] = "bkpt" => \E q \in a_inserted \cup forgotten : q.kind = "soft" /\ q.addr = a
  BY Zenon DEF PointInv, Replaced
<1>10. CASE refused
  <2>1. a_list' = a_list /\ a_memory' = a_memory /\ forgotten' = forgotten /\ Len(a_list) \in Nat
    BY <1>3, <1>4, <1>10
  <2>2. a_inserted' = a_inserted
    BY <2>1 DEF SetPoint
  <2> QED BY <1>2, <1>3, <2>1, <2>2, Zenon DEF PointInv
<1>8. CASE ~refused /\ mmu_fault
  <2>1. a_list' = a_list /\ a_inserted' = a_inserted /\ forgotten' = forgotten \cup {p}
    <3>1. a_list' = a_list /\ forgotten' = forgotten \cup {p} /\ Len(a_list) \in Nat
      BY <1>3, <1>4, <1>8
    <3>2. a_inserted' = a_inserted
      BY <3>1 DEF SetPoint
    <3> QED BY <3>1, <3>2, Zenon
  <2>2. forgotten' \in SUBSET Soft(Points)
    BY <1>4, <2>1, Zenon DEF Soft
  <2>3. a_memory' \in [{q.addr : q \in Points} -> Reserved]
    BY <1>3, <1>4, <1>5, <1>8, Zenon
  <2>4. ASSUME NEW a \in DOMAIN a_memory', a_memory'[a] = "bkpt"
        PROVE  \E q \in a_inserted' \cup forgotten' : q.kind = "soft" /\ q.addr = a
    <3>1. a \in DOMAIN a_memory
      BY <1>5, <2>3, <2>4, Zenon
    <3>2. CASE a = p.addr
      BY <2>1, <3>2, Zenon
    <3>3. CASE a # p.addr
      <4>1. a_memory[a] = "bkpt"
        BY <1>3, <1>4, <1>5, <1>8, <2>4, <3>1, <3>3, Zenon
      <4> QED BY <1>7, <2>1, <3>1, <4>1, Zenon
    <3> QED BY <3>2, <3>3, Zenon
  <2>5. Replaced(a_memory', a_inserted', forgotten')
    BY <2>2, <2>3, <2>4, Zenon DEF Replaced
  <2>6. Restores(a_list', forgotten')
    BY <2>1, RestoresLost, SMTT(30) DEF PointInv
  <2> QED BY <1>2, <1>3, <2>1, <2>5, <2>6, Zenon DEF PointInv
<1>9. CASE ~refused /\ ~mmu_fault
  <2>1. a_list' = <<e>> \o a_list /\ a_memory' = [a_memory EXCEPT ![p.addr] = "bkpt"] /\ forgotten' = forgotten
    BY <1>3, <1>9, Zenon
  <2>2. Len(a_list') > Len(a_list)
    <3>1. Len(<<e>> \o a_list) = Len(a_list) + 1 /\ Len(a_list) \in Nat
      BY <1>4, <1>6, Prepended, SMTT(30)
    <3> QED BY <2>1, <3>1
  <2>3. a_inserted' = a_inserted \cup {p} /\ forgotten' = forgotten
    BY <2>1, <2>2, Zenon DEF SetPoint
  <2>4. a_memory' \in [{q.addr : q \in Points} -> Reserved]
    BY <1>4, <1>5, <2>1, Zenon
  <2>5. ASSUME NEW a \in DOMAIN a_memory', a_memory'[a] = "bkpt"
        PROVE  \E q \in a_inserted' \cup forgotten' : q.kind = "soft" /\ q.addr = a
    <3>1. a \in DOMAIN a_memory
      BY <1>5, <2>4, <2>5, Zenon
    <3>2. CASE a = p.addr
      BY <2>3, <3>2, Zenon
    <3>3. CASE a # p.addr
      <4>1. a_memory[a] = "bkpt"
        BY <1>4, <1>5, <2>1, <2>5, <3>1, <3>3, Zenon
      <4> QED BY <1>7, <2>3, <3>1, <4>1, Zenon
    <3> QED BY <3>2, <3>3, Zenon
  <2>6. Replaced(a_memory', a_inserted', forgotten')
    BY <1>4, <2>3, <2>4, <2>5, Zenon DEF Replaced
  <2>7. ASSUME e.reserved = "bkpt" PROVE p \in forgotten
    <3>1. PICK q \in a_inserted \cup forgotten : q.kind = "soft" /\ q.addr = p.addr
      BY <1>5, <1>6, <1>7, <2>7, Zenon
    <3>2. q \in Points
      BY <1>4, Zenon DEF Soft
    <3>3. q = p
      <4>1. q = [kind |-> q.kind, addr |-> q.addr] /\ p = [kind |-> p.kind, addr |-> p.addr]
        BY <3>2, PointIs, Zenon
      <4> QED BY <3>1, <4>1, SMTT(30)
    <3> QED BY <1>2, <3>1, <3>3, SMTT(30)
  <2> QED BY <1>2, <1>3, <1>6, <2>1, <2>3, <2>6, <2>7, SetListed, Zenon
<1> QED BY <1>8, <1>9, <1>10, Zenon

\* A soft breakpoint that could not be removed stays on the list, and with it what
\* to write back.
LEMMA ClearFails ==
    ASSUME PointInv, NEW p \in Points, p.kind = "soft", p \in a_inserted, NEW v \in Reserved,
           a_memory' = a_memory \/ a_memory' = [a_memory EXCEPT ![p.addr] = v],
           UNCHANGED <<a_attached, a_list, a_inserted, dbgbcr, bcr0, break_mask, translated, forgotten>>
    PROVE  PointInv'
<1>1. a_memory \in [{q.addr : q \in Points} -> Reserved] /\ forgotten \in SUBSET Soft(Points)
  BY Zenon DEF PointInv, Replaced
<1>2. a_memory' \in [{q.addr : q \in Points} -> Reserved]
  BY <1>1, Zenon
<1>3. ASSUME NEW a \in DOMAIN a_memory', a_memory'[a] = "bkpt"
      PROVE  \E q \in a_inserted' \cup forgotten' : q.kind = "soft" /\ q.addr = a
  <2>1. a \in DOMAIN a_memory
    BY <1>1, <1>2, <1>3, Zenon
  <2>2. CASE a = p.addr
    BY <2>2, Zenon
  <2>3. CASE a # p.addr
    <3>1. a_memory[a] = "bkpt"
      BY <1>1, <1>3, <2>1, <2>3, Zenon
    <3> QED BY <2>1, <3>1, Zenon DEF PointInv, Replaced
  <2> QED BY <2>2, <2>3, Zenon
<1>4. Replaced(a_memory', a_inserted', forgotten')
  BY <1>1, <1>2, <1>3, Zenon DEF Replaced
<1> QED BY <1>4, Zenon DEF PointInv

LEMMA ClearsPoint ==
    ASSUME PointInv, NEW p \in Points, ClearPoint(p)
    PROVE  PointInv'
<1> USE DEF HardClear, WatchClear, SoftClear
<1>1. PICK n : n = Newest(p)
  BY Zenon
<1>2. PICK i : i = a_list[n].reserved
  BY Zenon
<1>3. /\ a_list \in Seq(Items) /\ a_inserted \in SUBSET Points
      /\ a_memory \in [{q.addr : q \in Points} -> Reserved] /\ forgotten \in SUBSET Soft(Points)
  BY Zenon DEF PointInv, Lists, Replaced
<1>0. /\ a_attached /\ a_attached' = a_attached /\ p \in a_inserted
      /\ forgotten' = forgotten
      /\ translated' = IF p.kind = "hard" THEN [translated EXCEPT ![p.addr] = 0] ELSE translated
      /\ translated \in [{q.addr : q \in Points} -> Nat] /\ 0 \in Nat
  BY Zenon DEF ClearPoint, PointInv
<1>17. translated' \in [{q.addr : q \in Points} -> Nat]
  BY <1>0, Zenon
<1>18. ASSUME p.kind # "hard" PROVE translated' = translated
  BY <1>0, <1>18, Zenon
<1>5. n \in 1..Len(a_list) /\ NewestAt(a_list, n, p) /\ a_list[n].place = p
  <2>1. \E k \in 1..Len(a_list) : a_list[k].place = p
    BY <1>0, Zenon DEF PointInv, Lists
  <2>2. n \in 1..Len(a_list) /\ NewestAt(a_list, n, p)
    BY <1>1, <1>3, <2>1, FirstNewest, Zenon DEF Newest
  <2> QED BY <2>2, Zenon DEF NewestAt
<1>7. p.kind # "wide" /\ i \in Reserved
  <2>1. a_list[n] \in Items
    BY <1>3, <1>5
  <2> QED BY <1>2, <1>5, <2>1, Zenon DEF Items
<1>15. PICK refused \in BOOLEAN :
         /\ CASE p.kind = "hard" -> HardClear(a_list[n])
              [] p.kind = "watch" -> WatchClear(a_list[n])
              [] OTHER -> SoftClear(a_list[n], refused)
         /\ a_list' = IF p.kind = "soft" /\ (refused \/ mmu_fault) THEN a_list ELSE RemoveAt(a_list, n)
         /\ a_inserted' = IF p.kind = "soft" /\ (refused \/ mmu_fault) THEN a_inserted ELSE a_inserted \ {p}
  BY <1>1, Zenon DEF ClearPoint, a_Unlinked, RemoveAt
<1>16. CASE p.kind = "soft" /\ (refused \/ mmu_fault)
  <2>1. /\ a_memory' = a_memory \/ a_memory' = [a_memory EXCEPT ![p.addr] = i]
        /\ UNCHANGED <<a_list, a_inserted, dbgbcr, bcr0, break_mask>>
    BY <1>2, <1>5, <1>15, <1>16, Zenon
  <2>2. translated' = translated
    BY <1>16, <1>18
  <2> QED BY <1>0, <1>7, <1>16, <2>1, <2>2, ClearFails, Zenon
<1> SUFFICES ASSUME ~(p.kind = "soft" /\ (refused \/ mmu_fault)) PROVE PointInv'
  BY <1>16, Zenon
<1>4. /\ a_attached /\ a_attached' = a_attached /\ p \in a_inserted
      /\ a_list' = RemoveAt(a_list, n) /\ a_inserted' = a_inserted \ {p} /\ forgotten' = forgotten
  BY <1>0, <1>15, Zenon
<1>6. Lists(a_list', a_inserted') /\ Restores(a_list', forgotten')
  BY <1>3, <1>4, <1>5, ListsLess, RestoresLess, Zenon DEF PointInv
<1>8. HardFits(dbgbcr, bcr0, break_mask, a_list, a_inserted, translated)
  BY <1>4, Zenon DEF PointInv
<1>9. \A a \in DOMAIN a_memory : a_memory[a] = "bkpt" => \E q \in a_inserted \cup forgotten : q.kind = "soft" /\ q.addr = a
  BY Zenon DEF PointInv, Replaced
<1>10. ASSUME p.kind # "soft" PROVE Replaced(a_memory, a_inserted', forgotten')
  <2>1. \A q \in a_inserted \cup forgotten : q.kind = "soft" => q \in a_inserted' \cup forgotten'
    BY <1>4, <1>10, Zenon
  <2>2. \A a \in DOMAIN a_memory : a_memory[a] = "bkpt" => \E q \in a_inserted' \cup forgotten' : q.kind = "soft" /\ q.addr = a
    BY <1>9, <2>1, Zenon
  <2> QED BY <1>3, <1>4, <2>2, Zenon DEF Replaced
<1>11. ASSUME p.kind # "hard", UNCHANGED <<dbgbcr, bcr0, break_mask>>
       PROVE  HardFits(dbgbcr', bcr0', break_mask', a_list', a_inserted', translated')
  <2>1. a_list[n].place \notin Hard
    BY <1>5, <1>11, Zenon DEF Hard
  <2>2. \A owner : Fits(Breaks, Hard, owner, break_mask, a_list, a_inserted)
                     => Fits(Breaks, Hard, owner, break_mask, a_list', a_inserted')
    BY <1>3, <1>4, <1>5, <2>1, FitsClearOther, Zenon
  <2> QED BY <1>8, <1>11, <1>18, <2>2, HardOther, Zenon
<1>12. CASE p.kind = "hard"
  <2>1. /\ break_mask' = [break_mask EXCEPT ![i] = FALSE] /\ dbgbcr' = [dbgbcr EXCEPT ![i] = None]
        /\ bcr0' = (IF i = 0 THEN None ELSE bcr0) /\ a_memory' = a_memory
    BY <1>2, <1>12, <1>15, Zenon
  <2>2. p \in Hard
    BY <1>12, SMTT(30) DEF Hard
  <2>5. HardFits(dbgbcr', bcr0', break_mask', a_list', a_inserted', translated)
    BY <1>2, <1>3, <1>4, <1>5, <1>8, <2>1, <2>2, HardLess, ZenonT(60)
  <2>6. translated' = [translated EXCEPT ![p.addr] = 0] /\ p \notin a_inserted'
    BY <1>0, <1>4, <1>12, Zenon
  <2>3. HardFits(dbgbcr', bcr0', break_mask', a_list', a_inserted', translated')
    BY <2>2, <2>5, <2>6, HardUntranslated, Zenon
  <2>4. Replaced(a_memory', a_inserted', forgotten')
    BY <1>10, <1>12, <2>1, Zenon
  <2> QED BY <1>0, <1>4, <1>6, <1>17, <2>3, <2>4, Zenon DEF PointInv
<1>13. CASE p.kind = "watch"
  <2>1. UNCHANGED <<dbgbcr, bcr0, break_mask>> /\ a_memory' = a_memory
    BY <1>13, <1>15, Zenon
  <2>2. HardFits(dbgbcr', bcr0', break_mask', a_list', a_inserted', translated')
    BY <1>11, <1>13, <2>1, Zenon
  <2>3. Replaced(a_memory', a_inserted', forgotten')
    BY <1>10, <1>13, <2>1, ZenonT(60)
  <2> QED BY <1>0, <1>4, <1>6, <1>17, <2>2, <2>3, Zenon DEF PointInv
<1>14. CASE p.kind = "soft"
  <2>1. UNCHANGED <<dbgbcr, bcr0, break_mask>> /\ a_memory' = [a_memory EXCEPT ![p.addr] = i]
    BY <1>2, <1>5, <1>14, <1>15, Zenon
  <2>2. HardFits(dbgbcr', bcr0', break_mask', a_list', a_inserted', translated')
    BY <1>11, <1>14, <2>1, Zenon
  <2>3. a_memory' \in [{q.addr : q \in Points} -> Reserved]
    BY <1>3, <1>7, <2>1, Zenon
  <2>4. i = "bkpt" => p \in forgotten
    BY <1>2, <1>5, <1>14, Zenon DEF PointInv, Restores
  <2>5. ASSUME NEW a \in DOMAIN a_memory', a_memory'[a] = "bkpt"
        PROVE  \E q \in a_inserted' \cup forgotten' : q.kind = "soft" /\ q.addr = a
    <3>1. a \in DOMAIN a_memory
      BY <1>3, <2>3, <2>5, Zenon
    <3>2. CASE a = p.addr
      <4>1. i = "bkpt"
        BY <1>3, <2>1, <2>5, <3>1, <3>2, Zenon
      <4> QED BY <1>4, <1>14, <2>4, <3>2, <4>1, Zenon
    <3>3. CASE a # p.addr
      <4>1. a_memory[a] = "bkpt"
        BY <1>3, <2>1, <2>5, <3>1, <3>3, Zenon
      <4>2. PICK q \in a_inserted \cup forgotten : q.kind = "soft" /\ q.addr = a
        BY <1>9, <3>1, <4>1, SMTT(30)
      <4> QED BY <1>4, <3>3, <4>2, Zenon
    <3> QED BY <3>2, <3>3, Zenon
  <2>6. Replaced(a_memory', a_inserted', forgotten')
    BY <1>3, <1>4, <2>3, <2>5, Zenon DEF Replaced
  <2> QED BY <1>0, <1>4, <1>6, <1>17, <2>2, <2>6, Zenon DEF PointInv
<1> QED BY <1>7, <1>12, <1>13, <1>14, PointIs, Zenon

LEMMA PointInit ==
    ASSUME CortexAInit
    PROVE  PointInv
<1>1. a_attached = FALSE /\ a_list = <<>> /\ a_inserted = {} /\ forgotten = {}
  BY Zenon DEF CortexAInit
<1>2. a_memory = [a \in {p.addr : p \in Points} |-> "code"]
  BY Zenon DEF CortexAInit
<1>3. <<>> \in Seq(Items) /\ Len(<<>>) = 0
  OBVIOUS
<1>4. Lists(a_list, a_inserted) /\ Restores(a_list, forgotten)
  BY <1>1, <1>3 DEF Lists, Restores
<1>5. Replaced(a_memory, a_inserted, forgotten)
  BY <1>1, <1>2, SMTT(30) DEF Replaced, Reserved
<1>6. translated \in [{p.addr : p \in Points} -> Nat]
  <2>1. translated = [a \in {p.addr : p \in Points} |-> 0] /\ 0 \in Nat
    BY <1>2, Zenon DEF CortexAInit
  <2> QED BY <2>1, Zenon
<1> QED BY <1>1, <1>4, <1>5, <1>6, Zenon DEF PointInv

LEMMA PointNext ==
    ASSUME PointInv, [CortexANext]_cortexAVars
    PROVE  PointInv'
<1>0. /\ a_attached \in BOOLEAN /\ translated \in [{p.addr : p \in Points} -> Nat]
      /\ Lists(a_list, a_inserted) /\ Replaced(a_memory, a_inserted, forgotten) /\ Restores(a_list, forgotten)
      /\ a_attached => HardFits(dbgbcr, bcr0, break_mask, a_list, a_inserted, translated)
  BY Zenon DEF PointInv
<1>1. ASSUME UNCHANGED <<a_attached, a_pointVars>> PROVE PointInv'
  BY <1>0, <1>1, Zenon DEF PointInv, a_pointVars
<1>10. [a \in DOMAIN a_memory |-> 0] \in [{p.addr : p \in Points} -> Nat]
  <2>1. DOMAIN a_memory = {p.addr : p \in Points} /\ 0 \in Nat
    BY <1>0, Zenon DEF Replaced
  <2> QED BY <2>1, Zenon
<1>2. CASE \/ cortexa_attach \/ AttachFails \/ AccessMemory \/ cortexa_halt_request \/ cortexa_halt_poll
           \/ CoreStops \/ UNCHANGED cortexAVars \/ \E r \in {"r0", "cpsr"} : WriteRegister(r)
  <2>1. UNCHANGED <<a_attached, a_pointVars>>
    BY <1>2, Zenon DEF cortexa_attach, AttachFails, AccessMemory, cortexa_halt_request, cortexa_halt_poll, CoreStops,
                cortexAVars, WriteRegister, a_probeVars
  <2> QED BY <1>1, <2>1, SMTT(30)
<1>3. CASE AttachPolled
  <2>1. /\ a_attached' = TRUE /\ a_inserted' = {} /\ forgotten' = forgotten \cup Soft(a_inserted)
        /\ dbgbcr' = [i \in Breaks |-> None] /\ break_mask' = [i \in Breaks |-> FALSE] /\ bcr0' = None
        /\ UNCHANGED <<a_list, a_memory, translated>>
    BY <1>3, Zenon DEF AttachPolled
  <2>2. HardFits(dbgbcr', bcr0', break_mask', a_list', a_inserted', translated')
    BY <1>0, <2>1, HardNone, Zenon
  <2>3. Lists(a_list', a_inserted')
    BY <1>0, <2>1, SMTT(30) DEF Lists
  <2>4. Replaced(a_memory', a_inserted', forgotten')
    BY <1>0, <2>1, Forgets, Zenon DEF Lists
  <2>5. Restores(a_list', forgotten')
    BY <1>0, <2>1, RestoresLost
  <2> QED BY <1>0, <2>1, <2>2, <2>3, <2>4, <2>5, Zenon DEF PointInv
<1>4. CASE cortexa_detach
  <2>1. a_attached' = FALSE /\ UNCHANGED <<a_list, a_inserted, a_memory, forgotten>>
    BY <1>4, Zenon DEF cortexa_detach
  <2>2. translated' \in [{p.addr : p \in Points} -> Nat]
    BY <1>4, <1>10, Zenon DEF cortexa_detach
  <2> QED BY <1>0, <2>1, <2>2, Zenon DEF PointInv
<1>5. ASSUME NEW p \in Points, SetPoint(p) PROVE PointInv'
  BY <1>5, SetHard, SetWatch, SetWide, SetSoft, PointIs, Zenon
<1>6. ASSUME NEW p \in Points, ClearPoint(p) PROVE PointInv'
  BY <1>6, ClearsPoint, Zenon
<1>7. ASSUME NEW step \in BOOLEAN, cortexa_halt_resume(step) PROVE PointInv'
  <2>1. PICK v : v = IF step THEN Step ELSE bcr0
    BY Zenon
  <2>2. /\ a_attached /\ dbgbcr' = [dbgbcr EXCEPT ![0] = v]
        /\ UNCHANGED <<a_attached, bcr0, break_mask, a_list, a_inserted, a_memory, translated, forgotten>>
    BY <1>7, <2>1, Zenon DEF cortexa_halt_resume
  <2>3. v \in {bcr0, Step}
    BY <2>1, Zenon
  <2>4. HardFits(dbgbcr', bcr0', break_mask', a_list', a_inserted', translated')
    BY <1>0, <2>2, <2>3, HardLent, ZenonT(30)
  <2> QED BY <1>0, <2>2, <2>4, Zenon DEF PointInv
<1>8. CASE LinkError
  <2>1. /\ a_attached' = FALSE /\ a_list' = <<>> /\ a_inserted' = {} /\ a_memory' = a_memory
        /\ forgotten' = forgotten \cup Soft(a_inserted)
    BY <1>8, Zenon DEF LinkError
  <2>5. translated' \in [{p.addr : p \in Points} -> Nat]
    BY <1>8, <1>10, Zenon DEF LinkError
  <2>2. <<>> \in Seq(Items) /\ Len(<<>>) = 0
    OBVIOUS
  <2>3. Lists(a_list', a_inserted') /\ Restores(a_list', forgotten')
    BY <2>1, <2>2, SMTT(30) DEF Lists, Restores
  <2>4. Replaced(a_memory', a_inserted', forgotten')
    BY <1>0, <2>1, Forgets, Zenon DEF Lists
  <2> QED BY <1>0, <2>1, <2>3, <2>4, <2>5, Zenon DEF PointInv
<1>9. CASE cortexa_reset
  <2>1. /\ a_attached' = a_attached /\ a_inserted = {} /\ dbgbcr' = [i \in Breaks |-> None]
        /\ break_mask' = [i \in Breaks |-> FALSE] /\ bcr0' = None
        /\ UNCHANGED <<a_list, a_inserted, a_memory, translated, forgotten>>
    BY <1>9, Zenon DEF cortexa_reset
  <2>2. HardFits(dbgbcr', bcr0', break_mask', a_list', a_inserted', translated')
    BY <1>0, <2>1, HardNone, Zenon
  <2> QED BY <1>0, <2>1, <2>2, Zenon DEF PointInv
<1> QED BY <1>2, <1>3, <1>4, <1>5, <1>6, <1>7, <1>8, <1>9, Zenon DEF CortexANext

LEMMA PointExact ==
    ASSUME PointInv
    PROVE  PointsExact
<1> SUFFICES ASSUME a_attached PROVE PointsExact
  BY Zenon DEF PointsExact
<1> DEFINE c == Lent(dbgbcr, bcr0)
<1>1. /\ dbgbcr \in [Breaks -> Int] /\ bcr0 \in Int /\ dbgbcr[0] \in {bcr0, Step}
      /\ a_inserted \in SUBSET Points /\ translated \in [{p.addr : p \in Points} -> Nat]
  BY Zenon DEF PointInv, HardFits, Lists
<1>2. PICK owner : Fits(Breaks, Hard, owner, break_mask, a_list, a_inserted) /\ Owned(c, owner, translated)
  BY Zenon DEF PointInv, HardFits
<1>3. /\ owner \in [Breaks -> Int]
      /\ \A i \in Breaks : break_mask[i] <=> owner[i] # Unarmed
      /\ \A i, j \in Breaks : owner[i] = owner[j] /\ owner[i] # Unarmed => i = j
      /\ \A i \in Breaks : owner[i] # Unarmed => \E p \in a_inserted : p \in Hard /\ p.addr = owner[i]
      /\ \A p \in a_inserted : p \in Hard => \E i \in Breaks : owner[i] = p.addr
  BY <1>2, Zenon DEF Fits
<1>8. \A i \in Breaks : c[i] = IF i = 0 THEN bcr0 ELSE dbgbcr[i]
  BY Zenon DEF Lent
<1> HIDE DEF c
<1>9. ASSUME NEW i \in Breaks
      PROVE  /\ owner[i] = Unarmed => c[i] = None
             /\ owner[i] # Unarmed => c[i] \in Nat /\ c[i] = translated[owner[i]]
  <2>1. c[i] = IF owner[i] = Unarmed THEN None ELSE translated[owner[i]]
    BY <1>2, Zenon DEF Owned
  <2>2. ASSUME owner[i] # Unarmed PROVE owner[i] \in {p.addr : p \in Points}
    <3>1. PICK p \in a_inserted : p.addr = owner[i]
      BY <1>3, <2>2, Zenon
    <3> QED BY <1>1, <3>1, Zenon
  <2> QED BY <1>1, <2>1, <2>2, Zenon
<1>10. \A x \in Nat : x # None /\ x # Step /\ x # Unarmed
  BY DEF None, Step, Unarmed
<1>4. ASSUME dbgbcr[0] # Step
      PROVE  \E at \in Bijection({p \in a_inserted : p.kind = "hard"}, {i \in Breaks : dbgbcr[i] # None}) :
                \A p \in DOMAIN at : dbgbcr[at[p]] = translated[p.addr]
  <2> DEFINE H == {p \in a_inserted : p.kind = "hard"}
             On == {i \in Breaks : dbgbcr[i] # None}
             at == [p \in H |-> CHOOSE i \in Breaks : owner[i] = p.addr]
  <2>1. \A i \in Breaks : c[i] = dbgbcr[i]
    BY <1>1, <1>4, <1>8, Zenon
  <2>2. \A p : p \in H <=> p \in a_inserted /\ p \in Hard
    BY <1>1, Zenon DEF Hard
  <2>3. ASSUME NEW p \in H
        PROVE  at[p] \in Breaks /\ owner[at[p]] = p.addr /\ owner[at[p]] # Unarmed
    <3>1. \E i \in Breaks : owner[i] = p.addr
      BY <1>3, <2>2, Zenon
    <3>2. p.addr \in Nat
      BY <1>1, PointIs, Zenon
    <3>3. at[p] = CHOOSE i \in Breaks : owner[i] = p.addr
      BY Zenon
    <3> HIDE DEF at
    <3> QED BY <1>10, <3>1, <3>2, <3>3, Zenon
  <2>4. DOMAIN at = H /\ at = [p \in H |-> at[p]]
    OBVIOUS
  <2> HIDE DEF at
  <2>5. ASSUME NEW p \in H PROVE at[p] \in On /\ dbgbcr[at[p]] = translated[p.addr]
    BY <1>9, <1>10, <2>1, <2>3, Zenon
  <2>6. at \in [H -> On]
    BY <2>4, <2>5, Zenon
  <2>7. ASSUME NEW p \in H, NEW q \in H, at[p] = at[q] PROVE p = q
    <3>1. p.addr = q.addr
      BY <2>3, <2>7, Zenon
    <3> QED BY <2>2, <3>1, HardAddressed, Zenon DEF Addressed
  <2>8. ASSUME NEW i \in On PROVE \E p \in H : at[p] = i
    <3>1. i \in Breaks /\ owner[i] # Unarmed
      BY <1>9, <2>1, Zenon
    <3>2. PICK p \in a_inserted : p \in Hard /\ p.addr = owner[i]
      BY <1>3, <3>1, Zenon
    <3>3. p \in H
      BY <2>2, <3>2, Zenon
    <3>4. at[p] = i
      <4>1. at[p] \in Breaks /\ owner[at[p]] = owner[i]
        BY <2>3, <3>2, <3>3, Zenon
      <4> QED BY <1>3, <3>1, <4>1, Zenon
    <3> QED BY <3>3, <3>4, Zenon
  <2> HIDE DEF H, On
  <2>9. at \in Bijection(H, On)
    BY <2>4, <2>6, <2>7, <2>8, Zenon DEF Bijection, Injection, Surjection, IsInjective
  <2> QED BY <2>4, <2>5, <2>9, Zenon DEF H, On
<1>5. ASSUME NEW i \in Breaks, dbgbcr[i] \in Nat PROVE break_mask[i]
  <2>1. c[i] = dbgbcr[i]
    BY <1>1, <1>5, <1>8, <1>10, Zenon
  <2> QED BY <1>3, <1>5, <1>9, <1>10, <2>1, Zenon
<1>6. ASSUME NEW i \in Breaks, break_mask[i], i # 0 PROVE dbgbcr[i] \in Nat
  BY <1>3, <1>6, <1>8, <1>9, Zenon
<1>7. ASSUME NEW a \in DOMAIN a_memory, a_memory[a] = "bkpt" PROVE \E p \in Soft(a_inserted) \cup forgotten : p.addr = a
  <2>1. PICK p \in a_inserted \cup forgotten : p.kind = "soft" /\ p.addr = a
    BY <1>7, Zenon DEF PointInv, Replaced
  <2> QED BY <2>1, Zenon DEF Soft
<1> QED BY <1>4, <1>5, <1>6, <1>7, Zenon DEF PointsExact

\* The breakpoint comparators of a Cortex-A that runs are those that GDB has set, each
\* with the address that va_to_pa answered, the one that cortexa_halt_resume lends to
\* single steps included, and no instruction stays replaced in memory without a breakpoint that accounts for it.
THEOREM PointsKept == CortexASpec => []PointsExact
BY PointInit, PointNext, PointExact, PTL DEF CortexASpec

=============================================================================
