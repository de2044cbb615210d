---------------------------- MODULE TargetProofs ----------------------------
(***************************************************************************)
(* The targets that a scan finds.  A debug port and an access port live as *)
(* long as somebody counts on them, for every number of ports and targets  *)
(* and wherever a scan fails.  cur_target and last_target never dangle, and*)
(* as long as the firmware lives the list is the heap, for any number of   *)
(* targets and whatever exceptions are raised.  And when nothing is raised,*)
(* what GDB was promised: stop replies and release.                        *)
(***************************************************************************)
EXTENDS AdiScan, GdbSession, FiniteSetTheorems, TLAPS

---------------------------------------------------------------------------
(* The ports that a scan finds.                                            *)


ApType == [dp : Nat, ref : Int]
TargetType == [kind : Kinds, ap : Nat, halted : BOOLEAN]

\* The targets T of an access port a, and the access ports A of a debug port d.
TargetsAt(T, a) == {t \in DOMAIN T : T[t].ap = a}
PortsAt(A, d) == {a \in DOMAIN A : A[a].dp = d /\ A[a].ref # -1}

\* A count r covers n users, and counts nothing else.
Covers(r, n) == IF r = -1 THEN n = 0 ELSE r >= n
Exactly(r, n) == r # -1 => r = n

\* The scan itself uses the ports it is at.
Scans(a) == IF spc = "probe" /\ a = Len(aps) THEN 1 ELSE 0
Enters(d) == IF spc \in {"aps", "probe"} /\ d = Len(dps) THEN 1 ELSE 0

ScanTypes ==
    /\ spc \in {"idle", "freed", "ports", "init", "aps", "probe"}
    /\ dps \in Seq(Int) /\ aps \in Seq(ApType) /\ targets \in Seq(TargetType)
    /\ halted \in BOOLEAN /\ lost \in BOOLEAN
    /\ \A a \in DOMAIN aps : aps[a].dp \in DOMAIN dps
    /\ \A t \in DOMAIN targets : targets[t].ap \in DOMAIN aps
    /\ spc \in {"init", "aps", "probe"} => Len(dps) > 0
    /\ spc = "probe" => Len(aps) > 0
    /\ spc = "freed" => targets = <<>>

ApsCounted ==
    \A a \in DOMAIN aps :
        /\ aps[a].ref >= -1 /\ aps[a].ref # 0
        /\ Covers(aps[a].ref, Cardinality(TargetsAt(targets, a)) + Scans(a))
        /\ ~lost => Exactly(aps[a].ref, Cardinality(TargetsAt(targets, a)) + Scans(a))

DpsCounted ==
    \A d \in DOMAIN dps :
        /\ dps[d] >= -1
        /\ Covers(dps[d], Cardinality(PortsAt(aps, d)) + Enters(d))
        /\ ~lost => Exactly(dps[d], Cardinality(PortsAt(aps, d)) + Enters(d))
        /\ spc = "init" /\ d = Len(dps) => dps[d] = 0
        /\ dps[d] = 0 => lost \/ (spc = "init" /\ d = Len(dps))

HaltsEnd ==
    /\ halted => spc = "probe"
    /\ spc \notin {"idle", "freed"} => under_reset = connect_assert_nrst
    /\ \A t \in DOMAIN targets : targets[t].halted =>
          /\ targets[t].kind = "cortexm"
          /\ ~lost /\ ~under_reset => spc = "probe" /\ targets[t].ap = Len(aps)

ScanInv == ScanTypes /\ ApsCounted /\ DpsCounted /\ HaltsEnd

\* k users of n leave: the count goes down by as many, or becomes free.
LEMMA Dropping ==
    ASSUME NEW r \in Int, NEW n \in Nat, NEW k \in Nat, r >= -1, Covers(r, n), k <= n
    PROVE  /\ Dropped(r, k) \in Int /\ Dropped(r, k) >= -1
           /\ Covers(Dropped(r, k), n - k)
           /\ r # 0 => Dropped(r, k) # 0
           /\ Exactly(r, n) => Exactly(Dropped(r, k), n - k)
           /\ r = -1 => Dropped(r, k) = -1
  BY DEF Dropped, Covers, Exactly

\* The users of a port can be counted.
LEMMA TargetsFinite ==
    ASSUME NEW T \in Seq(TargetType), NEW a
    PROVE  IsFiniteSet(TargetsAt(T, a)) /\ Cardinality(TargetsAt(T, a)) \in Nat
<1>1. IsFiniteSet(DOMAIN T)
  BY FS_Interval
<1> QED BY <1>1, FS_Subset, FS_CardinalityType, Zenon DEF TargetsAt

LEMMA PortsFinite ==
    ASSUME NEW A \in Seq(ApType), NEW d
    PROVE  IsFiniteSet(PortsAt(A, d)) /\ Cardinality(PortsAt(A, d)) \in Nat
<1>1. IsFiniteSet(DOMAIN A)
  BY FS_Interval
<1> QED BY <1>1, FS_Subset, FS_CardinalityType, Zenon DEF PortsAt

\* The access ports that are freed leave their debug port.
LEMMA PortsLeave ==
    ASSUME NEW A \in Seq(ApType), NEW B \in Seq(ApType), NEW d, DOMAIN B = DOMAIN A,
           \A a \in DOMAIN A : B[a].dp = A[a].dp /\ (A[a].ref = -1 => B[a].ref = -1)
    PROVE  LET gone == {a \in DOMAIN A : A[a].dp = d /\ A[a].ref # -1 /\ B[a].ref = -1}
           IN  /\ Cardinality(gone) \in Nat
               /\ Cardinality(gone) <= Cardinality(PortsAt(A, d))
               /\ Cardinality(PortsAt(B, d)) = Cardinality(PortsAt(A, d)) - Cardinality(gone)
<1> DEFINE gone == {a \in DOMAIN A : A[a].dp = d /\ A[a].ref # -1 /\ B[a].ref = -1}
<1>1. gone \subseteq PortsAt(A, d)
  BY Zenon DEF PortsAt
<1>2. PortsAt(B, d) = PortsAt(A, d) \ gone
  BY Zenon DEF PortsAt
<1>3. PortsAt(A, d) \cap gone = gone
  BY <1>1, Zenon
<1> HIDE DEF gone
<1>4. IsFiniteSet(PortsAt(A, d)) /\ Cardinality(PortsAt(A, d)) \in Nat
  BY PortsFinite, Zenon
<1>5. IsFiniteSet(gone) /\ Cardinality(gone) \in Nat /\ Cardinality(gone) <= Cardinality(PortsAt(A, d))
  BY <1>1, <1>4, FS_Subset, FS_CardinalityType, Zenon
<1>6. Cardinality(PortsAt(B, d)) = Cardinality(PortsAt(A, d)) - Cardinality(gone)
  <2>1. Cardinality(PortsAt(A, d) \ gone) = Cardinality(PortsAt(A, d)) - Cardinality(PortsAt(A, d) \cap gone)
    BY <1>4, FS_Difference, Zenon
  <2> QED BY <1>2, <1>3, <2>1, Zenon
<1> QED BY <1>5, <1>6, Zenon DEF gone

\* A new user is one more, at its own port and at no other.
LEMMA TargetsGrow ==
    ASSUME NEW T \in Seq(TargetType), NEW x \in TargetType, NEW a
    PROVE  Cardinality(TargetsAt(Append(T, x), a)) = Cardinality(TargetsAt(T, a)) + IF x.ap = a THEN 1 ELSE 0
<1> DEFINE n == Len(T) + 1
<1>1. DOMAIN Append(T, x) = 1..n /\ Append(T, x)[n] = x /\ \A t \in 1..Len(T) : Append(T, x)[t] = T[t]
  OBVIOUS
<1>2. n \notin TargetsAt(T, a)
  BY DEF TargetsAt
<1>3. IsFiniteSet(TargetsAt(T, a)) /\ Cardinality(TargetsAt(T, a)) \in Nat
  BY TargetsFinite, Zenon
<1>4. CASE x.ap = a
  <2>1. TargetsAt(Append(T, x), a) = TargetsAt(T, a) \cup {n}
    BY <1>1, <1>4 DEF TargetsAt
  <2>2. Cardinality(TargetsAt(T, a) \cup {n}) = Cardinality(TargetsAt(T, a)) + 1
    BY <1>2, <1>3, FS_AddElement, Zenon
  <2> QED BY <1>4, <2>1, <2>2, Zenon
<1>5. CASE x.ap # a
  <2>1. TargetsAt(Append(T, x), a) = TargetsAt(T, a)
    BY <1>1, <1>5 DEF TargetsAt
  <2> QED BY <1>3, <1>5, <2>1
<1> QED BY <1>4, <1>5, Zenon

LEMMA PortsGrow ==
    ASSUME NEW A \in Seq(ApType), NEW x \in ApType, NEW d, x.ref # -1
    PROVE  Cardinality(PortsAt(Append(A, x), d)) = Cardinality(PortsAt(A, d)) + IF x.dp = d THEN 1 ELSE 0
<1> DEFINE n == Len(A) + 1
<1>1. DOMAIN Append(A, x) = 1..n /\ Append(A, x)[n] = x /\ \A t \in 1..Len(A) : Append(A, x)[t] = A[t]
  OBVIOUS
<1>2. n \notin PortsAt(A, d)
  BY DEF PortsAt
<1>3. IsFiniteSet(PortsAt(A, d)) /\ Cardinality(PortsAt(A, d)) \in Nat
  BY PortsFinite, Zenon
<1>4. CASE x.dp = d
  <2>1. PortsAt(Append(A, x), d) = PortsAt(A, d) \cup {n}
    BY <1>1, <1>4 DEF PortsAt
  <2>2. Cardinality(PortsAt(A, d) \cup {n}) = Cardinality(PortsAt(A, d)) + 1
    BY <1>2, <1>3, FS_AddElement, Zenon
  <2> QED BY <1>4, <2>1, <2>2, Zenon
<1>5. CASE x.dp # d
  <2>1. PortsAt(Append(A, x), d) = PortsAt(A, d)
    BY <1>1, <1>5, SMTT(60) DEF PortsAt
  <2> QED BY <1>3, <1>5, <2>1
<1> QED BY <1>4, <1>5, Zenon

\* What adiv5_ap_unref does to the debug ports.
LEMMA DpsDrop ==
    ASSUME DpsCounted, ScanTypes, aps' \in Seq(ApType), DOMAIN aps' = DOMAIN aps,
           \A a \in DOMAIN aps : aps'[a].dp = aps[a].dp /\ (aps[a].ref = -1 => aps'[a].ref = -1),
           dps' = [d \in DOMAIN dps |->
                     Dropped(dps[d], Cardinality({a \in DOMAIN aps :
                                aps[a].dp = d /\ aps[a].ref # -1 /\ aps'[a].ref = -1}))]
    PROVE  /\ dps' \in Seq(Int) /\ DOMAIN dps' = DOMAIN dps /\ Len(dps') = Len(dps)
           /\ \A d \in DOMAIN dps :
                /\ dps'[d] >= -1
                /\ Covers(dps'[d], Cardinality(PortsAt(aps', d)) + Enters(d))
                /\ ~lost => Exactly(dps'[d], Cardinality(PortsAt(aps', d)) + Enters(d))
                /\ dps'[d] = 0 => dps[d] = 0
<1> DEFINE gone(d) == {a \in DOMAIN aps : aps[a].dp = d /\ aps[a].ref # -1 /\ aps'[a].ref = -1}
<1>1. ASSUME NEW d \in DOMAIN dps
      PROVE  /\ dps'[d] \in Int /\ dps'[d] >= -1
             /\ Covers(dps'[d], Cardinality(PortsAt(aps', d)) + Enters(d))
             /\ ~lost => Exactly(dps'[d], Cardinality(PortsAt(aps', d)) + Enters(d))
             /\ dps'[d] = 0 => dps[d] = 0
  <2>1. PICK k : k = Cardinality(gone(d))
    BY Zenon
  <2>2. PICK n : n = Cardinality(PortsAt(aps, d))
    BY Zenon
  <2>3. PICK e : e = Enters(d)
    BY Zenon
  <2>4. k \in Nat /\ k <= n /\ Cardinality(PortsAt(aps', d)) = n - k
    <3>1. aps \in Seq(ApType)
      BY Zenon DEF ScanTypes
    <3> QED BY <2>1, <2>2, <3>1, PortsLeave, SMTT(60)
  <2>5. n \in Nat /\ e \in Nat
    BY <2>2, <2>3, PortsFinite, Zenon DEF ScanTypes, Enters
  <2>6. dps[d] \in Int /\ dps[d] >= -1 /\ Covers(dps[d], n + e) /\ (~lost => Exactly(dps[d], n + e))
    BY <2>2, <2>3 DEF DpsCounted, ScanTypes
  <2>7. dps'[d] = Dropped(dps[d], k)
    BY <2>1, Zenon
  <2>8. (n - k) + e = (n + e) - k /\ k <= n + e /\ n + e \in Nat
    BY <2>4, <2>5
  <2>9. /\ Dropped(dps[d], k) \in Int /\ Dropped(dps[d], k) >= -1
        /\ Covers(Dropped(dps[d], k), (n + e) - k)
        /\ dps[d] # 0 => Dropped(dps[d], k) # 0
        /\ Exactly(dps[d], n + e) => Exactly(Dropped(dps[d], k), (n + e) - k)
    BY <2>4, <2>6, <2>8, Dropping, Zenon
  <2> QED BY <2>3, <2>4, <2>6, <2>7, <2>8, <2>9, Zenon
<1>2. DOMAIN dps = 1..Len(dps) /\ Len(dps) \in Nat
  BY DEF ScanTypes
<1>3. dps' \in [1..Len(dps) -> Int]
  BY <1>1, <1>2, Zenon
<1> QED BY <1>1, <1>2, <1>3, SMTT(60)

\* target_list_free: the targets go first, and their ports with the last of them.
LEMMA FreedInv ==
    ASSUME ScanInv, ScanStart \/ FreeList
    PROVE  ScanInv'
<1>1. /\ spc = "idle" /\ spc' \in {"idle", "freed"} /\ halted' = halted /\ targets' = <<>>
      /\ lost' = (lost \/ \E t \in DOMAIN targets : targets[t].kind = "cortexa")
      /\ UnrefAps(Releases) /\ DOMAIN targets' = {}
  BY DEF ScanStart, FreeList, FreeTargets
<1>lost. lost' \in BOOLEAN /\ (lost => lost')
  BY <1>1, Zenon
<1>0. ScanTypes /\ ApsCounted /\ DpsCounted /\ HaltsEnd
  BY Zenon DEF ScanInv
<1>2. /\ dps \in Seq(Int) /\ aps \in Seq(ApType) /\ targets \in Seq(TargetType)
      /\ DOMAIN aps = 1..Len(aps) /\ Len(aps) \in Nat
  BY <1>0 DEF ScanTypes
<1>3. ASSUME NEW a \in DOMAIN aps
      PROVE  /\ aps'[a] \in ApType /\ aps'[a].dp = aps[a].dp
             /\ aps'[a].ref >= -1 /\ aps'[a].ref # 0
             /\ Covers(aps'[a].ref, 0) /\ (~lost' => Exactly(aps'[a].ref, 0))
             /\ aps[a].ref = -1 => aps'[a].ref = -1
  <2> DEFINE all == TargetsAt(targets, a)
             some == {t \in DOMAIN targets : targets[t].ap = a /\ targets[t].kind # "cortexa"}
  <2>1. IsFiniteSet(all) /\ Cardinality(all) \in Nat
    BY <1>2, TargetsFinite, Zenon
  <2>2. some \subseteq all /\ (~lost' => some = all)
    BY <1>1, Zenon DEF TargetsAt
  <2>3. PICK n : n = Cardinality(all)
    BY Zenon
  <2>4. PICK k : k = Cardinality(some)
    BY Zenon
  <2>5. aps'[a] = [aps[a] EXCEPT !.ref = Dropped(aps[a].ref, k)]
    BY <1>1, <2>4, Zenon DEF UnrefAps, Releases
  <2> HIDE DEF all, some
  <2>6. n \in Nat /\ k \in Nat /\ k <= n /\ (~lost' => k = n)
    BY <2>1, <2>2, <2>3, <2>4, FS_Subset, FS_CardinalityType, Zenon
  <2>7. aps[a] \in ApType /\ aps[a].ref >= -1 /\ aps[a].ref # 0 /\ Covers(aps[a].ref, n) /\ (~lost => Exactly(aps[a].ref, n))
    <3>1. Scans(a) = 0
      BY <1>1, Zenon DEF Scans
    <3>2. n + 0 = n
      BY <2>6
    <3> QED BY <1>0, <1>2, <2>3, <3>1, <3>2, SMTT(60) DEF ApsCounted, all
  <2>8. aps[a].ref \in Int /\ aps'[a].dp = aps[a].dp /\ aps'[a].ref = Dropped(aps[a].ref, k)
    BY <2>5, <2>7, Zenon DEF ApType
  <2>9. /\ aps'[a].ref \in Int /\ aps'[a].ref >= -1
        /\ Covers(aps'[a].ref, n - k)
        /\ aps'[a].ref # 0
        /\ Exactly(aps[a].ref, n) => Exactly(aps'[a].ref, n - k)
        /\ aps[a].ref = -1 => aps'[a].ref = -1
    BY <2>6, <2>7, <2>8, Dropping, Zenon
  <2>10. aps'[a] \in ApType
    BY <2>5, <2>7, <2>8, <2>9, Zenon DEF ApType
  <2>11. Covers(aps'[a].ref, 0)
    BY <2>6, <2>9 DEF Covers
  <2>12. ~lost' => Exactly(aps'[a].ref, 0)
    BY <1>lost, <2>6, <2>7, <2>9 DEF Exactly
  <2> QED BY <2>8, <2>9, <2>10, <2>11, <2>12, Zenon
<1>4. DOMAIN aps' = DOMAIN aps /\ aps' \in Seq(ApType) /\ Len(aps') = Len(aps)
  <2>1. aps' \in [1..Len(aps) -> ApType]
    BY <1>1, <1>2, <1>3, Zenon DEF UnrefAps
  <2> QED BY <1>2, <2>1
<1>5. /\ dps' \in Seq(Int) /\ DOMAIN dps' = DOMAIN dps /\ Len(dps') = Len(dps)
      /\ \A d \in DOMAIN dps :
           /\ dps'[d] >= -1
           /\ Covers(dps'[d], Cardinality(PortsAt(aps', d)) + Enters(d))
           /\ ~lost => Exactly(dps'[d], Cardinality(PortsAt(aps', d)) + Enters(d))
           /\ dps'[d] = 0 => dps[d] = 0
  BY <1>0, <1>1, <1>3, <1>4, DpsDrop, Zenon DEF UnrefAps
<1>6. ScanTypes'
  <2>1. targets' \in Seq(TargetType) /\ DOMAIN targets' = {}
    BY <1>1
  <2>2. \A a \in DOMAIN aps' : aps'[a].dp \in DOMAIN dps'
    BY <1>0, <1>3, <1>4, <1>5, Zenon DEF ScanTypes
  <2> QED BY <1>0, <1>1, <1>lost, <1>4, <1>5, <2>1, <2>2, ZenonT(60) DEF ScanTypes
<1>7. ApsCounted'
  <2> SUFFICES ASSUME NEW a \in DOMAIN aps
               PROVE  /\ aps'[a].ref >= -1 /\ aps'[a].ref # 0
                      /\ Covers(aps'[a].ref, Cardinality(TargetsAt(targets', a)) + Scans(a)')
                      /\ ~lost' => Exactly(aps'[a].ref, Cardinality(TargetsAt(targets', a)) + Scans(a)')
    BY <1>4, Zenon DEF ApsCounted
  <2>1. TargetsAt(targets', a) = {}
    BY <1>1 DEF TargetsAt
  <2>2. Scans(a)' = 0
    BY <1>1, Zenon DEF Scans
  <2>3. Cardinality(TargetsAt(targets', a)) + Scans(a)' = 0
    BY <2>1, <2>2, FS_EmptySet
  <2> QED BY <1>3, <2>3, Zenon
<1>8. DpsCounted'
  <2> SUFFICES ASSUME NEW d \in DOMAIN dps
               PROVE  /\ dps'[d] >= -1
                      /\ Covers(dps'[d], Cardinality(PortsAt(aps', d)) + Enters(d)')
                      /\ ~lost' => Exactly(dps'[d], Cardinality(PortsAt(aps', d)) + Enters(d)')
                      /\ spc' = "init" /\ d = Len(dps') => dps'[d] = 0
                      /\ dps'[d] = 0 => lost' \/ (spc' = "init" /\ d = Len(dps'))
    BY <1>5, Zenon DEF DpsCounted
  <2>1. Enters(d)' = Enters(d)
    BY <1>1, Zenon DEF Enters
  <2>2. dps[d] = 0 => lost
    BY <1>0, <1>1, Zenon DEF DpsCounted
  <2> QED BY <1>1, <1>5, <2>1, <2>2, Zenon
<1>9. HaltsEnd'
  BY <1>0, <1>1, Zenon DEF HaltsEnd
<1> QED BY <1>6, <1>7, <1>8, <1>9, Zenon DEF ScanInv

LEMMA EnterCount == \A x : Enters(x) \in {0, 1} /\ Scans(x) \in {0, 1}
  BY Zenon DEF Enters, Scans

\* The steps of the scan that take or leave no port.
LEMMA LoopInv ==
    ASSUME ScanInv, ScanBegin \/ PortAbsent \/ ApAbsent \/ ScanRaises
    PROVE  ScanInv'
<1>0. ScanTypes /\ ApsCounted /\ DpsCounted /\ HaltsEnd
  BY Zenon DEF ScanInv
<1>1. CASE ScanBegin
  <2>1. spc' = "ports" /\ dps' = <<>> /\ aps' = <<>> /\ targets' = <<>> /\ lost' = FALSE /\ halted' = halted /\ spc = "freed"
        /\ under_reset' = connect_assert_nrst /\ connect_assert_nrst' = connect_assert_nrst
    BY <1>0, <1>1, Zenon DEF ScanBegin, ScanTypes
  <2>2. DOMAIN dps' = {} /\ DOMAIN aps' = {} /\ DOMAIN targets' = {}
        /\ dps' \in Seq(Int) /\ aps' \in Seq(ApType) /\ targets' \in Seq(TargetType)
    BY <2>1
  <2>3. ScanTypes'
    BY <1>0, <2>1, <2>2, Zenon DEF ScanTypes
  <2>4. ApsCounted' /\ DpsCounted' /\ HaltsEnd'
    BY <1>0, <2>1, <2>2, Zenon DEF ApsCounted, DpsCounted, HaltsEnd
  <2> QED BY <2>3, <2>4, Zenon DEF ScanInv
<1>2. CASE PortAbsent \/ ApAbsent \/ ScanRaises
  <2>1. UNCHANGED <<dps, aps, targets, connect_assert_nrst, under_reset>>
    BY <1>2, Zenon DEF PortAbsent, ApAbsent, ScanRaises, resetVars
  <2>2. \/ spc = "ports" /\ spc' \in {"idle", "ports"} /\ lost' = lost /\ halted' = halted
        \/ spc' = spc /\ lost' = lost /\ halted' = halted
        \/ spc \in {"init", "aps", "probe"} /\ spc' = "idle" /\ lost' = TRUE /\ halted' = FALSE
    BY <1>2, Zenon DEF PortAbsent, ApAbsent, ScanRaises, NextPort
  <2>3. ScanTypes'
    BY <1>0, <2>1, <2>2, Zenon DEF ScanTypes
  <2>4. ASSUME NEW a \in DOMAIN aps
        PROVE  /\ Covers(aps[a].ref, Cardinality(TargetsAt(targets, a)) + Scans(a)')
               /\ ~lost' => Exactly(aps[a].ref, Cardinality(TargetsAt(targets, a)) + Scans(a)')
    <3>1. PICK n : n = Cardinality(TargetsAt(targets, a))
      BY Zenon
    <3>0. aps[a] \in ApType /\ targets \in Seq(TargetType)
      BY <1>0 DEF ScanTypes
    <3>2. n \in Nat /\ aps[a].ref \in Int
      BY <3>0, <3>1, TargetsFinite, Zenon DEF ApType
    <3>3. Covers(aps[a].ref, n + Scans(a)) /\ (~lost => Exactly(aps[a].ref, n + Scans(a)))
      BY <1>0, <3>1, Zenon DEF ApsCounted
    <3>4. (Scans(a)' = Scans(a) /\ lost' = lost) \/ (Scans(a)' = 0 /\ lost')
      BY <2>1, <2>2, Zenon DEF Scans
    <3> QED BY <3>1, <3>2, <3>3, <3>4, EnterCount, SMTT(60) DEF Covers
  <2>5. ASSUME NEW d \in DOMAIN dps
        PROVE  /\ Covers(dps[d], Cardinality(PortsAt(aps, d)) + Enters(d)')
               /\ ~lost' => Exactly(dps[d], Cardinality(PortsAt(aps, d)) + Enters(d)')
    <3>1. PICK n : n = Cardinality(PortsAt(aps, d))
      BY Zenon
    <3>2. n \in Nat /\ dps[d] \in Int
      BY <1>0, <3>1, PortsFinite, SMTT(60) DEF ScanTypes
    <3>3. Covers(dps[d], n + Enters(d)) /\ (~lost => Exactly(dps[d], n + Enters(d)))
      BY <1>0, <3>1, Zenon DEF DpsCounted
    <3>4. (Enters(d)' = Enters(d) /\ lost' = lost) \/ (Enters(d)' = 0 /\ lost')
      BY <2>1, <2>2, Zenon DEF Enters
    <3> QED BY <3>1, <3>2, <3>3, <3>4, EnterCount, SMTT(60) DEF Covers
  <2>6. ApsCounted'
    BY <1>0, <2>1, <2>4, ZenonT(60) DEF ApsCounted
  <2>7. DpsCounted'
    BY <1>0, <2>1, <2>2, <2>5, SMTT(60) DEF DpsCounted
  <2>8. HaltsEnd'
    BY <1>0, <2>1, <2>2, SMTT(60) DEF HaltsEnd
  <2> QED BY <2>3, <2>6, <2>7, <2>8, Zenon DEF ScanInv
<1> QED BY <1>1, <1>2, Zenon

\* A debug port changes, no access port does.
LEMMA PortInv ==
    ASSUME ScanInv, PortFound \/ PortDead \/ PortReady \/ PortDone
    PROVE  ScanInv'
<1>0. ScanTypes /\ ApsCounted /\ DpsCounted /\ HaltsEnd
  BY Zenon DEF ScanInv
<1>1. UNCHANGED <<aps, targets, halted, lost, connect_assert_nrst, under_reset>>
      /\ spc # "probe" /\ spc' # "probe" /\ spc \notin {"idle", "freed"} /\ spc' # "freed"
  BY Zenon DEF PortFound, PortDead, PortReady, PortDone, NextPort, resetVars
<1>2. dps \in Seq(Int) /\ Len(dps) \in Nat /\ DOMAIN dps = 1..Len(dps) /\ aps \in Seq(ApType)
      /\ \A a \in DOMAIN aps : aps[a].dp \in DOMAIN dps
  BY <1>0 DEF ScanTypes
<1>3. ApsCounted' /\ HaltsEnd'
  <2>1. \A a \in DOMAIN aps : Scans(a)' = Scans(a)
    BY <1>1, Zenon DEF Scans
  <2> QED BY <1>0, <1>1, <2>1, Zenon DEF ApsCounted, HaltsEnd
<1>4. CASE PortFound
  <2>1. dps' = Append(dps, 0) /\ spc' = "init" /\ spc = "ports"
    BY <1>4, Zenon DEF PortFound
  <2>2. /\ dps' \in Seq(Int) /\ Len(dps') = Len(dps) + 1 /\ DOMAIN dps' = 1..(Len(dps) + 1)
        /\ dps'[Len(dps) + 1] = 0 /\ \A d \in DOMAIN dps : dps'[d] = dps[d]
    BY <1>2, <2>1, SMTT(60)
  <2>3. ScanTypes'
    BY <1>0, <1>1, <1>2, <2>1, <2>2, SMTT(60) DEF ScanTypes
  <2>4. ASSUME NEW d \in 1..Len(dps)
        PROVE  Enters(d)' = Enters(d) /\ dps'[d] = dps[d] /\ d # Len(dps')
    BY <1>2, <2>1, <2>2, SMTT(60) DEF Enters
  <2>5. ASSUME NEW d, d = Len(dps) + 1
        PROVE  Cardinality(PortsAt(aps, d)) + Enters(d)' = 0
    <3>1. PortsAt(aps, d) = {}
      BY <1>2, <2>5 DEF PortsAt
    <3>2. Enters(d)' = 0
      BY <2>1, Zenon DEF Enters
    <3> QED BY <3>1, <3>2, FS_EmptySet, SMTT(60)
  <2>6. DpsCounted'
    <3> SUFFICES ASSUME NEW d \in 1..(Len(dps) + 1)
                 PROVE  /\ dps'[d] >= -1
                        /\ Covers(dps'[d], Cardinality(PortsAt(aps, d)) + Enters(d)')
                        /\ ~lost => Exactly(dps'[d], Cardinality(PortsAt(aps, d)) + Enters(d)')
                        /\ spc' = "init" /\ d = Len(dps') => dps'[d] = 0
                        /\ dps'[d] = 0 => lost \/ (spc' = "init" /\ d = Len(dps'))
      BY <1>1, <2>2, Zenon DEF DpsCounted
    <3>1. CASE d \in 1..Len(dps)
      BY <1>0, <1>2, <2>1, <2>4, <3>1, ZenonT(60) DEF DpsCounted
    <3>2. CASE d = Len(dps) + 1
      BY <2>1, <2>2, <2>5, <3>2, SMTT(60) DEF Covers, Exactly
    <3> QED BY <1>2, <3>1, <3>2
  <2> QED BY <1>3, <2>3, <2>6, Zenon DEF ScanInv
<1>5. CASE PortDead \/ PortReady \/ PortDone
  <2> DEFINE D == Len(dps)
  <2>1. /\ spc \in {"init", "aps"} /\ D > 0 /\ D \in DOMAIN dps
        /\ spc = "init" => dps[D] = 0
    BY <1>0, <1>2, <1>5, SMTT(60) DEF PortDead, PortReady, PortDone, ScanTypes, DpsCounted
  <2>2. PICK n : n = Cardinality(PortsAt(aps, D))
    BY Zenon
  <2>3. n \in Nat /\ Covers(dps[D], n + Enters(D)) /\ (~lost => Exactly(dps[D], n + Enters(D))) /\ dps[D] \in Int
    BY <1>0, <1>2, <2>1, <2>2, PortsFinite DEF DpsCounted
  <2>4. PICK x : dps' = [dps EXCEPT ![D] = x]
                 /\ x = IF PortDead THEN -1 ELSE IF PortReady THEN dps[D] + 1 ELSE Dropped(dps[D], 1)
    BY <1>2, <1>5, <2>1, Zenon DEF PortDead, PortReady, PortDone, Dp
  <2>5. /\ x \in Int /\ x >= -1 /\ x # 0
        /\ Covers(x, n + Enters(D)') /\ (~lost => Exactly(x, n + Enters(D)'))
        /\ spc' \in {"idle", "ports", "aps"}
    <3>1. CASE PortDead
      <4>1. spc = "init" /\ x = -1 /\ spc' \in {"idle", "ports"}
        BY <2>4, <3>1, Zenon DEF PortDead, NextPort
      <4>2. Enters(D) = 0 /\ Enters(D)' = 0
        BY <4>1, Zenon DEF Enters
      <4> QED BY <2>1, <2>3, <4>1, <4>2, SMTT(60) DEF Covers, Exactly
    <3>2. CASE PortReady /\ ~PortDead
      <4>1. spc = "init" /\ x = dps[D] + 1 /\ spc' = "aps"
        BY <2>4, <3>2, Zenon DEF PortReady
      <4>2. Enters(D) = 0 /\ Enters(D)' = 1
        <5>1. Len(dps') = Len(dps)
          BY <1>2, <2>4, SMTT(60)
        <5> QED BY <4>1, <5>1, Zenon DEF Enters
      <4> QED BY <2>1, <2>3, <4>1, <4>2, SMTT(60) DEF Covers, Exactly
    <3>3. CASE PortDone /\ ~PortDead /\ ~PortReady
      <4>1. spc = "aps" /\ x = Dropped(dps[D], 1) /\ spc' \in {"idle", "ports"}
        BY <2>4, <3>3, Zenon DEF PortDone, NextPort
      <4>2. Enters(D) = 1 /\ Enters(D)' = 0
        BY <4>1, Zenon DEF Enters
      <4>3. dps[D] >= -1
        BY <1>0, <2>1, Zenon DEF DpsCounted
      <4> QED BY <2>1, <2>3, <4>1, <4>2, <4>3, SMTT(60) DEF Covers, Exactly, Dropped
    <3> QED BY <1>5, <3>1, <3>2, <3>3, Zenon
  <2>6. /\ dps' \in Seq(Int) /\ Len(dps') = D /\ DOMAIN dps' = DOMAIN dps
        /\ dps'[D] = x /\ \A d \in DOMAIN dps : d # D => dps'[d] = dps[d]
    BY <1>2, <2>1, <2>4, <2>5, SMTT(60)
  <2>7. ScanTypes'
    BY <1>0, <1>1, <2>1, <2>5, <2>6, Zenon DEF ScanTypes
  <2>8. DpsCounted'
    <3> SUFFICES ASSUME NEW d \in DOMAIN dps
                 PROVE  /\ dps'[d] >= -1
                        /\ Covers(dps'[d], Cardinality(PortsAt(aps, d)) + Enters(d)')
                        /\ ~lost => Exactly(dps'[d], Cardinality(PortsAt(aps, d)) + Enters(d)')
                        /\ spc' = "init" /\ d = Len(dps') => dps'[d] = 0
                        /\ dps'[d] = 0 => lost \/ (spc' = "init" /\ d = Len(dps'))
      BY <1>1, <2>6, Zenon DEF DpsCounted
    <3>1. CASE d = D
      BY <2>2, <2>5, <2>6, <3>1, Zenon
    <3>2. CASE d # D
      <4>1. Enters(d)' = Enters(d)
        BY <2>6, <3>2, ZenonT(60) DEF Enters
      <4> QED BY <1>0, <2>1, <2>5, <2>6, <3>2, <4>1, ZenonT(60) DEF DpsCounted
    <3> QED BY <3>1, <3>2, Zenon
  <2> QED BY <1>3, <2>7, <2>8, Zenon DEF ScanInv
<1> QED BY <1>4, <1>5, Zenon

\* A new access port: the rescue port of its target, or the one the scan goes on to probe.
LEMMA NewApInv ==
    ASSUME ScanInv, PortRescue \/ ApFound
    PROVE  ScanInv'
<1>0. ScanTypes /\ ApsCounted /\ DpsCounted /\ HaltsEnd
  BY Zenon DEF ScanInv
<1>N. PICK N : N = Len(aps) + 1
  BY Zenon
<1> DEFINE D == Len(dps)  x == [dp |-> D, ref |-> 1]
           y == [kind |-> "recovery", ap |-> N, halted |-> FALSE]
<1>1. /\ dps \in Seq(Int) /\ D \in Nat /\ DOMAIN dps = 1..D
      /\ aps \in Seq(ApType) /\ Len(aps) \in Nat /\ DOMAIN aps = 1..Len(aps)
      /\ targets \in Seq(TargetType)
      /\ \A t \in DOMAIN targets : targets[t].ap \in DOMAIN aps
      /\ \A a \in DOMAIN aps : aps[a].dp \in DOMAIN dps
  BY <1>0, SMTT(60) DEF ScanTypes
<1>2. /\ spc \in {"init", "aps"} /\ D > 0 /\ D \in DOMAIN dps
      /\ aps' = Append(aps, x) /\ dps' = [dps EXCEPT ![D] = dps[D] + 1] /\ lost' = lost
      /\ UNCHANGED <<connect_assert_nrst, under_reset>>
  <2>1. /\ spc \in {"init", "aps"} /\ aps' = Append(aps, x)
        /\ dps' = [dps EXCEPT ![D] = dps[D] + 1] /\ lost' = lost
        /\ UNCHANGED <<connect_assert_nrst, under_reset>>
    BY Zenon DEF PortRescue, ApFound, Dp, resetVars
  <2>2. D > 0
    BY <1>0, <2>1, Zenon DEF ScanTypes
  <2> QED BY <1>1, <2>1, <2>2
<1>3. \/ /\ spc = "init" /\ spc' \in {"idle", "ports"} /\ halted' = halted
         /\ targets' = Append(targets, y)
      \/ spc = "aps" /\ spc' = "probe" /\ targets' = targets /\ halted' \in BOOLEAN
  BY <1>N, Zenon DEF PortRescue, ApFound, NextPort, Ap
<1>4. x \in ApType /\ x.ref = 1 /\ x.dp = D /\ y \in TargetType /\ y.ap = N
  BY <1>N, <1>1, SMTT(60) DEF ApType, TargetType, Kinds
<1> HIDE DEF x, y
<1>5. /\ aps' \in Seq(ApType) /\ Len(aps') = N /\ DOMAIN aps' = 1..N
      /\ aps'[N] = x /\ \A a \in DOMAIN aps : aps'[a] = aps[a]
  BY <1>N, <1>1, <1>2, <1>4, SMTT(60)
<1>6. /\ dps' \in Seq(Int) /\ Len(dps') = D /\ DOMAIN dps' = DOMAIN dps
      /\ dps'[D] = dps[D] + 1 /\ \A d \in DOMAIN dps : d # D => dps'[d] = dps[d]
  BY <1>1, <1>2
<1>7. /\ targets' \in Seq(TargetType)
      /\ \A t \in DOMAIN targets' : targets'[t].ap \in DOMAIN aps'
      /\ \A t \in DOMAIN targets' : ~targets'[t].halted \/ (t \in DOMAIN targets /\ targets'[t] = targets[t])
  <2>1. CASE targets' = targets
    BY <1>N, <1>1, <1>5, <2>1, SMTT(60)
  <2>2. CASE targets' = Append(targets, y)
    <3>1. /\ targets' \in Seq(TargetType) /\ DOMAIN targets' = 1..(Len(targets) + 1)
          /\ targets'[Len(targets) + 1] = y /\ \A t \in 1..Len(targets) : targets'[t] = targets[t]
      BY <1>1, <1>4, <2>2
    <3>2. ~y.halted
      BY Zenon DEF y
    <3>3. \A t \in DOMAIN targets' : t = Len(targets) + 1 \/ t \in DOMAIN targets
      BY <1>1, <3>1
    <3>4. ASSUME NEW t \in DOMAIN targets'
          PROVE  /\ targets'[t].ap \in DOMAIN aps'
                 /\ ~targets'[t].halted \/ (t \in DOMAIN targets /\ targets'[t] = targets[t])
      <4>1. CASE t = Len(targets) + 1
        BY <1>N, <1>1, <1>4, <1>5, <3>1, <3>2, <4>1, SMTT(60)
      <4>2. CASE t \in DOMAIN targets
        <5>0. t \in 1..Len(targets)
          BY <1>1, <4>2
        <5>1. targets'[t] = targets[t] /\ targets[t].ap \in 1..Len(aps)
          BY <1>1, <3>1, <4>2, <5>0, ZenonT(60)
        <5> QED BY <1>N, <1>1, <1>5, <4>2, <5>1, SMTT(60)
      <4> QED BY <3>3, <4>1, <4>2, ZenonT(60)
    <3> QED BY <3>1, <3>4, Zenon
  <2> QED BY <1>3, <2>1, <2>2, Zenon
<1>8. ScanTypes'
  <2>1. \A a \in DOMAIN aps' : aps'[a].dp \in DOMAIN dps'
    BY <1>1, <1>2, <1>4, <1>5, <1>6, SMTT(60)
  <2> QED BY <1>0, <1>1, <1>2, <1>3, <1>5, <1>6, <1>7, <2>1, SMTT(60) DEF ScanTypes
<1>9. ASSUME NEW a \in DOMAIN aps
      PROVE  Cardinality(TargetsAt(targets', a)) + Scans(a)' = Cardinality(TargetsAt(targets, a)) + Scans(a)
  <2>1. a # N
    BY <1>N, <1>1
  <2>2. Cardinality(TargetsAt(targets', a)) = Cardinality(TargetsAt(targets, a))
    <3>1. Cardinality(TargetsAt(targets, a)) \in Nat
      BY <1>1, TargetsFinite, Zenon
    <3>2. Cardinality(TargetsAt(Append(targets, y), a)) = Cardinality(TargetsAt(targets, a)) + IF y.ap = a THEN 1 ELSE 0
      BY <1>1, <1>4, TargetsGrow, Zenon
    <3>3. Cardinality(TargetsAt(Append(targets, y), a)) = Cardinality(TargetsAt(targets, a))
      BY <1>4, <2>1, <3>1, <3>2, SMTT(60)
    <3> QED BY <1>3, <3>3, Zenon
  <2>3. Scans(a)' = 0 /\ Scans(a) = 0
    BY <1>2, <1>5, <2>1, Zenon DEF Scans
  <2> QED BY <2>2, <2>3, Zenon
<1>10. Cardinality(TargetsAt(targets', N)) + Scans(N)' = 1
  <2>1. TargetsAt(targets, N) = {}
    BY <1>N, <1>1 DEF TargetsAt
  <2>2. Cardinality(TargetsAt(targets, N)) = 0
    BY <2>1, FS_EmptySet, Zenon
  <2>3. CASE spc = "init"
    <3>1. Cardinality(TargetsAt(Append(targets, y), N)) = 0 + 1
      BY <1>1, <1>4, <2>2, TargetsGrow, Zenon
    <3>2. Scans(N)' = 0 /\ targets' = Append(targets, y)
      BY <1>3, <2>3, Zenon DEF Scans
    <3> QED BY <3>1, <3>2
  <2>4. CASE spc = "aps"
    <3>1. Scans(N)' = 1 /\ targets' = targets
      BY <1>3, <1>5, <2>4, ZenonT(60) DEF Scans
    <3> QED BY <2>2, <3>1
  <2> QED BY <1>2, <2>3, <2>4, Zenon
<1>11. ApsCounted'
  <2> SUFFICES ASSUME NEW a \in 1..N
               PROVE  /\ aps'[a].ref >= -1 /\ aps'[a].ref # 0
                      /\ Covers(aps'[a].ref, Cardinality(TargetsAt(targets', a)) + Scans(a)')
                      /\ ~lost => Exactly(aps'[a].ref, Cardinality(TargetsAt(targets', a)) + Scans(a)')
    BY <1>2, <1>5, Zenon DEF ApsCounted
  <2>1. CASE a \in DOMAIN aps
    BY <1>0, <1>5, <1>9, <2>1, ZenonT(60) DEF ApsCounted
  <2>2. CASE a = N
    <3>1. aps'[a].ref = 1
      BY <1>4, <1>5, <2>2, Zenon
    <3>2. Covers(1, 1) /\ Exactly(1, 1)
      BY DEF Covers, Exactly
    <3> QED BY <1>10, <2>2, <3>1, <3>2, SMTT(60)
  <2> QED BY <1>N, <1>1, <2>1, <2>2, SMTT(60)
<1>12. DpsCounted'
  <2> SUFFICES ASSUME NEW d \in DOMAIN dps
               PROVE  /\ dps'[d] >= -1
                      /\ Covers(dps'[d], Cardinality(PortsAt(aps', d)) + Enters(d)')
                      /\ ~lost => Exactly(dps'[d], Cardinality(PortsAt(aps', d)) + Enters(d)')
                      /\ spc' = "init" /\ d = Len(dps') => dps'[d] = 0
                      /\ dps'[d] = 0 => lost \/ (spc' = "init" /\ d = Len(dps'))
    BY <1>2, <1>6, Zenon DEF DpsCounted
  <2>1. PICK n : n = Cardinality(PortsAt(aps, d))
    BY Zenon
  <2>2. PICK e : e = Enters(d)
    BY ZenonT(60)
  <2>3. n \in Nat /\ e \in {0, 1} /\ dps[d] \in Int /\ dps[d] >= -1 /\ Covers(dps[d], n + e) /\ (~lost => Exactly(dps[d], n + e))
    BY <1>0, <1>1, <2>1, <2>2, PortsFinite, EnterCount, SMTT(60) DEF DpsCounted
  <2>4. Cardinality(PortsAt(aps', d)) = n + (IF d = D THEN 1 ELSE 0)
    BY <1>1, <1>2, <1>4, <2>1, PortsGrow, SMTT(60)
  <2>5. Enters(d)' = e
    BY <1>3, <1>6, <2>2, Zenon DEF Enters
  <2>6. CASE d = D
    <3>1. dps[D] >= 0
      BY <1>0, <1>2, <2>2, <2>3, <2>6, SMTT(60) DEF DpsCounted, Enters, Covers
    <3> QED BY <1>3, <1>6, <2>3, <2>4, <2>5, <2>6, <3>1, SMTT(60) DEF Covers, Exactly
  <2>7. CASE d # D
    <3>1. dps[d] = 0 => lost
      BY <1>0, <2>7, Zenon DEF DpsCounted
    <3>2. n + 0 = n
      BY <2>3
    <3> QED BY <1>6, <2>3, <2>4, <2>5, <2>7, <3>1, <3>2, ZenonT(60)
  <2> QED BY <2>6, <2>7, Zenon
<1>13. HaltsEnd'
  <2>1. ASSUME NEW t \in DOMAIN targets', targets'[t].halted
        PROVE  targets'[t].kind = "cortexm" /\ (lost' \/ under_reset')
    <3>1. t \in DOMAIN targets /\ targets'[t] = targets[t]
      BY <1>7, <2>1, Zenon
    <3>2. targets[t].kind = "cortexm" /\ (~lost /\ ~under_reset => spc = "probe")
      BY <1>0, <2>1, <3>1, Zenon DEF HaltsEnd
    <3> QED BY <1>2, <3>1, <3>2, Zenon
  <2>2. halted' => spc' = "probe"
    BY <1>0, <1>3, Zenon DEF HaltsEnd
  <2>3. under_reset' = connect_assert_nrst'
    BY <1>0, <1>2, Zenon DEF HaltsEnd
  <2> QED BY <2>1, <2>2, <2>3, Zenon DEF HaltsEnd
<1> QED BY <1>8, <1>11, <1>12, <1>13, Zenon DEF ScanInv

\* A core is found behind the access port: its target takes a reference.
LEMMA ProbeInv ==
    ASSUME ScanInv, NEW kind \in Kinds, Probe(kind)
    PROVE  ScanInv'
<1>0. ScanTypes /\ ApsCounted /\ DpsCounted /\ HaltsEnd
  BY Zenon DEF ScanInv
<1>N. PICK N : N = Len(aps)
  BY Zenon
<1> DEFINE y == [kind |-> kind, ap |-> N, halted |-> halted /\ kind = "cortexm"]
<1>1. /\ aps \in Seq(ApType) /\ N \in Nat /\ DOMAIN aps = 1..N /\ N > 0 /\ N \in DOMAIN aps
      /\ targets \in Seq(TargetType)
      /\ \A t \in DOMAIN targets : targets[t].ap \in DOMAIN aps
      /\ \A a \in DOMAIN aps : aps[a].dp \in DOMAIN dps
  BY <1>N, <1>0 DEF ScanTypes, Probe
<1>2. /\ targets' = Append(targets, y) /\ aps' = [aps EXCEPT ![N].ref = aps[N].ref + 1]
      /\ spc = "probe" /\ UNCHANGED <<spc, dps, halted, lost, connect_assert_nrst, under_reset>>
  BY <1>N, Zenon DEF Probe, Ap, resetVars
<1>3. y \in TargetType /\ y.ap = N /\ (y.halted => y.kind = "cortexm")
  <2>1. (halted /\ kind = "cortexm") \in BOOLEAN
    BY Zenon
  <2> QED BY <1>1, <2>1, Zenon DEF TargetType
<1> HIDE DEF y
<1>4. \A a \in DOMAIN aps : aps[a] \in ApType /\ aps[a].ref \in Int
  <2>1. \A a \in DOMAIN aps : aps[a] \in ApType
    BY <1>1
  <2> QED BY <2>1, Zenon DEF ApType
<1>5. /\ aps' \in Seq(ApType) /\ Len(aps') = N /\ DOMAIN aps' = DOMAIN aps
      /\ aps'[N].ref = aps[N].ref + 1 /\ aps'[N].dp = aps[N].dp
      /\ \A a \in DOMAIN aps : a # N => aps'[a] = aps[a]
  <2>1. aps'[N] = [aps[N] EXCEPT !.ref = aps[N].ref + 1] /\ DOMAIN aps' = 1..N
    BY <1>1, <1>2, Zenon
  <2>2. aps'[N] \in ApType /\ aps'[N].ref = aps[N].ref + 1 /\ aps'[N].dp = aps[N].dp
    BY <1>1, <1>4, <2>1 DEF ApType
  <2>3. \A a \in 1..N : a # N => aps'[a] = aps[a]
    BY <1>1, <1>2, Zenon
  <2>4. aps' \in [1..N -> ApType]
    BY <1>1, <1>2, <1>4, <2>2, <2>3, Zenon
  <2> QED BY <1>1, <2>1, <2>2, <2>3, <2>4, SMTT(60)
<1>6. /\ targets' \in Seq(TargetType) /\ DOMAIN targets' = 1..(Len(targets) + 1)
      /\ targets'[Len(targets) + 1] = y /\ \A t \in 1..Len(targets) : targets'[t] = targets[t]
  BY <1>1, <1>2, <1>3
<1>7. ScanTypes'
  <2>1. \A t \in DOMAIN targets' : targets'[t].ap \in DOMAIN aps'
    <3>1. ASSUME NEW t \in DOMAIN targets' PROVE targets'[t].ap \in DOMAIN aps
      <4>1. CASE t \in 1..Len(targets)
        BY <1>1, <1>6, <4>1
      <4>2. CASE t = Len(targets) + 1
        BY <1>1, <1>3, <1>6, <4>2, Zenon
      <4> QED BY <1>1, <1>6, <4>1, <4>2, SMTT(60)
    <3> QED BY <1>5, <3>1, Zenon
  <2>2. \A a \in DOMAIN aps' : aps'[a].dp \in DOMAIN dps'
    BY <1>1, <1>2, <1>5, Zenon
  <2> QED BY <1>0, <1>1, <1>2, <1>5, <1>6, <2>1, <2>2, Zenon DEF ScanTypes
<1>8. ASSUME NEW a \in DOMAIN aps
      PROVE  /\ aps'[a].ref >= -1 /\ aps'[a].ref # 0
             /\ Covers(aps'[a].ref, Cardinality(TargetsAt(targets', a)) + Scans(a)')
             /\ ~lost => Exactly(aps'[a].ref, Cardinality(TargetsAt(targets', a)) + Scans(a)')
             /\ aps'[a].ref = -1 <=> aps[a].ref = -1
  <2>1. PICK n : n = Cardinality(TargetsAt(targets, a))
    BY Zenon
  <2>2. PICK e : e = Scans(a)
    BY Zenon
  <2>3. n \in Nat /\ e \in {0, 1} /\ (a = N => e = 1)
    BY <1>N, <1>1, <1>2, <2>1, <2>2, TargetsFinite, Zenon DEF Scans
  <2>4. /\ aps[a].ref >= -1 /\ aps[a].ref # 0 /\ Covers(aps[a].ref, n + e) /\ (~lost => Exactly(aps[a].ref, n + e))
    BY <1>0, <2>1, <2>2, Zenon DEF ApsCounted
  <2>5. Cardinality(TargetsAt(targets', a)) = n + (IF a = N THEN 1 ELSE 0)
    BY <1>1, <1>2, <1>3, <2>1, TargetsGrow, Zenon
  <2>6. Scans(a)' = e
    BY <1>N, <1>2, <1>5, <2>2, ZenonT(60) DEF Scans
  <2>7. CASE a = N
    BY <1>4, <1>5, <2>3, <2>4, <2>5, <2>6, <2>7, SMTT(60) DEF Covers, Exactly
  <2>8. CASE a # N
    <3>1. n + 0 = n
      BY <2>3
    <3> QED BY <1>5, <2>4, <2>5, <2>6, <2>8, <3>1, ZenonT(60)
  <2> QED BY <2>7, <2>8, Zenon
<1>9. ApsCounted'
  BY <1>2, <1>5, <1>8, Zenon DEF ApsCounted
<1>10. DpsCounted'
  <2>1. \A d : PortsAt(aps', d) = PortsAt(aps, d)
    BY <1>5, <1>8, ZenonT(60) DEF PortsAt
  <2>2. \A d : Enters(d)' = Enters(d)
    BY <1>2, Zenon DEF Enters
  <2> QED BY <1>0, <1>2, <2>1, <2>2, Zenon DEF DpsCounted
<1>11. HaltsEnd'
  <2>1. ASSUME NEW t \in DOMAIN targets', targets'[t].halted
        PROVE  targets'[t].kind = "cortexm" /\ (~lost /\ ~under_reset => targets'[t].ap = N)
    <3>1. CASE t \in 1..Len(targets)
      <4>1. t \in DOMAIN targets /\ targets'[t] = targets[t]
        BY <1>1, <1>6, <3>1
      <4> QED BY <1>N, <1>0, <2>1, <4>1, Zenon DEF HaltsEnd
    <3>2. CASE t = Len(targets) + 1
      BY <1>3, <1>6, <2>1, <3>2, Zenon
    <3> QED BY <1>1, <1>6, <3>1, <3>2, SMTT(60)
  <2> QED BY <1>0, <1>2, <1>5, <2>1, Zenon DEF HaltsEnd
<1> QED BY <1>7, <1>9, <1>10, <1>11, Zenon DEF ScanInv

\* The scan drops its own reference to the access port; the last one frees it.
LEMMA ApDoneInv ==
    ASSUME ScanInv, ApDone
    PROVE  ScanInv'
<1>0. ScanTypes /\ ApsCounted /\ DpsCounted /\ HaltsEnd
  BY Zenon DEF ScanInv
<1>N. PICK N : N = Len(aps)
  BY Zenon
<1>1. /\ dps \in Seq(Int) /\ aps \in Seq(ApType) /\ N \in Nat /\ DOMAIN aps = 1..N /\ N > 0
      /\ targets \in Seq(TargetType)
      /\ \A t \in DOMAIN targets : targets[t].ap \in DOMAIN aps
      /\ \A a \in DOMAIN aps : aps[a].dp \in DOMAIN dps
  BY <1>N, <1>0 DEF ScanTypes, ApDone
<1>2. /\ UnrefAps([a \in DOMAIN aps |-> IF a = N THEN 1 ELSE 0])
      /\ spc = "probe" /\ spc' = "aps" /\ halted' = FALSE /\ UNCHANGED <<lost, connect_assert_nrst, under_reset>>
      /\ targets' = [t \in DOMAIN targets |->
                       IF Resumed(t) THEN [targets[t] EXCEPT !.halted = FALSE] ELSE targets[t]]
  BY <1>N, Zenon DEF ApDone, Ap, resetVars
<1>3. ASSUME NEW a \in DOMAIN aps
      PROVE  /\ aps'[a] \in ApType /\ aps'[a].dp = aps[a].dp
             /\ aps'[a].ref >= -1 /\ aps'[a].ref # 0
             /\ Covers(aps'[a].ref, Cardinality(TargetsAt(targets, a)))
             /\ ~lost => Exactly(aps'[a].ref, Cardinality(TargetsAt(targets, a)))
             /\ aps[a].ref = -1 => aps'[a].ref = -1
  <2>1. PICK n : n = Cardinality(TargetsAt(targets, a))
    BY Zenon
  <2>2. PICK e : e = Scans(a)
    BY Zenon
  <2>3. n \in Nat /\ e = IF a = N THEN 1 ELSE 0
    BY <1>N, <1>1, <1>2, <2>1, <2>2, TargetsFinite, Zenon DEF Scans
  <2>4. aps'[a] = [aps[a] EXCEPT !.ref = Dropped(aps[a].ref, e)]
    BY <1>2, <2>3, Zenon DEF UnrefAps
  <2>5. /\ aps[a] \in ApType /\ aps[a].ref >= -1 /\ aps[a].ref # 0 /\ Covers(aps[a].ref, n + e)
        /\ ~lost => Exactly(aps[a].ref, n + e)
    <3>1. /\ aps[a].ref >= -1 /\ aps[a].ref # 0
          /\ Covers(aps[a].ref, Cardinality(TargetsAt(targets, a)) + Scans(a))
          /\ ~lost => Exactly(aps[a].ref, Cardinality(TargetsAt(targets, a)) + Scans(a))
      BY <1>0, Zenon DEF ApsCounted
    <3>2. aps[a] \in ApType
      BY <1>1
    <3> QED BY <2>1, <2>2, <3>1, <3>2, Zenon
  <2>6. aps[a].ref \in Int /\ aps'[a].dp = aps[a].dp /\ aps'[a].ref = Dropped(aps[a].ref, e)
    BY <2>4, <2>5, Zenon DEF ApType
  <2>7. (n + e) - e = n /\ e <= n + e /\ n + e \in Nat /\ e \in Nat
    BY <2>3
  <2>8. /\ aps'[a].ref \in Int /\ aps'[a].ref >= -1
        /\ Covers(aps'[a].ref, (n + e) - e)
        /\ aps'[a].ref # 0
        /\ Exactly(aps[a].ref, n + e) => Exactly(aps'[a].ref, (n + e) - e)
        /\ aps[a].ref = -1 => aps'[a].ref = -1
    BY <2>5, <2>6, <2>7, Dropping, Zenon
  <2>9. aps'[a] \in ApType
    BY <2>4, <2>5, <2>6, <2>8, Zenon DEF ApType
  <2> QED BY <2>1, <2>5, <2>6, <2>7, <2>8, <2>9, Zenon
<1>4. DOMAIN aps' = DOMAIN aps /\ aps' \in Seq(ApType) /\ Len(aps') = Len(aps)
  <2>1. aps' \in [1..N -> ApType] /\ DOMAIN aps' = DOMAIN aps
    BY <1>1, <1>2, <1>3, Zenon DEF UnrefAps
  <2>2. aps' \in Seq(ApType) /\ Len(aps') = N
    BY <1>1, <2>1
  <2> QED BY <1>N, <2>1, <2>2, Zenon
<1>5. /\ dps' \in Seq(Int) /\ DOMAIN dps' = DOMAIN dps /\ Len(dps') = Len(dps)
      /\ \A d \in DOMAIN dps :
           /\ dps'[d] >= -1
           /\ Covers(dps'[d], Cardinality(PortsAt(aps', d)) + Enters(d))
           /\ ~lost => Exactly(dps'[d], Cardinality(PortsAt(aps', d)) + Enters(d))
           /\ dps'[d] = 0 => dps[d] = 0
  BY <1>0, <1>2, <1>3, <1>4, DpsDrop, ZenonT(60) DEF UnrefAps
<1>6. /\ DOMAIN targets' = DOMAIN targets /\ targets' \in Seq(TargetType)
      /\ \A t \in DOMAIN targets : targets'[t].ap = targets[t].ap
      /\ \A t \in DOMAIN targets : targets'[t].halted => targets[t].halted /\ targets'[t] = targets[t] /\ ~Resumed(t)
  <2>1. ASSUME NEW t \in DOMAIN targets
        PROVE  /\ targets'[t] \in TargetType /\ targets'[t].ap = targets[t].ap
               /\ targets'[t].halted => targets[t].halted /\ targets'[t] = targets[t] /\ ~Resumed(t)
    <3>1. targets[t] \in TargetType
      BY <1>1
    <3>2. CASE Resumed(t)
      BY <1>2, <3>1, <3>2, Zenon DEF TargetType
    <3>3. CASE ~Resumed(t)
      BY <1>2, <3>1, <3>3, Zenon
    <3> QED BY <3>2, <3>3, Zenon
  <2>2. targets' \in [1..Len(targets) -> TargetType]
    BY <1>1, <1>2, <2>1, SMTT(60)
  <2> QED BY <1>1, <2>1, <2>2, SMTT(60)
<1>7. ScanTypes'
  BY <1>0, <1>1, <1>2, <1>3, <1>4, <1>5, <1>6, ZenonT(60) DEF ScanTypes
<1>8. ApsCounted'
  <2> SUFFICES ASSUME NEW a \in DOMAIN aps
               PROVE  /\ aps'[a].ref >= -1 /\ aps'[a].ref # 0
                      /\ Covers(aps'[a].ref, Cardinality(TargetsAt(targets', a)) + Scans(a)')
                      /\ ~lost => Exactly(aps'[a].ref, Cardinality(TargetsAt(targets', a)) + Scans(a)')
    BY <1>2, <1>4, Zenon DEF ApsCounted
  <2>1. TargetsAt(targets', a) = TargetsAt(targets, a)
    BY <1>6, Zenon DEF TargetsAt
  <2>2. Scans(a)' = 0
    BY <1>2, Zenon DEF Scans
  <2>3. Cardinality(TargetsAt(targets', a)) + Scans(a)' = Cardinality(TargetsAt(targets, a))
    BY <1>1, <2>1, <2>2, TargetsFinite, SMTT(60)
  <2> QED BY <1>3, <2>3, Zenon
<1>9. DpsCounted'
  <2>1. \A d \in DOMAIN dps : Enters(d)' = Enters(d)
    BY <1>2, <1>5, Zenon DEF Enters
  <2> QED BY <1>0, <1>2, <1>5, <2>1, Zenon DEF DpsCounted
<1>10. HaltsEnd'
  <2>1. under_reset = connect_assert_nrst
    BY <1>0, <1>2, Zenon DEF HaltsEnd
  <2>2. ASSUME NEW t \in DOMAIN targets, targets'[t].halted
        PROVE  targets'[t].kind = "cortexm" /\ (lost \/ under_reset)
    <3>1. targets[t].halted /\ targets'[t] = targets[t] /\ ~Resumed(t)
      BY <1>6, <2>2, Zenon
    <3>2. targets[t].kind = "cortexm" /\ (~lost /\ ~under_reset => targets[t].ap = N)
      BY <1>N, <1>0, <3>1, Zenon DEF HaltsEnd
    <3> QED BY <1>N, <2>1, <3>1, <3>2, Zenon DEF Resumed, Ap
  <2> QED BY <1>2, <1>6, <2>1, <2>2, Zenon DEF HaltsEnd
<1> QED BY <1>7, <1>8, <1>9, <1>10, Zenon DEF ScanInv

\* The scans of adiv5_swdp_scan and jtag_scan, however many, and wherever a port fails
\* or raises: adiv5_ap_unref and adiv5_dp_unref free a port with its last user and never
\* before, and no core is left halted unless the scan connects under reset.
THEOREM PortsCounted == ScanSpec => []ScanExact
<1>1. ScanInit => ScanInv
  <2> SUFFICES ASSUME ScanInit PROVE ScanInv
    BY Zenon
  <2>1. /\ dps \in Seq(Int) /\ aps \in Seq(ApType) /\ targets \in Seq(TargetType)
        /\ DOMAIN dps = {} /\ DOMAIN aps = {} /\ DOMAIN targets = {}
    BY DEF ScanInit
  <2> QED BY <2>1, Zenon DEF ScanInit, ScanInv, ScanTypes, ApsCounted, DpsCounted, HaltsEnd
<1>2. ScanInv /\ [ScanNext]_scanVars => ScanInv'
  <2> SUFFICES ASSUME ScanInv, [ScanNext]_scanVars PROVE ScanInv'
    BY Zenon
  <2>1. CASE UNCHANGED scanVars
    BY <2>1, Zenon DEF scanVars, resetVars, ScanInv, ScanTypes, ApsCounted, DpsCounted, HaltsEnd, Scans, Enters
  <2>2. CASE cmd_connect_reset
    <3>1. UNCHANGED <<spc, dps, aps, targets, halted, lost, under_reset>> /\ spc = "idle"
      BY <2>2, Zenon DEF cmd_connect_reset
    <3> QED BY <3>1, Zenon DEF ScanInv, ScanTypes, ApsCounted, DpsCounted, HaltsEnd, Scans, Enters
  <2> QED BY <2>1, <2>2, FreedInv, LoopInv, PortInv, NewApInv, ProbeInv, ApDoneInv, ZenonT(60) DEF ScanNext
<1>3. ScanInv => ScanExact
  <2> SUFFICES ASSUME ScanInv PROVE NothingFreedInUse /\ NothingLeaks /\ CoresRun
    BY Zenon DEF ScanExact, PortsExact
  <2>0. ScanTypes /\ ApsCounted /\ DpsCounted /\ HaltsEnd
    BY ZenonT(60) DEF ScanInv
  <2>1. ASSUME NEW a \in DOMAIN aps
        PROVE  /\ aps[a].ref \in Int /\ aps[a].ref >= -1 /\ aps[a].ref # 0
               /\ aps[a].ref = -1 => TargetsAt(targets, a) = {} /\ Scans(a) = 0
               /\ ~lost /\ Scans(a) = 0 /\ aps[a].ref # -1 => TargetsAt(targets, a) # {}
    <3>1. IsFiniteSet(TargetsAt(targets, a)) /\ Cardinality(TargetsAt(targets, a)) \in Nat
      BY <2>0, TargetsFinite, Zenon DEF ScanTypes
    <3>2. Cardinality(TargetsAt(targets, a)) = 0 <=> TargetsAt(targets, a) = {}
      BY <3>1, FS_EmptySet, Zenon
    <3>3. aps[a] \in ApType
      BY <2>0 DEF ScanTypes
    <3>4. aps[a].ref \in Int /\ Scans(a) \in {0, 1}
      BY <3>3, EnterCount, Zenon DEF ApType
    <3> QED BY <2>0, <3>1, <3>2, <3>4, SMTT(60) DEF ApsCounted, Covers, Exactly
  <2>2. ASSUME NEW d \in DOMAIN dps
        PROVE  /\ dps[d] \in Int /\ dps[d] >= -1
               /\ dps[d] = -1 => PortsAt(aps, d) = {} /\ Enters(d) = 0
               /\ dps[d] = 0 => PortsAt(aps, d) = {}
               /\ ~lost /\ spc # "init" /\ Enters(d) = 0 /\ dps[d] # -1 => PortsAt(aps, d) # {}
    <3>1. IsFiniteSet(PortsAt(aps, d)) /\ Cardinality(PortsAt(aps, d)) \in Nat
      BY <2>0, PortsFinite, ZenonT(60) DEF ScanTypes
    <3>2. Cardinality(PortsAt(aps, d)) = 0 <=> PortsAt(aps, d) = {}
      BY <3>1, FS_EmptySet, Zenon
    <3>3. dps[d] \in Int /\ Enters(d) \in {0, 1}
      BY <2>0, EnterCount DEF ScanTypes
    <3> QED BY <2>0, <3>1, <3>2, <3>3, SMTT(60) DEF DpsCounted, Covers, Exactly
  <2>3. NothingFreedInUse
    <3>1. \A t \in DOMAIN targets : aps[targets[t].ap].ref > 0
      <4> SUFFICES ASSUME NEW t \in DOMAIN targets PROVE aps[targets[t].ap].ref > 0
        BY Zenon
      <4>1. PICK a : a = targets[t].ap
        BY Zenon
      <4>2. a \in DOMAIN aps /\ t \in TargetsAt(targets, a)
        BY <2>0, <4>1, Zenon DEF ScanTypes, TargetsAt
      <4> QED BY <2>1, <4>1, <4>2
    <3>2. ASSUME NEW a \in DOMAIN aps, aps[a].ref > 0 PROVE dps[aps[a].dp] > 0
      <4>1. PICK d : d = aps[a].dp
        BY Zenon
      <4>2. d \in DOMAIN dps /\ aps[a].ref # -1
        BY <2>0, <2>1, <3>2, <4>1 DEF ScanTypes
      <4>3. a \in PortsAt(aps, d)
        BY <4>1, <4>2, Zenon DEF PortsAt
      <4> QED BY <2>2, <4>1, <4>2, <4>3
    <3>3. spc = "probe" => aps[Ap].ref > 0
      <4> SUFFICES ASSUME spc = "probe" PROVE aps[Len(aps)].ref > 0
        BY Zenon DEF Ap
      <4>1. Len(aps) \in DOMAIN aps /\ Scans(Len(aps)) = 1
        BY <2>0 DEF ScanTypes, Scans
      <4> QED BY <2>1, <4>1
    <3>4. spc \in {"init", "aps", "probe"} => dps[Dp] >= 0
      <4> SUFFICES ASSUME spc \in {"init", "aps", "probe"} PROVE dps[Len(dps)] >= 0
        BY Zenon DEF Dp
      <4>1. Len(dps) \in DOMAIN dps
        BY <2>0 DEF ScanTypes
      <4>2. spc = "init" => dps[Len(dps)] = 0
        BY <2>0, <4>1, Zenon DEF DpsCounted
      <4>3. spc # "init" => Enters(Len(dps)) = 1
        BY Zenon DEF Enters
      <4> QED BY <2>2, <4>1, <4>2, <4>3
    <3> QED BY <3>1, <3>2, <3>3, <3>4, Zenon DEF NothingFreedInUse
  <2>4. NothingLeaks
    <3> SUFFICES ASSUME spc \in {"idle", "freed"}, ~lost
                 PROVE  LET used == {targets[t].ap : t \in DOMAIN targets}
                        IN /\ {a \in DOMAIN aps : aps[a].ref >= 0} = used
                           /\ {d \in DOMAIN dps : dps[d] >= 0} = {aps[a].dp : a \in used}
      BY Zenon DEF NothingLeaks
    <3> DEFINE used == {targets[t].ap : t \in DOMAIN targets}
    <3>1. \A x : Scans(x) = 0 /\ Enters(x) = 0
      BY Zenon DEF Scans, Enters
    <3>2. used = {a \in DOMAIN aps : TargetsAt(targets, a) # {}}
      <4>1. \A t \in DOMAIN targets : targets[t].ap \in DOMAIN aps
        BY <2>0, Zenon DEF ScanTypes
      <4> QED BY <4>1, Zenon DEF TargetsAt
    <3>3. {a \in DOMAIN aps : aps[a].ref >= 0} = used
      <4>1. \A a \in DOMAIN aps : aps[a].ref >= 0 <=> TargetsAt(targets, a) # {}
        BY <2>1, <3>1
      <4> QED BY <3>2, <4>1, Zenon
    <3>4. \A d \in DOMAIN dps : dps[d] >= 0 <=> PortsAt(aps, d) # {}
      <4> SUFFICES ASSUME NEW d \in DOMAIN dps PROVE dps[d] >= 0 <=> PortsAt(aps, d) # {}
        BY Zenon
      <4> QED BY <2>2, <3>1
    <3>5. \A d : PortsAt(aps, d) = {a \in used : aps[a].dp = d}
      <4>1. \A a \in DOMAIN aps : aps[a].ref # -1 <=> aps[a].ref >= 0
        BY <2>1
      <4> QED BY <3>3, <4>1, Zenon DEF PortsAt
    <3>6. \A a \in used : aps[a].dp \in DOMAIN dps
      BY <2>0, <3>2, Zenon DEF ScanTypes
    <3> HIDE DEF used
    <3>7. {d \in DOMAIN dps : dps[d] >= 0} = {aps[a].dp : a \in used}
      BY <3>4, <3>5, <3>6
    <3> QED BY <3>3, <3>7, Zenon DEF used
  <2>5. CoresRun
    BY <2>0, Zenon DEF CoresRun, HaltsEnd
  <2> QED BY <2>3, <2>4, <2>5, Zenon
<1> QED BY <1>1, <1>2, <1>3, PTL DEF ScanSpec

---------------------------------------------------------------------------
(* The list of targets.                                                    *)

\* TargetPointersLive is not inductive: a pointer is cleared only when the
\* target's controller is told (tc), and a packet may pick any listed target
\* only because the list holds nothing that was freed.  ListExact needs that no
\* target is in the list twice.
IInv ==
    /\ list \in Seq(Targets)
    /\ heap \subseteq Range(list)
    /\ pc # "dead" => Range(list) \subseteq heap
    /\ cur = NULL \/ cur \in heap \cap attached \cap tc
    /\ last = NULL \/ last \in heap \cap tc
    /\ attached \subseteq heap /\ tc \subseteq heap
    /\ IsInjective(list)

\* What the pointers need of a step that leaves the list alone.
LEMMA Untouched ==
    ASSUME IInv, UNCHANGED <<list, heap>>,
           pc = "dead" => pc' = "dead",
           cur' = NULL \/ cur' \in heap \cap attached' \cap tc',
           last' = NULL \/ last' \in heap \cap tc',
           attached' \subseteq heap, tc' \subseteq heap
    PROVE  IInv'
BY Zenon DEF IInv

\* The walk of target_list_free: what it frees is neither current nor last.
LEMMA FreeFirstInv ==
    ASSUME IInv, NEW k \in 0..Len(list), FreeFirst(k),
           ((k = 0 \/ k = Len(list)) /\ pc # "dead") \/ pc' = "dead"
    PROVE  IInv'
<1> DEFINE S == {list[i] : i \in 1..k}
<1>1. /\ heap' = heap \ S /\ attached' = attached \ S /\ tc' = tc \ S
      /\ cur' = IF cur \in S \cap tc THEN NULL ELSE cur
      /\ last' = IF last \in S \cap tc THEN NULL ELSE last
      /\ list' = IF k = Len(list) THEN <<>> ELSE list
  BY Zenon DEF FreeFirst, DestroyCallback, ListAfter
<1>2. list \in Seq(Targets) /\ Range(list) = {list[i] : i \in 1..Len(list)}
  BY DEF IInv, Range
<1>3. list' \in Seq(Targets)
  BY <1>1, <1>2
<1>4. /\ cur' = NULL \/ cur' \in heap' \cap attached' \cap tc'
      /\ last' = NULL \/ last' \in heap' \cap tc'
  <2> HIDE DEF S
  <2> QED BY <1>1, Zenon DEF IInv
<1>5. heap' \subseteq Range(list')
  <2>1. CASE k = Len(list)
    <3>1. S = Range(list) BY <2>1, <1>2
    <3> HIDE DEF S
    <3> QED BY <3>1, <1>1, Zenon DEF IInv
  <2>2. CASE k # Len(list)
    <3> HIDE DEF S
    <3> QED BY <2>2, <1>1, Zenon DEF IInv
  <2> QED BY <2>1, <2>2, Zenon
<1>6. pc' # "dead" => Range(list') \subseteq heap'
  <2>1. CASE k = Len(list)
    <3>1. Range(list') = {} BY <2>1, <1>1 DEF Range
    <3> QED BY <3>1, Zenon
  <2>2. CASE k # Len(list) /\ k = 0 /\ pc # "dead"
    <3>1. S = {} BY <2>2
    <3> HIDE DEF S
    <3> QED BY <3>1, <2>2, <1>1, Zenon DEF IInv
  <2> QED BY <2>1, <2>2, Zenon
<1>7. attached' \subseteq heap' /\ tc' \subseteq heap'
  <2> HIDE DEF S
  <2> QED BY <1>1, Zenon DEF IInv
<1>8. IsInjective(list')
  BY <1>1 DEF IInv, IsInjective
<1> QED BY <1>3, <1>4, <1>5, <1>6, <1>7, <1>8, Zenon DEF IInv

LEMMA FreeRaisesInv ==
    ASSUME IInv, NEW h, FreeRaises(h), pc # "dead"
    PROVE  IInv'
<1>1. PICK k \in 0..Len(list) : FreeStops(k) /\ (k # 0 => pc' = "dead")
  BY Zenon DEF FreeRaises
<1>2. FreeFirst(k) BY <1>1 DEF FreeStops
<1> QED BY <1>1, <1>2, FreeFirstInv, Zenon

LEMMA FreeAllInv ==
    ASSUME IInv, FreeFirst(Len(list)), pc # "dead"
    PROVE  IInv'
<1>1. Len(list) \in 0..Len(list) BY DEF IInv
<1> QED BY <1>1, FreeFirstInv, Zenon

LEMMA RescanInv ==
    ASSUME IInv, pc # "dead",
           NEW found \in UNION {[1..k -> Targets] : k \in 0..MaxList}, Rescan(found), IsInjective(found)
    PROVE  IInv'
<1>1. PICK k \in 0..MaxList : found \in [1..k -> Targets]
  BY Zenon
<1>2. k \in Nat
  BY <1>1, SessionAssumption, SMTT(60) DEF SessionAssumption
<1>3. found \in Seq(Targets)
  BY <1>1, <1>2
<1>4. heap = Range(list)
  BY Zenon DEF IInv
<1>5. /\ list' = found
      /\ heap' = (heap \ Range(list)) \cup Range(found)
      /\ cur' = IF cur \in Range(list) \cap tc THEN NULL ELSE cur
      /\ last' = IF last \in Range(list) \cap tc THEN NULL ELSE last
      /\ attached' = attached \ Range(list) /\ tc' = tc \ Range(list)
  BY Zenon DEF Rescan, DestroyCallback
<1>6. cur' = NULL /\ last' = NULL
  BY <1>4, <1>5, Zenon DEF IInv
<1>7. heap' = Range(found)
  BY <1>4, <1>5, Zenon
<1>8. attached' = {} /\ tc' = {}
  BY <1>4, <1>5, Zenon DEF IInv
<1> QED BY <1>3, <1>5, <1>6, <1>7, <1>8, Zenon DEF IInv

\* Attaching: t is a listed, allocated target.
LEMMA AttachToInv ==
    ASSUME IInv, pc # "dead", NEW t \in heap, NEW ok \in BOOLEAN, NEW st, AttachTo(t, ok, st)
    PROVE  IInv'
<1>1. UNCHANGED <<list, heap>>
  BY Zenon DEF AttachTo
<1>2. cur' = NULL \/ cur' \in heap \cap attached' \cap tc'
  BY Zenon DEF AttachTo
<1>3. last' = NULL \/ last' \in heap \cap tc'
  BY Zenon DEF AttachTo, IInv
<1>4. attached' \subseteq heap /\ tc' \subseteq heap
  BY Zenon DEF AttachTo, IInv
<1> QED BY <1>1, <1>2, <1>3, <1>4, Untouched, Zenon

LEMMA AttachRaisesInv ==
    ASSUME IInv, pc # "dead", NEW t \in heap, AttachRaises(t)
    PROVE  IInv'
<1>1. UNCHANGED <<list, heap, attached>> /\ tc' = tc \cup {t}
  BY Zenon DEF AttachRaises
<1>2. /\ cur' = IF cur \in {t} \cap tc THEN NULL ELSE cur
      /\ last' = IF last \in {t} \cap tc THEN NULL ELSE last
  BY Zenon DEF AttachRaises, DestroyCallback
<1>3. /\ cur' = NULL \/ cur' \in heap \cap attached' \cap tc'
      /\ last' = NULL \/ last' \in heap \cap tc'
  BY <1>1, <1>2, Zenon DEF IInv
<1>4. attached' \subseteq heap /\ tc' \subseteq heap
  BY <1>1, Zenon DEF IInv
<1> QED BY <1>1, <1>3, <1>4, Untouched, Zenon

\* last_target and every listed target can be attached.
LEMMA Attachable ==
    ASSUME IInv, pc # "dead"
    PROVE  /\ \A n \in 1..Len(list) : list[n] \in heap
           /\ last # NULL => last \in heap
BY DEF IInv, Range

LEMMA InitInv == Init => IInv
BY DEF Init, IInv, Range, IsInjective

LEMMA NextInv ==
    ASSUME IInv, [Next]_vars
    PROVE  IInv'
<1>1. CASE Scan
  <2>1. pc # "dead" BY <1>1 DEF Scan
  <2>2. \/ \E found \in UNION {[1..k -> Targets] : k \in 0..MaxList} : Rescan(found) /\ IsInjective(found)
        \/ FreeRaises("loop")
    BY <1>1, Zenon DEF Scan
  <2> QED BY <2>1, <2>2, RescanInv, FreeRaisesInv, Zenon
<1>2. CASE VAttach
  <2>1. pc # "dead" BY <1>2 DEF VAttach, AtPacket
  <2>2. PICK n \in 1..(MaxList + 1) :
          \/ n <= Len(list) /\ \E ok \in BOOLEAN : AttachTo(list[n], ok, "halting")
          \/ n <= Len(list) /\ AttachRaises(list[n])
          \/ cur' = NULL /\ UNCHANGED <<list, heap, attached, tc, core, last, notify>>
    BY <1>2, ZenonT(60) DEF VAttach
  <2>3. n <= Len(list) => list[n] \in heap
    BY <2>1, <2>2, Attachable, SessionAssumption, SMTT(30) DEF SessionAssumption, IInv
  <2>4. CASE cur' = NULL /\ UNCHANGED <<list, heap, attached, tc, core, last, notify>>
    BY <2>4, <2>1, Untouched, Zenon DEF IInv
  <2> QED BY <2>1, <2>2, <2>3, <2>4, AttachToInv, AttachRaisesInv, Zenon
<1>3. CASE Resume \/ HaltReason \/ VStopped \/ Access \/ LateF
  <2>1. /\ pc # "dead" /\ UNCHANGED <<list, heap>> /\ UNCHANGED <<attached, tc, cur, last>>
    BY <1>3, Zenon DEF Resume, HaltReason, VStopped, Access, LateF, AtPacket, session
  <2> QED BY <2>1, Untouched, Zenon DEF IInv
<1>4. CASE Restart
  <2>1. pc # "dead" BY <1>4 DEF Restart, AtPacket
  <2>2. \/ UNCHANGED <<list, heap, attached, tc, cur, last>>
        \/ last # NULL /\ \E ok \in BOOLEAN, st \in {"stop", "halting"} : AttachTo(last, ok, st)
        \/ last # NULL /\ AttachRaises(last)
    BY <1>4, Zenon DEF Restart, session
  <2>3. CASE UNCHANGED <<list, heap, attached, tc, cur, last>>
    BY <2>1, <2>3, Untouched, ZenonT(60) DEF IInv
  <2> QED BY <2>1, <2>2, <2>3, Attachable, AttachToInv, AttachRaisesInv, ZenonT(60)
<1>5. CASE VRun
  <2>1. pc # "dead" BY <1>5 DEF VRun, AtPacket
  <2>2. \/ UNCHANGED <<list, heap, attached, tc, cur, last>>
        \/ last # NULL /\ \E ok \in BOOLEAN, st \in {"stop", "halting"} : AttachTo(last, ok, st)
        \/ last # NULL /\ AttachRaises(last)
    BY <1>5, Zenon DEF VRun, session
  <2>3. CASE UNCHANGED <<list, heap, attached, tc, cur, last>>
    BY <2>1, <2>3, Untouched, Zenon DEF IInv
  <2> QED BY <2>1, <2>2, <2>3, Attachable, AttachToInv, AttachRaisesInv, Zenon
<1>6. CASE MonitorReset
  <2>1. pc # "dead" BY <1>6 DEF MonitorReset, AtPacket
  <2> QED BY <1>6, <2>1, FreeAllInv, FreeRaisesInv, Zenon DEF MonitorReset
<1>7. CASE Detach
  <2>1. /\ pc # "dead"
        /\ \/ UNCHANGED session
           \/ cur # NULL /\ DetachCur
    BY <1>7, Zenon DEF Detach
  <2>2. CASE UNCHANGED session
    BY <2>1, <2>2, Untouched, Zenon DEF IInv, session
  <2>3. CASE cur # NULL /\ DetachCur
    <3>1. /\ UNCHANGED <<list, heap>> /\ tc' = tc /\ attached' = attached \ {cur} /\ cur' = NULL /\ last' = cur
      BY <2>3, Zenon DEF DetachCur
    <3> QED BY <2>1, <3>1, Untouched, Zenon DEF IInv
  <2> QED BY <2>1, <2>2, <2>3, Zenon
<1>8. CASE LoopExit \/ PollRunning \/ PollHalted \/ PollSyscall \/ ReadChar
  <2>1. /\ pc # "dead" /\ UNCHANGED <<list, heap>> /\ UNCHANGED <<attached, tc, cur, last>>
    BY <1>8, Zenon DEF LoopExit, PollRunning, PollHalted, PollSyscall, ReadChar, session
  <2> QED BY <2>1, Untouched, Zenon DEF IInv
<1>9. CASE PollLost
  <2>1. pc # "dead" BY <1>9 DEF PollLost
  <2>2. FreeFirst(Len(list)) \/ FreeRaises("catch") \/ UNCHANGED session
    BY <1>9, Zenon DEF PollLost
  <2>3. CASE UNCHANGED session
    BY <2>1, <2>3, Untouched, Zenon DEF IInv, session
  <2> QED BY <2>1, <2>2, <2>3, FreeAllInv, FreeRaisesInv, Zenon
<1>10. CASE SyscallReply \/ SyscallInterrupt \/ SyscallMemory \/ SyscallRaises
  <2>1. /\ pc # "dead" /\ UNCHANGED <<list, heap>> /\ UNCHANGED <<attached, tc, cur, last>>
    BY <1>10, Zenon DEF SyscallReply, SyscallInterrupt, SyscallMemory, SyscallRaises, SyscallResumes, session
  <2> QED BY <2>1, Untouched, Zenon DEF IInv
<1>11. CASE SyscallEof
  <2>1. /\ pc # "dead" /\ UNCHANGED <<list, heap>> /\ tc' = tc /\ attached' = attached \ {cur}
        /\ cur' = NULL /\ last' = cur
    BY <1>11, Zenon DEF SyscallEof
  <2> QED BY <2>1, Untouched, Zenon DEF IInv
<1>12. CASE MainCatch
  <2>1. /\ pc # "dead"
        /\ \/ FreeFirst(Len(list))
           \/ \E k \in 0..Len(list) : FreeFirst(k) /\ pc' = "dead"
    BY <1>12, Zenon DEF MainCatch, FreeStops
  <2> QED BY <2>1, FreeAllInv, FreeFirstInv, Zenon
<1>13. CASE CoreStops \/ CoreObeys \/ PortCloses \/ PortOpens \/ UNCHANGED vars
  <2>1. /\ UNCHANGED pc /\ UNCHANGED <<list, heap>> /\ UNCHANGED <<attached, tc, cur, last>>
    BY <1>13, Zenon DEF CoreStops, CoreObeys, PortCloses, PortOpens, vars, session
  <2> QED BY <2>1, Untouched, Zenon DEF IInv
<1> QED
  BY <1>1, <1>2, <1>3, <1>4, <1>5, <1>6, <1>7, <1>8, <1>9, <1>10, <1>11, <1>12, <1>13, ZenonT(60)
  DEF Next, Packet, Poll, Syscall

\* cur_target and last_target are NULL or point to allocated targets of the
\* list, and cur_target is attached, whatever frees the targets: a scan,
\* monitor reset, a poll that loses its target, or main()'s handler.
THEOREM PointersLive == Spec => []TargetPointersLive
<1>1. IInv => TargetPointersLive
  BY SessionAssumption, Zenon DEF SessionAssumption, IInv, TargetPointersLive
<1> QED BY InitInv, NextInv, <1>1, PTL DEF Spec

\* A list without repetitions is as long as the set of its elements is large.
LEMMA Counted ==
    ASSUME NEW q \in Seq(Targets), IsInjective(q)
    PROVE  Cardinality(Range(q)) = Len(q)
<1> DEFINE S == Range(q)
           n == Len(q)
<1>1. n \in Nat /\ q \in [1..n -> S] /\ DOMAIN q = 1..n
  BY DEF Range
<1>2. \A t \in S : \E i \in 1..n : q[i] = t
  BY <1>1, Zenon DEF Range
<1> HIDE DEF S, n
<1>3. q \in Bijection(1..n, S)
  BY <1>1, <1>2, Zenon DEF Bijection, Injection, Surjection, IsInjective
<1>4. ExistsBijection(1..n, S)
  BY <1>3, Zenon DEF ExistsBijection
<1> QED BY <1>1, <1>4, FS_CountingElements, Zenon DEF S, n

\* As long as the firmware is alive, target_list holds every target_s that
\* target_new allocated and target_list_free did not free, each of them once,
\* and only such targets are attached or have a controller: whatever scans,
\* exceptions and lost targets went before.
THEOREM ListIsHeap == Spec => []ListExact
<1>1. IInv => ListExact
  BY Counted, Zenon DEF IInv, ListExact
<1> QED BY InitInv, NextInv, <1>1, PTL DEF Spec

---------------------------------------------------------------------------
(* Stop replies, when no access raises.                                    *)

\* Between packets the loop polls exactly when a reply is owed; polling starts
\* and ends inside the loop, so that no packet finds gdb_target_running set.
OwedInv ==
    /\ running \in BOOLEAN /\ owed \in BOOLEAN /\ dtr \in BOOLEAN
    /\ trap # "spurious"
    /\ pc \in {"loop", "char", "packet", "catch", "dead"}
    /\ running => cur # NULL
    /\ pc \in {"packet", "catch"} => ~running
    /\ dtr => (owed <=> running)

LEMMA OwedInit == Init => OwedInv
BY Zenon DEF Init, OwedInv

\* A step that neither polls nor answers, outside of the loop or with the
\* pointer to the target left alone.
LEMMA OwedStays ==
    ASSUME OwedInv, UNCHANGED <<running, owed, dtr>>, trap' # "spurious",
           pc' \in {"loop", "char", "packet", "catch", "dead"}, ~running \/ (cur' = cur /\ pc' \notin {"packet", "catch"})
    PROVE  OwedInv'
BY Zenon DEF OwedInv

LEMMA OwedNext ==
    ASSUME Faults = {}, Semihosting = FALSE, QuickReopen = FALSE, OwedInv, [Next]_vars
    PROVE  OwedInv'
<1>0. ~Raise
  BY Zenon DEF Raise
<1>1. CASE Scan \/ VAttach \/ Restart \/ VRun \/ VStopped \/ Access \/ MonitorReset \/ LateF
  <2>1. ~running /\ UNCHANGED <<running, owed, dtr>>
    BY <1>1, Zenon DEF Scan, VAttach, Restart, VRun, VStopped, Access, MonitorReset, LateF, AtPacket, gdb, OwedInv
  <2>2. /\ trap' \in {trap, "dangling", "null", "late"}
        /\ pc' \in {"loop", "char", "packet", "catch", "dead"}
    <3>1. CASE Scan
      BY <3>1, Zenon DEF Scan, FreeRaises
    <3>2. CASE VAttach
      BY <1>0, <3>2, Zenon DEF VAttach, AttachRaises
    <3>3. CASE Restart
      BY <1>0, <3>3, Zenon DEF Restart, AttachRaises
    <3>4. CASE VRun
      BY <1>0, <3>4, Zenon DEF VRun, AttachRaises
    <3>5. CASE VStopped \/ Access \/ LateF
      BY <1>0, <3>5, Zenon DEF VStopped, Access, LateF
    <3>6. CASE MonitorReset
      BY <3>6, Zenon DEF MonitorReset, FreeRaises
    <3> QED BY <1>1, <3>1, <3>2, <3>3, <3>4, <3>5, <3>6, Zenon
  <2>3. trap' # "spurious"
    BY <2>2, Zenon DEF OwedInv
  <2> QED BY <2>1, <2>2, <2>3, OwedStays, SMTT(30)
<1>2. CASE Resume
  <2>1. CASE UNCHANGED <<running, owed>>
    BY <1>0, <1>2, <2>1, OwedStays, Zenon DEF Resume, OwedInv
  <2>2. CASE running' = TRUE /\ owed' = TRUE /\ cur # NULL /\ pc' = "loop"
    BY <1>2, <2>2, Zenon DEF Resume, OwedInv
  <2> QED BY <1>0, <1>2, <2>1, <2>2, Zenon DEF Resume, StartPolling
<1>3. CASE HaltReason
  <2>1. CASE cur = NULL
    BY <1>3, <2>1, OwedStays, Zenon DEF HaltReason, OwedInv, session
  <2>2. CASE cur # NULL
    BY <1>3, <2>2, Zenon DEF HaltReason, OwedInv, StartPolling, session
  <2> QED BY <2>1, <2>2, Zenon
<1>4. CASE Detach
  <2>1. ~running /\ running' = running /\ dtr' = dtr /\ trap' = trap /\ pc' = "loop" /\ (dtr => owed' = owed) /\ owed' \in BOOLEAN
    BY <1>0, <1>4, Zenon DEF Detach, OwedInv
  <2> QED BY <2>1 DEF OwedInv
<1>5. CASE LoopExit \/ PollRunning \/ ReadChar
  <2>1. UNCHANGED <<running, owed, dtr, cur>> /\ trap' \in {trap, "late"}
    BY <1>5, Zenon DEF LoopExit, PollRunning, ReadChar, gdb, session
  <2>2. \/ pc' = "packet" /\ ~running
        \/ pc' \in {"char", "loop"}
    BY <1>5, Zenon DEF LoopExit, PollRunning, ReadChar, Polling, OwedInv
  <2>3. trap' # "spurious"
    BY <2>1, Zenon DEF OwedInv
  <2> QED BY <2>1, <2>2, <2>3, OwedStays, Zenon
<1>6. CASE PollHalted
  <2>1. running /\ running' = FALSE /\ owed' = FALSE /\ UNCHANGED <<dtr, cur>> /\ pc' = "loop"
        /\ trap' = IF owed \/ ~dtr THEN trap ELSE "spurious"
    BY <1>6, Zenon DEF PollHalted, Polling, StopPolling, StopReply, session
  <2> QED BY <2>1, Zenon DEF OwedInv
<1>7. CASE MainCatch
  <2>1. ~running /\ UNCHANGED <<running, dtr>> /\ owed' = FALSE /\ pc' \in {"loop", "dead"} /\ trap' \in {trap, "abort"}
    BY <1>7, Zenon DEF MainCatch, OwedInv
  <2>2. trap' # "spurious"
    BY <2>1, Zenon DEF OwedInv
  <2> QED BY <2>1, <2>2, Zenon DEF OwedInv
<1>8. CASE CoreStops \/ CoreObeys
  <2>1. UNCHANGED <<running, owed, dtr, cur, pc, trap>>
    BY <1>8, Zenon DEF CoreStops, CoreObeys, gdb
  <2> QED BY <2>1, Zenon DEF OwedInv
<1>9. CASE UNCHANGED vars
  BY <1>9, Zenon DEF vars, OwedInv
<1>10. CASE PortCloses
  BY <1>10, Zenon DEF PortCloses, OwedInv, session
<1>11. CASE PortOpens
  BY <1>11, Zenon DEF PortOpens, OwedInv, session
<1>12. ~PollLost /\ ~PollSyscall /\ ~Syscall
  BY Zenon DEF PollLost, PollSyscall, Syscall, SyscallReply, SyscallInterrupt, SyscallMemory, SyscallRaises, SyscallEof, OwedInv
<1> QED BY <1>1, <1>2, <1>3, <1>4, <1>5, <1>6, <1>7, <1>8, <1>9, <1>10, <1>11, <1>12, ZenonT(60) DEF Next, Packet, Poll

\* Without exceptions, semihosting calls and a port that is opened again before
\* the target was let go, GDB gets one stop reply for each resume or '?' and none
\* unasked: the loop of main.c polls exactly while a reply is owed.  (Each of the
\* three hypotheses is needed: a handler that runs between resume and stop leaves
\* gdb_target_running set.)
THEOREM StopReplies ==
    ASSUME Faults = {}, Semihosting = FALSE, QuickReopen = FALSE
    PROVE  Spec => []StopRepliesOwed
<1>1. OwedInv => StopRepliesOwed
  BY Zenon DEF OwedInv, StopRepliesOwed, Polling
<1> QED BY OwedInit, OwedNext, <1>1, PTL DEF Spec

---------------------------------------------------------------------------
(* Release, whatever is raised.                                            *)

\* A detached target that can be attached again is not under control of the
\* probe; the core that a step of the loop tells to run or to halt is that of an
\* attached target.
FreeInv ==
    /\ core \in [Targets -> {"free", "run", "halting", "stop"}]
    /\ pc # "syscall"
    /\ pc = "char" => cur # NULL
    /\ LastReleased

\* The core of an attached target may do what it likes.
LEMMA OtherCore ==
    ASSUME IInv, FreeInv, NEW st \in {"free", "run", "halting", "stop"}, cur # NULL, core' = [core EXCEPT ![cur] = st],
           UNCHANGED <<attached, last>>
    PROVE  LastReleased' /\ core' \in [Targets -> {"free", "run", "halting", "stop"}]
<1>1. cur \in attached /\ cur \in Targets
  BY DEF IInv, Range
<1> QED BY <1>1 DEF FreeInv, LastReleased

LEMMA LastStays ==
    ASSUME FreeInv, UNCHANGED <<core, attached, last>>
    PROVE  LastReleased' /\ core' \in [Targets -> {"free", "run", "halting", "stop"}]
BY Zenon DEF FreeInv, LastReleased

LEMMA FreesLast ==
    ASSUME IInv, FreeInv, NEW k \in 0..Len(list), FreeFirst(k)
    PROVE  LastReleased' /\ core' \in [Targets -> {"free", "run", "halting", "stop"}]
<1> DEFINE S == {list[i] : i \in 1..k}
<1>1. /\ attached' = attached \ S
      /\ core' = [t \in Targets |-> IF t \in S THEN "free" ELSE core[t]]
      /\ last' = IF last \in S \cap tc THEN NULL ELSE last
  BY Zenon DEF FreeFirst, DestroyCallback
<1> HIDE DEF S
<1>2. last # NULL => last \in tc /\ last \in Targets
  BY DEF IInv, Range
<1> QED BY <1>1, <1>2, Zenon DEF FreeInv, LastReleased

LEMMA AttachesOther ==
    ASSUME IInv, FreeInv, pc # "dead", NEW t \in heap, NEW ok \in BOOLEAN, NEW st \in {"stop", "halting"},
           AttachTo(t, ok, st) \/ AttachRaises(t)
    PROVE  LastReleased' /\ core' \in [Targets -> {"free", "run", "halting", "stop"}]
<1>1. /\ last' = NULL \/ (last' = last /\ last # t)
      /\ attached \subseteq attached'
      /\ core' = core \/ core' = [core EXCEPT ![t] = st] \/ core' = [core EXCEPT ![t] = "halting"]
  BY Zenon DEF IInv, AttachTo, AttachRaises, DestroyCallback
<1>2. t \in Targets /\ (last # NULL => last \in Targets)
  BY DEF IInv, Range
<1> QED BY <1>1, <1>2, Zenon DEF FreeInv, LastReleased

LEMMA FreeNext ==
    ASSUME Semihosting = FALSE, IInv, FreeInv, [Next]_vars
    PROVE  FreeInv'
<1> DEFINE Core == [Targets -> {"free", "run", "halting", "stop"}]
<1>1. LastReleased' /\ core' \in Core
  <2>1. CASE Scan
    <3>1. CASE \E found \in UNION {[1..k -> Targets] : k \in 0..MaxList} : Rescan(found)
      <4>1. PICK found \in UNION {[1..k -> Targets] : k \in 0..MaxList} : Rescan(found)
        BY <3>1, Zenon
      <4>2. Range(list) = heap
        BY <2>1, Zenon DEF IInv, Scan
      <4>3. last' = NULL
        BY <4>1, <4>2, Zenon DEF Rescan, DestroyCallback, IInv
      <4>4. core' \in Core
        BY <4>1, Zenon DEF Rescan, FreeInv
      <4> QED BY <4>3, <4>4, Zenon DEF LastReleased
    <3>2. CASE FreeRaises("loop")
      BY <3>2, FreesLast, Zenon DEF FreeRaises, FreeStops
    <3> QED BY <2>1, <3>1, <3>2, Zenon DEF Scan
  <2>2. CASE VAttach
    <3>1. pc # "dead"
      BY <2>2, Zenon DEF VAttach, AtPacket
    <3>2. PICK n \in 1..(MaxList + 1) :
            \/ n <= Len(list) /\ \E ok \in BOOLEAN : AttachTo(list[n], ok, "halting")
            \/ n <= Len(list) /\ AttachRaises(list[n])
            \/ UNCHANGED <<list, heap, attached, tc, core, last, notify>>
      BY <2>2, ZenonT(60) DEF VAttach
    <3>3. n <= Len(list) => list[n] \in heap
      BY <3>1, <3>2, Attachable, SessionAssumption, SMTT(60) DEF SessionAssumption, IInv
    <3>4. CASE UNCHANGED <<list, heap, attached, tc, core, last, notify>>
      BY <3>4, LastStays, Zenon
    <3> QED BY <3>1, <3>2, <3>3, <3>4, AttachesOther, Zenon
  <2>3. CASE Resume
    <3>1. UNCHANGED core \/ (cur # NULL /\ core' = [core EXCEPT ![cur] = "run"])
      BY <2>3, Zenon DEF Resume
    <3>2. UNCHANGED <<attached, last>>
      BY <2>3, Zenon DEF Resume
    <3> QED BY <3>1, <3>2, OtherCore, LastStays, Zenon
  <2>4. CASE Restart
    <3>1. \/ UNCHANGED session
          \/ cur # NULL /\ core' = [core EXCEPT ![cur] = "stop"] /\ UNCHANGED <<attached, last>>
          \/ last # NULL /\ \E ok \in BOOLEAN, st \in {"stop", "halting"} : AttachTo(last, ok, st)
          \/ last # NULL /\ AttachRaises(last)
      BY <2>4, Zenon DEF Restart
    <3>2. pc # "dead"
      BY <2>4, Zenon DEF Restart, AtPacket
    <3>3. CASE UNCHANGED session
      BY <3>3, LastStays, ZenonT(60) DEF session
    <3> QED BY <3>1, <3>2, <3>3, Attachable, AttachesOther, OtherCore, ZenonT(60)
  <2>5. CASE VRun
    <3>1. \/ UNCHANGED session
          \/ cur # NULL /\ core' = [core EXCEPT ![cur] = "stop"] /\ UNCHANGED <<attached, last>>
          \/ last # NULL /\ \E ok \in BOOLEAN, st \in {"stop", "halting"} : AttachTo(last, ok, st)
          \/ last # NULL /\ AttachRaises(last)
      BY <2>5, Zenon DEF VRun
    <3>2. pc # "dead"
      BY <2>5, Zenon DEF VRun, AtPacket
    <3>3. CASE UNCHANGED session
      BY <3>3, LastStays, Zenon DEF session
    <3> QED BY <3>1, <3>2, <3>3, Attachable, AttachesOther, OtherCore, Zenon
  <2>6. CASE HaltReason \/ VStopped \/ Access \/ LateF \/ LoopExit \/ PollRunning \/ PollHalted
             \/ PortCloses \/ PortOpens \/ UNCHANGED vars
    <3>1. UNCHANGED <<core, attached, last>>
      BY <2>6, Zenon DEF HaltReason, VStopped, Access, LateF, LoopExit, PollRunning, PollHalted, PortCloses, PortOpens, session, vars
    <3> QED BY <3>1, LastStays, Zenon
  <2>7. CASE MonitorReset \/ PollLost \/ MainCatch
    <3>1. FreeFirst(Len(list)) \/ (\E k \in 0..Len(list) : FreeFirst(k)) \/ UNCHANGED session
      BY <2>7, Zenon DEF MonitorReset, PollLost, MainCatch, FreeRaises, FreeStops
    <3>2. Len(list) \in 0..Len(list)
      BY DEF IInv
    <3>3. CASE UNCHANGED session
      BY <3>3, LastStays, Zenon DEF session
    <3> QED BY <3>1, <3>2, <3>3, FreesLast, Zenon
  <2>8. CASE Detach
    <3>1. CASE UNCHANGED session
      BY <3>1, LastStays, Zenon DEF session
    <3>2. CASE cur # NULL /\ DetachCur
      <4>1. cur \in Targets
        BY <3>2 DEF IInv, Range
      <4> QED BY <3>2, <4>1, Zenon DEF DetachCur, FreeInv, LastReleased
    <3> QED BY <2>8, <3>1, <3>2, Zenon DEF Detach
  <2>9. CASE ReadChar
    <3>1. cur # NULL
      BY <2>9, Zenon DEF ReadChar, FreeInv
    <3>2. UNCHANGED <<attached, last>> /\ (core' = core \/ core' = [core EXCEPT ![cur] = "halting"])
      BY <2>9, Zenon DEF ReadChar
    <3> QED BY <3>1, <3>2, OtherCore, LastStays, Zenon
  <2>10. CASE CoreStops \/ CoreObeys
    <3>1. PICK t \in heap : core[t] # "free" /\ core' = [core EXCEPT ![t] = "stop"] /\ UNCHANGED <<attached, last>>
      BY <2>10, Zenon DEF CoreStops, CoreObeys
    <3>2. t \in Targets
      BY DEF IInv, Range
    <3> QED BY <3>1, <3>2 DEF FreeInv, LastReleased
  <2>11. ~PollSyscall /\ ~Syscall
    BY Zenon DEF PollSyscall, Syscall, SyscallReply, SyscallInterrupt, SyscallMemory, SyscallRaises, SyscallEof, FreeInv
  <2> QED BY <2>1, <2>2, <2>3, <2>4, <2>5, <2>6, <2>7, <2>8, <2>9, <2>10, <2>11, ZenonT(60) DEF Next, Packet, Poll
<1>2. pc' # "syscall" /\ (pc' = "char" => cur' # NULL)
  <2>1. CASE Packet \/ Detach \/ LoopExit \/ PollHalted \/ PollLost \/ ReadChar \/ MainCatch
    <3>1. pc' \in {"loop", "catch", "dead", "packet"}
      <4>1. CASE Scan \/ MonitorReset
        BY <4>1, Zenon DEF Scan, MonitorReset, FreeRaises
      <4>2. CASE VAttach
        BY <4>2, Zenon DEF VAttach, AttachRaises, Raise
      <4>3. CASE Restart
        BY <4>3, Zenon DEF Restart, AttachRaises, Raise
      <4>4. CASE VRun
        BY <4>4, Zenon DEF VRun, AttachRaises, Raise
      <4>5. CASE Resume \/ HaltReason \/ VStopped \/ Access \/ LateF \/ Detach
        BY <4>5, Zenon DEF Resume, HaltReason, VStopped, Access, LateF, Detach, Raise
      <4>6. CASE LoopExit \/ PollHalted \/ PollLost \/ ReadChar \/ MainCatch
        BY <4>6, Zenon DEF LoopExit, PollHalted, PollLost, ReadChar, MainCatch, FreeRaises, Raise
      <4> QED BY <2>1, <4>1, <4>2, <4>3, <4>4, <4>5, <4>6, Zenon DEF Packet
    <3> QED BY <3>1, Zenon
  <2>2. CASE PollRunning
    BY <2>2, Zenon DEF PollRunning, Polling, session
  <2>3. CASE CoreStops \/ CoreObeys \/ PortCloses \/ PortOpens \/ UNCHANGED vars
    <3>1. UNCHANGED <<pc, cur>>
      BY <2>3, Zenon DEF CoreStops, CoreObeys, PortCloses, PortOpens, vars, session
    <3> QED BY <3>1, Zenon DEF FreeInv
  <2>4. ~PollSyscall /\ ~Syscall
    BY Zenon DEF PollSyscall, Syscall, SyscallReply, SyscallInterrupt, SyscallMemory, SyscallRaises, SyscallEof, FreeInv
  <2> QED BY <2>1, <2>2, <2>3, <2>4, Zenon DEF Next, Poll
<1> QED BY <1>1, <1>2, Zenon DEF FreeInv

\* A target that GDB detached from is really released (target_detach, and
\* target_attach's notice to the controller that held the target), whatever
\* accesses raise and however GDB comes and goes, as long as it makes no
\* semihosting calls: hostio's end of transmission resumes a detached core.
THEOREM DetachReleases ==
    ASSUME Semihosting = FALSE
    PROVE  Spec => []LastReleased
<1>1. Init => FreeInv
  BY SessionAssumption, Zenon DEF Init, FreeInv, LastReleased
<1>2. FreeInv => LastReleased
  BY Zenon DEF FreeInv
<1> QED BY InitInv, NextInv, FreeNext, <1>1, <1>2, PTL DEF Spec
=============================================================================
