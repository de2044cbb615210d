---------------------------- MODULE PointProofs -----------------------------
(***************************************************************************)
(* Comparators and the list of break- and watchpoints that target_s keeps, *)
(* for either core.                                                        *)
(***************************************************************************)
EXTENDS Integers, Sequences, FiniteSetsExt, WellFoundedInduction, TLAPS

---------------------------------------------------------------------------
(* The smallest of a set of numbers.                                       *)

LEMMA MinIn ==
    ASSUME NEW T \in SUBSET Nat, T # {}
    PROVE  Min(T) \in T /\ \A y \in T : Min(T) <= y
<1> DEFINE R == {ss \in Nat \X Nat : ss[1] < ss[2]}
<1>1. IsWellFoundedOn(R, Nat)
  BY NatLessThanWellFounded, Zenon DEF OpToRel
<1>2. \A x, y \in Nat : x < y => <<x, y>> \in R
  BY Zenon
<1> HIDE DEF R
<1>3. PICK x \in T : \A y \in T : ~(<<y, x>> \in R)
  BY <1>1, WFMin, Zenon
<1>4. ASSUME NEW y \in T PROVE x <= y
  <2>1. x \in Nat /\ y \in Nat /\ ~(y < x)
    BY <1>2, <1>3, Zenon
  <2> QED BY <2>1
<1>5. \E z \in T : \A y \in T : z <= y
  BY <1>4, Zenon
<1> QED BY <1>5, Zenon DEF Min

---------------------------------------------------------------------------
(* Lists of entries, newest first.                                         *)

LEMMA Prepended ==
    ASSUME NEW S, NEW s \in Seq(S), NEW e \in S
    PROVE  /\ <<e>> \o s \in Seq(S) /\ Len(<<e>> \o s) = Len(s) + 1
           /\ (<<e>> \o s)[1] = e
           /\ \A k \in 1..Len(s) : (<<e>> \o s)[k + 1] = s[k]
OBVIOUS

LEMMA Catenated ==
    ASSUME NEW S, NEW s \in Seq(S), NEW t \in Seq(S)
    PROVE  s \o t \in Seq(S) /\ Len(s \o t) = Len(s) + Len(t)
OBVIOUS

RemoveAt(s, e) == SubSeq(s, 1, e - 1) \o SubSeq(s, e + 1, Len(s))

LEMMA Removed ==
    ASSUME NEW S, NEW s \in Seq(S), NEW e \in 1..Len(s)
    PROVE  /\ RemoveAt(s, e) \in Seq(S) /\ Len(RemoveAt(s, e)) = Len(s) - 1
           /\ \A k \in 1..(e - 1) : RemoveAt(s, e)[k] = s[k]
           /\ \A k \in e..(Len(s) - 1) : RemoveAt(s, e)[k] = s[k + 1]
<1> DEFINE a == SubSeq(s, 1, e - 1)
           b == SubSeq(s, e + 1, Len(s))
<1>1. /\ a \in Seq(S) /\ Len(a) = e - 1 /\ \A k \in 1..(e - 1) : a[k] = s[k]
  OBVIOUS
<1>2. /\ b \in Seq(S) /\ Len(b) = Len(s) - e /\ \A k \in 1..(Len(s) - e) : b[k] = s[e + k]
  OBVIOUS
<1>3. RemoveAt(s, e) = a \o b
  BY Zenon DEF RemoveAt
<1> HIDE DEF a, b
<1>4. a \o b \in Seq(S) /\ Len(a \o b) = Len(s) - 1
  <2>1. a \o b \in Seq(S) /\ Len(a \o b) = Len(a) + Len(b)
    BY <1>1, <1>2, Catenated, Zenon
  <2>2. Len(s) \in Nat /\ (e - 1) + (Len(s) - e) = Len(s) - 1
    OBVIOUS
  <2> QED BY <1>1, <1>2, <2>1, <2>2, Zenon
<1>5. ASSUME NEW k \in 1..(e - 1) PROVE (a \o b)[k] = s[k]
  BY <1>1, <1>2
<1>6. ASSUME NEW k \in e..(Len(s) - 1) PROVE (a \o b)[k] = s[k + 1]
  <2>1. (a \o b)[k] = b[k - (e - 1)]
    BY <1>1, <1>2
  <2>2. k - (e - 1) \in 1..(Len(s) - e) /\ e + (k - (e - 1)) = k + 1
    OBVIOUS
  <2> QED BY <1>2, <2>1, <2>2, Zenon
<1> QED BY <1>3, <1>4, <1>5, <1>6, Zenon

---------------------------------------------------------------------------
(* Comparators and the list of target_s, of either core.                   *)

\* What a comparator holds that watches nothing.
Unarmed == -1

\* The newest entry of a list for a place.
NewestAt(list, k, p) == k \in 1..Len(list) /\ list[k].place = p /\ \A j \in 1..(k - 1) : list[j].place # p

\* The comparators of a unit hold what was set of its places, each in the one
\* that the newest entry of the list says; entries of earlier sessions come after.
Fits(slots, unit, comp, used, list, ins) ==
    /\ comp \in [slots -> Int] /\ used \in [slots -> BOOLEAN]
    /\ \A i \in slots : used[i] <=> comp[i] # Unarmed
    /\ \A i, j \in slots : comp[i] = comp[j] /\ comp[i] # Unarmed => i = j
    /\ \A i \in slots : comp[i] # Unarmed => \E p \in ins : p \in unit /\ p.addr = comp[i]
    /\ \A p \in ins : p \in unit => \E k \in 1..Len(list) :
          NewestAt(list, k, p) /\ list[k].reserved \in slots /\ comp[list[k].reserved] = p.addr

\* The places of a unit differ in their addresses.
Addressed(unit) == \A p, q \in unit : p.addr \in Nat /\ (p.addr = q.addr => p = q)

\* Entries before and after keep the newest of every other place.
LEMMA NewestPrepended ==
    ASSUME NEW S, NEW list \in Seq(S), NEW e \in S, NEW k \in 1..Len(list), NEW p, p # e.place,
           NewestAt(list, k, p)
    PROVE  NewestAt(<<e>> \o list, k + 1, p) /\ (<<e>> \o list)[k + 1] = list[k]
<1> DEFINE l == <<e>> \o list
<1>1. Len(l) = Len(list) + 1 /\ l[1] = e /\ \A j \in 1..Len(list) : l[j + 1] = list[j]
  BY Prepended
<1> HIDE DEF l
<1>2. k + 1 \in 1..Len(l) /\ l[k + 1].place = p
  BY <1>1 DEF NewestAt
<1>3. ASSUME NEW j \in 1..k PROVE l[j].place # p
  <2>1. CASE j = 1
    BY <1>1, <2>1, Zenon
  <2>2. CASE j # 1
    <3>1. j - 1 \in 1..(k - 1) /\ j - 1 \in 1..Len(list) /\ (j - 1) + 1 = j
      BY <2>2
    <3> QED BY <1>1, <3>1, ZenonT(30) DEF NewestAt
  <2> QED BY <2>1, <2>2, Zenon
<1>4. NewestAt(l, k + 1, p)
  BY <1>2, <1>3 DEF NewestAt
<1> QED BY <1>1, <1>4, Zenon DEF l

LEMMA NewestRemoved ==
    ASSUME NEW S, NEW list \in Seq(S), NEW e \in 1..Len(list), NEW k \in 1..Len(list), NEW p, NewestAt(list, k, p),
           k # e
    PROVE  \E m \in 1..Len(RemoveAt(list, e)) : NewestAt(RemoveAt(list, e), m, p) /\ RemoveAt(list, e)[m] = list[k]
<1> DEFINE l == RemoveAt(list, e)
<1>1. /\ Len(l) = Len(list) - 1
      /\ \A j \in 1..(e - 1) : l[j] = list[j]
      /\ \A j \in e..(Len(list) - 1) : l[j] = list[j + 1]
  BY Removed, Zenon
<1> HIDE DEF l
<1>2. list[k].place = p /\ \A j \in 1..(k - 1) : list[j].place # p
  BY Zenon DEF NewestAt
<1>3. CASE k < e
  <2>1. k \in 1..Len(l) /\ k \in 1..(e - 1) /\ l[k] = list[k]
    BY <1>1, <1>3
  <2>2. ASSUME NEW j \in 1..(k - 1) PROVE l[j].place # p
    <3>1. j \in 1..(e - 1)
      BY <1>3
    <3> QED BY <1>1, <1>2, <3>1, Zenon
  <2>3. NewestAt(l, k, p)
    BY <1>2, <2>1, <2>2, Zenon DEF NewestAt
  <2> QED BY <2>1, <2>3, Zenon DEF l
<1>4. CASE k > e
  <2>1. k - 1 \in 1..Len(l) /\ k - 1 \in e..(Len(list) - 1) /\ (k - 1) + 1 = k
    BY <1>1, <1>4
  <2>2. l[k - 1] = list[k]
    BY <1>1, <2>1, Zenon
  <2>3. ASSUME NEW j \in 1..(k - 2) PROVE l[j].place # p
    <3>1. CASE j < e
      <4>1. j \in 1..(e - 1) /\ j \in 1..(k - 1)
        BY <3>1
      <4> QED BY <1>1, <1>2, <4>1, Zenon
    <3>2. CASE j >= e
      <4>1. j \in e..(Len(list) - 1) /\ j + 1 \in 1..(k - 1)
        BY <3>2
      <4> QED BY <1>1, <1>2, <4>1, Zenon
    <3> QED BY <3>1, <3>2
  <2>4. NewestAt(l, k - 1, p)
    <3>1. (k - 1) - 1 = k - 2
      OBVIOUS
    <3> QED BY <1>2, <2>1, <2>2, <2>3, <3>1, Zenon DEF NewestAt
  <2> QED BY <2>1, <2>2, <2>4, Zenon DEF l
<1> QED BY <1>3, <1>4

\* A place that is set gets a comparator of its unit, and leaves the other units.
LEMMA FitsSet ==
    ASSUME NEW slots, NEW unit, NEW comp, NEW used, NEW S, NEW list \in Seq(S), NEW ins,
           Fits(slots, unit, comp, used, list, ins), Addressed(unit), NEW p \in unit, p \notin ins,
           NEW i \in slots, ~used[i], [place |-> p, reserved |-> i] \in S
    PROVE  Fits(slots, unit, [comp EXCEPT ![i] = p.addr], [used EXCEPT ![i] = TRUE],
                <<[place |-> p, reserved |-> i]>> \o list, ins \cup {p})
<1> DEFINE c == [comp EXCEPT ![i] = p.addr]
           u == [used EXCEPT ![i] = TRUE]
           e == [place |-> p, reserved |-> i]
           l == <<e>> \o list
<1>1. p.addr \in Int /\ p.addr # Unarmed
  BY DEF Addressed, Unarmed
<1>2. e \in S /\ e.place = p /\ e.reserved = i
  BY Zenon
<1>3. c \in [slots -> Int] /\ c[i] = p.addr /\ \A j \in slots : j # i => c[j] = comp[j]
  BY <1>1, ZenonT(60) DEF Fits
<1>4. u \in [slots -> BOOLEAN] /\ u[i] = TRUE /\ \A j \in slots : j # i => u[j] = used[j]
  BY DEF Fits
<1>5. Len(l) = Len(list) + 1 /\ l[1] = e
  BY <1>2, Prepended
<1>6. ASSUME NEW q \in ins, q \in unit
      PROVE  \E k \in 1..Len(l) : NewestAt(l, k, q) /\ l[k].reserved \in slots /\ c[l[k].reserved] = q.addr
  <2>1. PICK k \in 1..Len(list) : NewestAt(list, k, q) /\ list[k].reserved \in slots /\ comp[list[k].reserved] = q.addr
    BY <1>6, Zenon DEF Fits
  <2>2. q # e.place
    BY <1>2, Zenon
  <2>3. NewestAt(l, k + 1, q) /\ l[k + 1] = list[k]
    BY <1>2, <2>1, <2>2, NewestPrepended, SMTT(30)
  <2>4. list[k].reserved # i
    <3>1. q.addr # Unarmed
      BY <1>6 DEF Addressed, Unarmed
    <3> QED BY <2>1, <3>1, Zenon DEF Fits
  <2>5. k + 1 \in 1..Len(l)
    BY <1>5
  <2> QED BY <1>3, <2>1, <2>3, <2>4, <2>5, Zenon
<1>7. NewestAt(l, 1, p) /\ 1 \in 1..Len(l)
  BY <1>2, <1>5 DEF NewestAt
<1> HIDE DEF c, u, e, l
<1>8. \A j \in slots : u[j] <=> c[j] # Unarmed
  BY <1>1, <1>3, <1>4, Zenon DEF Fits
<1>9. \A j \in slots : comp[j] # p.addr
  BY <1>1, SMTT(60) DEF Fits, Addressed
<1>10. ASSUME NEW j \in slots, NEW k \in slots, c[j] = c[k], c[j] # Unarmed PROVE j = k
  <2>1. j # i /\ k # i => c[j] = comp[j] /\ c[k] = comp[k]
    BY <1>3, Zenon
  <2>2. j = i \/ k = i => j = k
    BY <1>3, <1>9, <1>10, SMTT(30)
  <2>3. \A x, y \in slots : comp[x] = comp[y] /\ comp[x] # Unarmed => x = y
    BY Zenon DEF Fits
  <2> QED BY <1>10, <2>1, <2>2, <2>3, Zenon
<1>11. ASSUME NEW j \in slots, c[j] # Unarmed PROVE \E q \in ins \cup {p} : q \in unit /\ q.addr = c[j]
  <2>1. CASE j = i
    BY <1>3, <2>1, Zenon
  <2>2. CASE j # i
    <3>1. c[j] = comp[j]
      BY <1>3, <2>2, Zenon
    <3>2. PICK q \in ins : q \in unit /\ q.addr = comp[j]
      BY <1>11, <3>1, Zenon DEF Fits
    <3> QED BY <3>1, <3>2, Zenon
  <2> QED BY <2>1, <2>2, Zenon
<1>12. \A q \in ins \cup {p} : q \in unit => \E k \in 1..Len(l) :
          NewestAt(l, k, q) /\ l[k].reserved \in slots /\ c[l[k].reserved] = q.addr
  BY <1>2, <1>3, <1>5, <1>6, <1>7, Zenon
<1>13. Fits(slots, unit, c, u, l, ins \cup {p})
  BY <1>3, <1>4, <1>8, <1>10, <1>11, <1>12, Zenon DEF Fits
<1> QED BY <1>13, Zenon DEF c, u, e, l

LEMMA FitsSetOther ==
    ASSUME NEW slots, NEW unit, NEW comp, NEW used, NEW S, NEW list \in Seq(S), NEW ins,
           Fits(slots, unit, comp, used, list, ins), NEW e \in S, e.place \notin unit
    PROVE  Fits(slots, unit, comp, used, <<e>> \o list, ins \cup {e.place})
<1> DEFINE l == <<e>> \o list
<1>1. Len(l) = Len(list) + 1
  BY Prepended, Zenon
<1>2. ASSUME NEW q \in ins, q \in unit
      PROVE  \E k \in 1..Len(l) : NewestAt(l, k, q) /\ l[k].reserved \in slots /\ comp[l[k].reserved] = q.addr
  <2>1. PICK k \in 1..Len(list) : NewestAt(list, k, q) /\ list[k].reserved \in slots /\ comp[list[k].reserved] = q.addr
    BY <1>2, Zenon DEF Fits
  <2>2. NewestAt(l, k + 1, q) /\ l[k + 1] = list[k]
    BY <1>2, <2>1, NewestPrepended, Zenon
  <2>3. k + 1 \in 1..Len(l)
    BY <1>1
  <2> QED BY <2>1, <2>2, <2>3, Zenon
<1> HIDE DEF l
<1>3. Fits(slots, unit, comp, used, l, ins \cup {e.place})
  BY <1>2, Zenon DEF Fits
<1> QED BY <1>3, Zenon DEF l

\* A place that is cleared frees the comparator it had, and no other.
LEMMA FitsClear ==
    ASSUME NEW slots, NEW unit, NEW comp, NEW used, NEW S, NEW list \in Seq(S), NEW ins,
           Fits(slots, unit, comp, used, list, ins), Addressed(unit), NEW p \in unit, p \in ins,
           NEW n \in 1..Len(list), NewestAt(list, n, p)
    PROVE  /\ list[n].reserved \in slots
           /\ Fits(slots, unit, [comp EXCEPT ![list[n].reserved] = Unarmed], [used EXCEPT ![list[n].reserved] = FALSE],
                   RemoveAt(list, n), ins \ {p})
<1>1. PICK i : i = list[n].reserved
  BY Zenon
<1>2. i \in slots /\ comp[i] = p.addr
  <2>1. PICK k \in 1..Len(list) : NewestAt(list, k, p) /\ list[k].reserved \in slots /\ comp[list[k].reserved] = p.addr
    BY Zenon DEF Fits
  <2>2. k = n
    <3>1. ~(k < n) /\ ~(n < k)
      BY <2>1 DEF NewestAt
    <3> QED BY <3>1
  <2> QED BY <1>1, <2>1, <2>2, Zenon
<1> DEFINE c == [comp EXCEPT ![i] = Unarmed]
           u == [used EXCEPT ![i] = FALSE]
           l == RemoveAt(list, n)
<1>3. c \in [slots -> Int] /\ c[i] = Unarmed /\ \A j \in slots : j # i => c[j] = comp[j]
  BY <1>2 DEF Fits, Unarmed
<1>4. u \in [slots -> BOOLEAN] /\ u[i] = FALSE /\ \A j \in slots : j # i => u[j] = used[j]
  BY <1>2, Zenon DEF Fits
<1>5. ASSUME NEW q \in ins \ {p}, q \in unit
      PROVE  \E k \in 1..Len(l) : NewestAt(l, k, q) /\ l[k].reserved \in slots /\ c[l[k].reserved] = q.addr
  <2>1. PICK k \in 1..Len(list) : NewestAt(list, k, q) /\ list[k].reserved \in slots /\ comp[list[k].reserved] = q.addr
    BY <1>5, Zenon DEF Fits
  <2>2. k # n
    BY <2>1, Zenon DEF NewestAt
  <2>3. PICK m \in 1..Len(l) : NewestAt(l, m, q) /\ l[m] = list[k]
    BY <2>1, <2>2, NewestRemoved
  <2>4. q.addr # p.addr
    BY <1>5, Zenon DEF Addressed
  <2>5. list[k].reserved # i
    BY <1>2, <2>1, <2>4, Zenon
  <2> QED BY <1>3, <2>1, <2>3, <2>5, SMTT(30)
<1> HIDE DEF c, u, l
<1>6. \A j \in slots : u[j] <=> c[j] # Unarmed
  BY <1>3, <1>4, ZenonT(60) DEF Fits
<1>7. \A j, k \in slots : c[j] = c[k] /\ c[j] # Unarmed => j = k
  BY <1>3, SMTT(60) DEF Fits
<1>8. ASSUME NEW j \in slots, c[j] # Unarmed PROVE \E q \in ins \ {p} : q \in unit /\ q.addr = c[j]
  <2>1. j # i /\ c[j] = comp[j] /\ comp[j] # Unarmed
    BY <1>3, <1>8, Zenon
  <2>2. comp[j] # p.addr
    BY <1>2, <2>1 DEF Fits
  <2>3. PICK q \in ins : q \in unit /\ q.addr = comp[j]
    BY <2>1, Zenon DEF Fits
  <2> QED BY <2>1, <2>2, <2>3, Zenon
<1>9. Fits(slots, unit, c, u, l, ins \ {p})
  BY <1>3, <1>4, <1>5, <1>6, <1>7, <1>8, Zenon DEF Fits
<1> QED BY <1>1, <1>2, <1>9, Zenon DEF c, u, l

LEMMA FitsClearOther ==
    ASSUME NEW slots, NEW unit, NEW comp, NEW used, NEW S, NEW list \in Seq(S), NEW ins,
           Fits(slots, unit, comp, used, list, ins), NEW n \in 1..Len(list), list[n].place \notin unit
    PROVE  Fits(slots, unit, comp, used, RemoveAt(list, n), ins \ {list[n].place})
<1>1. PICK p : p = list[n].place
  BY Zenon
<1> DEFINE l == RemoveAt(list, n)
<1>2. ASSUME NEW q \in ins, q \in unit
      PROVE  \E k \in 1..Len(l) : NewestAt(l, k, q) /\ l[k].reserved \in slots /\ comp[l[k].reserved] = q.addr
  <2>1. PICK k \in 1..Len(list) : NewestAt(list, k, q) /\ list[k].reserved \in slots /\ comp[list[k].reserved] = q.addr
    BY <1>2, Zenon DEF Fits
  <2>2. k # n
    BY <1>2, <2>1, Zenon DEF NewestAt
  <2>3. PICK m \in 1..Len(l) : NewestAt(l, m, q) /\ l[m] = list[k]
    BY <2>1, <2>2, NewestRemoved
  <2> QED BY <2>1, <2>3, Zenon
<1> HIDE DEF l
<1>3. \A q \in ins : q \in unit => q \in ins \ {p}
  BY <1>1, Zenon
<1>4. Fits(slots, unit, comp, used, l, ins \ {p})
  BY <1>2, <1>3, Zenon DEF Fits
<1> QED BY <1>1, <1>4, Zenon DEF l

LEMMA FitsNothing ==
    ASSUME NEW slots, NEW unit, NEW list
    PROVE  Fits(slots, unit, [i \in slots |-> Unarmed], [i \in slots |-> FALSE], list, {})
BY DEF Fits, Unarmed

\* The newest of the entries for a place is the first.
LEMMA FirstNewest ==
    ASSUME NEW S, NEW list \in Seq(S), NEW p, \E k \in 1..Len(list) : list[k].place = p,
           NEW n, n = Min({k \in DOMAIN list : list[k].place = p})
    PROVE  n \in 1..Len(list) /\ NewestAt(list, n, p)
<1> DEFINE M == {k \in DOMAIN list : list[k].place = p}
<1>1. M \in SUBSET Nat /\ M # {} /\ \A k \in 1..Len(list) : k \in M <=> list[k].place = p
  OBVIOUS
<1> HIDE DEF M
<1>2. n \in M /\ \A y \in M : n <= y
  BY <1>1, MinIn, Zenon DEF M
<1>3. n \in 1..Len(list) /\ list[n].place = p
  BY <1>2 DEF M
<1>4. ASSUME NEW j \in 1..(n - 1) PROVE list[j].place # p
  <2>1. j \in 1..Len(list) /\ ~(n <= j)
    BY <1>3
  <2> QED BY <1>1, <1>2, <2>1, Zenon
<1> QED BY <1>3, <1>4, Zenon DEF NewestAt

=============================================================================
