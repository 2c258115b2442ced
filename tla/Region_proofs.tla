----------------------------- MODULE Region_proofs -----------------------------
(***************************************************************************)
(* Proofs about Region.tla for any page size, any sizes and any number of  *)
(* symbols: as long as the products of validate_overlap_vm_area fit in an  *)
(* int, regions never overlap, and the bytes that two symbols share are    *)
(* at most the last one of a region cut from the free list.                *)
(***************************************************************************)
EXTENDS Region, TLAPS

(* The area never gets so large that a product of two of its parts, or the *)
(* area itself, exceeds what an int can hold.                              *)
NoWrap ==
  /\ MaxBrk <= IntHalf
  /\ \A a, b \in 0 .. MaxBrk : a + b <= MaxBrk => a * b <= IntHalf

Regions == [start : Nat, end : Nat]

(* No rg_end is above the break.  Where rg_end is the last byte, that byte *)
(* may be the one at the break.                                            *)
BelowBrk ==
  /\ \A r \in Live : sym[r].end <= sbrk
  /\ \A i \in DOMAIN freeList : freeList[i].end <= sbrk

Inv == TypeOK /\ Disjoint /\ BelowBrk

(* rg_end is the last byte asked for, or the byte after it.                *)
EndsMatch == \A r \in Live : sym[r].start + asked[r] \in {sym[r].end, sym[r].end + 1}

------------------------------------------------------------------------------
(* Arithmetic: rounding up to pages, and the cast to int.                  *)
LEMMA ModSmall ==
  ASSUME NEW m \in Nat \ {0}, NEW x \in 0 .. m - 1
  PROVE  x % m = x
BY SMT

LEMMA DivUp ==
  ASSUME NEW m \in Nat \ {0}, NEW x \in Nat
  PROVE  /\ (x \div m) \in Nat
         /\ (x \div m) * m <= x /\ x < (x \div m) * m + m
BY SMT

LEMMA AlignedUp ==
  ASSUME NEW n \in Nat
  PROVE  Aligned(n) \in Nat /\ Aligned(n) >= n
<1> DEFINE k == (n + PageSize - 1) \div PageSize
<1>1. k \in Nat /\ k * PageSize <= n + PageSize - 1 /\ n + PageSize - 1 < k * PageSize + PageSize
  BY DivUp, RegionAssumption
<1>2. k * PageSize \in Nat
  BY <1>1, RegionAssumption
<1> HIDE DEF k
<1>3. k * PageSize >= n
  BY <1>1, <1>2, RegionAssumption
<1> QED
  BY <1>2, <1>3 DEF Aligned, k

LEMMA ToIntNegative ==
  ASSUME NEW x \in Int, 1 <= x, x <= IntHalf
  PROVE  ToInt(-x) = -x
<1>1. IntHalf \in Nat \ {0} /\ 2 * IntHalf \in Nat \ {0}
  BY RegionAssumption
<1>2. -x + IntHalf \in 0 .. 2 * IntHalf - 1
  BY <1>1
<1>3. (-x + IntHalf) % (2 * IntHalf) = -x + IntHalf
  BY <1>1, <1>2, ModSmall
<1> QED
  BY <1>1, <1>3 DEF ToInt

(* The area an allocation asks for is then never taken to overlap itself.  *)
LEMMA NoOverlap ==
  ASSUME NoWrap, sbrk \in Nat, NEW n \in Sizes, sbrk + Aligned(n) <= MaxBrk
  PROVE  GrownBrk(n) = sbrk + Aligned(n)
<1>1. n \in Nat /\ n >= 1 /\ Aligned(n) \in Nat /\ Aligned(n) >= 1
  BY AlignedUp, RegionAssumption
<1>2. MaxBrk \in Nat /\ IntHalf \in Nat
  BY RegionAssumption
<1> DEFINE a == Aligned(n)
<1> HIDE DEF a
<1>3. a \in Nat /\ a >= 1 /\ sbrk + a <= MaxBrk
  BY <1>1 DEF a
<1>4. CASE sbrk = 0
  BY <1>4 DEF GrownBrk, Overlaps
<1>5. CASE sbrk # 0
  <2>1. sbrk * a \in Nat /\ sbrk * a >= 1
    BY <1>3, <1>5
  <2>2. sbrk * a <= IntHalf /\ sbrk + a - 1 <= IntHalf /\ sbrk + a - 1 >= 1
    BY <1>2, <1>3, <1>5 DEF NoWrap
  <2>3. ((sbrk + a) - 1) * (sbrk - 1 - sbrk) = -(sbrk + a - 1)
    BY <1>3
  <2>4. sbrk * (sbrk - (sbrk + a)) = -(sbrk * a)
    BY <1>3
  <2>5. ToInt(((sbrk + a) - 1) * (sbrk - 1 - sbrk)) = -(sbrk + a - 1)
    <3>1. ToInt(-(sbrk + a - 1)) = -(sbrk + a - 1)
      BY <1>3, <2>2, ToIntNegative
    <3> QED
      BY <2>3, <3>1, Zenon
  <2>6. ToInt(sbrk * (sbrk - (sbrk + a))) = -(sbrk * a)
    <3>1. ToInt(-(sbrk * a)) = -(sbrk * a)
      BY <2>1, <2>2, ToIntNegative
    <3> QED
      BY <2>4, <3>1, Zenon
  <2>7. ~(-(sbrk + a - 1) >= 0) /\ ~(-(sbrk * a) >= 0)
    BY <1>3, <2>1, <2>2
  <2>9. ~Overlaps(sbrk, sbrk + a)
    <3> DEFINE P == ToInt(((sbrk + a) - 1) * (sbrk - 1 - sbrk))
               R == ToInt(sbrk * (sbrk - (sbrk + a)))
    <3>1. Overlaps(sbrk, sbrk + a) => P >= 0 \/ R >= 0
      BY DEF Overlaps
    <3>2. P = -(sbrk + a - 1) /\ R = -(sbrk * a)
      BY <2>5, <2>6
    <3> HIDE DEF P, R
    <3> QED
      BY <2>7, <3>1, <3>2
  <2> QED
    BY <2>9 DEF GrownBrk, a
<1> QED
  BY <1>4, <1>5

------------------------------------------------------------------------------
(* The three changes to the list of free regions: an element removed, one  *)
(* replaced, one put in front.                                             *)
LEMMA RemovedAt ==
  ASSUME NEW S, NEW list \in Seq(S), NEW i \in DOMAIN list
  PROVE  LET L == SubSeq(list, 1, i - 1) \o SubSeq(list, i + 1, Len(list)) IN
         /\ L \in Seq(S) /\ Len(L) = Len(list) - 1
         /\ \A j \in 1 .. Len(L) : L[j] = IF j < i THEN list[j] ELSE list[j + 1]
<1> DEFINE A == SubSeq(list, 1, i - 1)
           B == SubSeq(list, i + 1, Len(list))
<1>1. i \in 1 .. Len(list) /\ Len(list) \in Nat
  OBVIOUS
<1>2. A \in Seq(S) /\ Len(A) = i - 1 /\ \A j \in 1 .. i - 1 : A[j] = list[j]
  BY <1>1
<1>3. /\ B \in Seq(S) /\ Len(B) = Len(list) - i
      /\ \A j \in 1 .. Len(list) - i : B[j] = list[j + i]
  BY <1>1
<1> HIDE DEF A, B
<1>4. A \o B \in Seq(S) /\ Len(A \o B) = Len(list) - 1
  BY <1>1, <1>2, <1>3
<1>5. \A j \in 1 .. Len(list) - 1 : (A \o B)[j] = IF j < i THEN list[j] ELSE list[j + 1]
  <2> SUFFICES ASSUME NEW j \in 1 .. Len(list) - 1
               PROVE  (A \o B)[j] = IF j < i THEN list[j] ELSE list[j + 1]
    OBVIOUS
  <2>1. CASE j < i
    BY <1>1, <1>2, <1>3, <2>1
  <2>2. CASE j >= i
    <3>1. (A \o B)[j] = B[j - (i - 1)]
      BY <1>1, <1>2, <1>3, <2>2
    <3>2. j - (i - 1) \in 1 .. Len(list) - i
      BY <1>1, <2>2
    <3>3. B[j - (i - 1)] = list[(j - (i - 1)) + i]
      BY <1>3, <3>2
    <3>4. (j - (i - 1)) + i = j + 1 /\ ~(j < i)
      BY <1>1, <2>2
    <3> QED
      BY <3>1, <3>3, <3>4
  <2>3. j < i \/ j >= i
    BY <1>1
  <2> QED
    BY <2>1, <2>2, <2>3, Zenon
<1> QED
  BY <1>1, <1>4, <1>5 DEF A, B

LEMMA PutInFront ==
  ASSUME NEW S, NEW list \in Seq(S), NEW x \in S
  PROVE  /\ <<x>> \o list \in Seq(S) /\ Len(<<x>> \o list) = Len(list) + 1
         /\ \A j \in 1 .. Len(list) + 1 :
              (<<x>> \o list)[j] = IF j = 1 THEN x ELSE list[j - 1]
OBVIOUS

(* A list of regions that are apart from each other and below b.           *)
Tidy(list, b) ==
  /\ list \in Seq(Regions)
  /\ \A i, j \in DOMAIN list : i # j => Apart(list[i], list[j])
  /\ \A i \in DOMAIN list : list[i].end <= b

(* A region that may join them.                                            *)
Clear(rg, list, b) ==
  rg \in Regions /\ rg.end <= b /\ \A i \in DOMAIN list : Apart(rg, list[i])

LEMMA TidyEnlist ==
  ASSUME NEW b \in Nat, NEW list, NEW rg, Tidy(list, b), Clear(rg, list, b)
  PROVE  /\ Tidy(Enlist(list, rg), b)
         /\ \A x : Clear(x, list, b) /\ Apart(x, rg) => Clear(x, Enlist(list, rg), b)
<1>1. CASE rg.start >= rg.end
  BY <1>1 DEF Enlist
<1>2. CASE ~(rg.start >= rg.end)
  <2> DEFINE L == <<rg>> \o list
  <2>1. /\ L \in Seq(Regions) /\ Len(L) = Len(list) + 1 /\ DOMAIN L = 1 .. Len(list) + 1
        /\ DOMAIN list = 1 .. Len(list) /\ Len(list) \in Nat
        /\ \A j \in 1 .. Len(list) + 1 : L[j] = IF j = 1 THEN rg ELSE list[j - 1]
    BY PutInFront DEF Tidy, Clear
  <2> HIDE DEF L
  <2>2. \A j \in DOMAIN L : j # 1 => j - 1 \in DOMAIN list /\ L[j] = list[j - 1]
    BY <2>1
  <2>3. L[1] = rg
    BY <2>1
  <2>4. \A i, j \in DOMAIN L : i # j => Apart(L[i], L[j])
    <3> SUFFICES ASSUME NEW i \in DOMAIN L, NEW j \in DOMAIN L, i # j PROVE Apart(L[i], L[j])
      OBVIOUS
    <3>1. CASE i = 1
      BY <2>2, <2>3, <3>1 DEF Clear
    <3>2. CASE j = 1
      BY <2>2, <2>3, <3>2 DEF Clear, Apart
    <3>3. CASE i # 1 /\ j # 1
      <4>1. i - 1 # j - 1
        BY <2>1
      <4> QED
        BY <2>2, <3>3, <4>1 DEF Tidy
    <3> QED
      BY <3>1, <3>2, <3>3
  <2>5. \A i \in DOMAIN L : L[i].end <= b
    BY <2>2, <2>3 DEF Tidy, Clear
  <2>6. \A x : Clear(x, list, b) /\ Apart(x, rg) => Clear(x, L, b)
    BY <2>2, <2>3 DEF Clear
  <2> QED
    BY <1>2, <2>1, <2>4, <2>5, <2>6 DEF Enlist, L, Tidy
<1> QED
  BY <1>1, <1>2

(* Taking n bytes at node i leaves a tidy list, clear of the bytes taken,  *)
(* and whatever was clear of the list before still is.                     *)
LEMMA TidyListAfter ==
  ASSUME NEW b \in Nat, Tidy(freeList, b),
         NEW i \in DOMAIN freeList, NEW n \in Nat \ {0}, RoomIn(freeList[i]) >= n
  PROVE  LET taken == Rg(freeList[i].start, freeList[i].start + n - 1) IN
         /\ Tidy(ListAfter(i, n), b)
         /\ Clear(taken, ListAfter(i, n), b)
         /\ \A x : Clear(x, freeList, b) => Clear(x, ListAfter(i, n), b) /\ Apart(x, taken)
<1> DEFINE old == freeList[i]
           rest == Cut(old, n)
           taken == Rg(old.start, old.start + n - 1)
<1>0. old \in Regions /\ old.end <= b /\ RoomIn(old) >= n
  BY DEF Tidy
<1> HIDE DEF old
<1>1. old.start \in Nat /\ old.end \in Nat /\ old.start + n - 1 <= old.end
  BY <1>0 DEF RoomIn, Regions
<1>2. /\ taken \in Regions /\ taken.end <= b
      /\ rest = [start |-> old.start + n, end |-> old.end]
      /\ Apart(taken, rest)
  BY <1>0, <1>1 DEF Regions, Rg, Cut, Apart
<1>3. \A x \in Regions : Apart(x, old) => Apart(x, taken) /\ Apart(x, rest)
  BY <1>1 DEF Regions, Rg, Cut, Apart
<1>4. \A x, y : Apart(x, y) <=> Apart(y, x)
  BY DEF Apart
<1>5. /\ freeList \in Seq(Regions) /\ DOMAIN freeList = 1 .. Len(freeList)
      /\ Len(freeList) \in Nat /\ i \in 1 .. Len(freeList)
      /\ \A j \in DOMAIN freeList : freeList[j] \in Regions /\ freeList[j].end <= b
      /\ \A j, k \in DOMAIN freeList : j # k => Apart(freeList[j], freeList[k])
  BY DEF Tidy
<1> HIDE DEF rest, taken
<1>6. CASE rest.start > rest.end
  <2> DEFINE L == SubSeq(freeList, 1, i - 1) \o SubSeq(freeList, i + 1, Len(freeList))
             at(j) == IF j < i THEN j ELSE j + 1
  <2>1. /\ L \in Seq(Regions) /\ Len(L) = Len(freeList) - 1
        /\ \A j \in 1 .. Len(L) : L[j] = IF j < i THEN freeList[j] ELSE freeList[j + 1]
    BY <1>5, RemovedAt
  <2>3. ListAfter(i, n) = L
    BY <1>6 DEF ListAfter, rest, old
  <2> HIDE DEF L
  <2>2. DOMAIN L = 1 .. Len(freeList) - 1
    BY <1>5, <2>1
  <2>4. \A j \in DOMAIN L : at(j) \in DOMAIN freeList /\ at(j) # i /\ L[j] = freeList[at(j)]
    BY <1>5, <2>1, <2>2
  <2>5. \A j, k \in DOMAIN L : j # k => at(j) # at(k)
    BY <1>5, <2>2
  <2> HIDE DEF at
  <2>6. Tidy(L, b)
    BY <1>5, <2>1, <2>4, <2>5 DEF Tidy
  <2>7. \A j \in DOMAIN L : Apart(taken, L[j])
    BY <1>3, <1>4, <1>5, <2>4 DEF old
  <2>8. \A x : Clear(x, freeList, b) => Clear(x, L, b) /\ Apart(x, taken)
    BY <1>3, <1>5, <2>4 DEF Clear, old
  <2> QED
    BY <1>2, <2>3, <2>6, <2>7, <2>8 DEF Clear, taken, old
<1>7. CASE ~(rest.start > rest.end)
  <2> DEFINE L == [freeList EXCEPT ![i] = rest]
  <2>1. ListAfter(i, n) = L
    BY <1>7 DEF ListAfter, rest, old
  <2>2. rest \in Regions /\ rest.end <= b
    BY <1>0, <1>1, <1>2 DEF Regions
  <2>3. /\ L \in Seq(Regions) /\ DOMAIN L = DOMAIN freeList /\ L[i] = rest
        /\ \A j \in DOMAIN freeList : j # i => L[j] = freeList[j]
    BY <1>5, <2>2
  <2> HIDE DEF L
  <2>4. \A j \in DOMAIN freeList : j # i => Apart(rest, freeList[j]) /\ Apart(taken, freeList[j])
    BY <1>3, <1>4, <1>5 DEF old
  <2>5. \A j, k \in DOMAIN L : j # k => Apart(L[j], L[k])
    BY <1>4, <1>5, <2>3, <2>4
  <2>6. \A j \in DOMAIN L : L[j].end <= b
    BY <1>5, <2>2, <2>3
  <2>7. \A j \in DOMAIN L : Apart(taken, L[j])
    BY <1>2, <2>3, <2>4
  <2>8. \A x : Clear(x, freeList, b) => Clear(x, L, b) /\ Apart(x, taken)
    BY <1>3, <1>5, <2>3 DEF Clear, old
  <2> QED
    BY <1>2, <2>1, <2>3, <2>5, <2>6, <2>7, <2>8 DEF Clear, Tidy, taken, old
<1> QED
  BY <1>6, <1>7
------------------------------------------------------------------------------
(* A stronger reading of the invariant, one region and one list at a time: *)
(* the free list is tidy and every live symbol is clear of it.             *)
LEMMA InvParts ==
  Inv <=> /\ TypeOK /\ Tidy(freeList, sbrk)
          /\ \A r \in Live : Clear(sym[r], freeList, sbrk)
          /\ \A r, t \in Live : r # t => Apart(sym[r], sym[t])
BY DEF Inv, TypeOK, Disjoint, BelowBrk, Tidy, Clear, Regions, Live

LEMMA InvPartsNext ==
  Inv' <=> /\ TypeOK' /\ Tidy(freeList', sbrk')
           /\ \A r \in Live' : Clear(sym'[r], freeList', sbrk')
           /\ \A r, t \in Live' : r # t => Apart(sym'[r], sym'[t])
BY DEF Inv, TypeOK, Disjoint, BelowBrk, Tidy, Clear, Regions, Live

(* One symbol gets a new region and a size; what TypeOK asks of the rest.  *)
LEMMA SymUpdate ==
  ASSUME TypeOK, NEW r \in Syms, NEW rg \in Regions, NEW n \in Sizes,
         sym' = [sym EXCEPT ![r] = rg], asked' = [asked EXCEPT ![r] = n]
  PROVE  /\ sym' \in [Syms -> Regions] /\ asked' \in [Syms -> Sizes \cup {0}]
         /\ sym'[r] = rg
         /\ \A t \in Live' : t # r => t \in Live /\ sym'[t] = sym[t]
BY DEF TypeOK, Live, Regions

LEMMA AllocFreeKeepsInv ==
  ASSUME Inv, NEW r \in Syms, NEW n \in Sizes, AllocFree(r, n)
  PROVE  Inv'
<1>1. /\ TypeOK /\ Tidy(freeList, sbrk)
      /\ \A t \in Live : Clear(sym[t], freeList, sbrk)
      /\ \A t, u \in Live : t # u => Apart(sym[t], sym[u])
  BY InvParts
<1>2. PICK i \in DOMAIN freeList :
        /\ RoomIn(freeList[i]) >= n
        /\ sym' = [sym EXCEPT ![r] = Rg(freeList[i].start, freeList[i].start + n - 1)]
        /\ freeList' = ListAfter(i, n)
        /\ asked' = [asked EXCEPT ![r] = n]
        /\ sbrk' = sbrk
  BY DEF AllocFree, Fits
<1> DEFINE taken == Rg(freeList[i].start, freeList[i].start + n - 1)
<1>3. n \in Nat \ {0} /\ sbrk \in Nat
  BY <1>1, RegionAssumption DEF TypeOK
<1>4. /\ Tidy(freeList', sbrk) /\ Clear(taken, freeList', sbrk)
      /\ \A x : Clear(x, freeList, sbrk) => Clear(x, freeList', sbrk) /\ Apart(x, taken)
  BY <1>1, <1>2, <1>3, TidyListAfter
<1>5. taken \in Regions
  BY <1>4 DEF Clear
<1> HIDE DEF taken
<1>6. sym' = [sym EXCEPT ![r] = taken]
  BY <1>2 DEF taken
<1>7. /\ sym' \in [Syms -> Regions] /\ asked' \in [Syms -> Sizes \cup {0}]
      /\ sym'[r] = taken
      /\ \A t \in Live' : t # r => t \in Live /\ sym'[t] = sym[t]
  BY <1>1, <1>2, <1>5, <1>6, SymUpdate
<1>8. TypeOK'
  BY <1>1, <1>2, <1>4, <1>7 DEF TypeOK, Tidy, Regions
<1>9. \A t \in Live' : Clear(sym'[t], freeList', sbrk)
  BY <1>1, <1>4, <1>7
<1>10. \A t, u \in Live' : t # u => Apart(sym'[t], sym'[u])
  BY <1>1, <1>4, <1>7 DEF Apart
<1> QED
  BY <1>2, <1>4, <1>8, <1>9, <1>10, InvPartsNext

LEMMA AllocBrkKeepsInv ==
  ASSUME NoWrap, Inv, NEW r \in Syms, NEW n \in Sizes, AllocBrk(r, n)
  PROVE  Inv'
<1>1. /\ TypeOK /\ Tidy(freeList, sbrk)
      /\ \A t \in Live : Clear(sym[t], freeList, sbrk)
      /\ \A t, u \in Live : t # u => Apart(sym[t], sym[u])
  BY InvParts
<1>2. n \in Nat \ {0} /\ sbrk \in Nat /\ Aligned(n) \in Nat /\ Aligned(n) >= n
  BY <1>1, AlignedUp, RegionAssumption DEF TypeOK
<1>3. sbrk' = sbrk + Aligned(n) /\ sbrk' <= MaxBrk
  BY <1>2, NoOverlap DEF AllocBrk
<1> DEFINE b == sbrk + Aligned(n)
           new == Rg(sbrk, sbrk + n)
           left == Rg(sbrk + n, b)
<1>4. b \in Nat /\ sbrk <= b /\ sbrk' = b /\ b <= MaxBrk
  BY <1>2, <1>3
<1>5. /\ new \in Regions /\ left \in Regions /\ new.end <= b /\ left.end <= b
      /\ new.start = sbrk /\ left.start >= sbrk /\ Apart(new, left)
  BY <1>2 DEF Rg, Regions, Apart
<1>6. /\ sym' = [sym EXCEPT ![r] = new] /\ asked' = [asked EXCEPT ![r] = n]
      /\ freeList' = Enlist(freeList, left)
  BY <1>3 DEF AllocBrk
<1> HIDE DEF b, new, left
<1>7. \A x \in Regions : x.end <= sbrk => Apart(x, new) /\ Apart(x, left) /\ x.end <= b
  BY <1>2, <1>4, <1>5 DEF Apart, Regions
<1>8. \A j \in DOMAIN freeList : freeList[j] \in Regions /\ freeList[j].end <= sbrk
  BY <1>1 DEF Tidy
<1>9. Tidy(freeList, b)
  BY <1>1, <1>7, <1>8 DEF Tidy
<1>10. Clear(new, freeList, b) /\ Clear(left, freeList, b)
  BY <1>5, <1>7, <1>8 DEF Clear, Apart
<1>11. \A t \in Live : Clear(sym[t], freeList, b) /\ Apart(sym[t], new) /\ Apart(sym[t], left)
  BY <1>1, <1>7 DEF Clear
<1>12. /\ Tidy(freeList', b)
       /\ \A x : Clear(x, freeList, b) /\ Apart(x, left) => Clear(x, freeList', b)
  BY <1>4, <1>6, <1>9, <1>10, TidyEnlist
<1>13. /\ sym' \in [Syms -> Regions] /\ asked' \in [Syms -> Sizes \cup {0}]
       /\ sym'[r] = new
       /\ \A t \in Live' : t # r => t \in Live /\ sym'[t] = sym[t]
  BY <1>1, <1>5, <1>6, SymUpdate
<1>14. TypeOK'
  BY <1>4, <1>12, <1>13, RegionAssumption DEF TypeOK, Tidy, Regions
<1>15. \A t \in Live' : Clear(sym'[t], freeList', b)
  BY <1>5, <1>10, <1>11, <1>12, <1>13
<1>16. \A t, u \in Live' : t # u => Apart(sym'[t], sym'[u])
  BY <1>1, <1>11, <1>13 DEF Apart
<1> QED
  BY <1>4, <1>12, <1>14, <1>15, <1>16, InvPartsNext

LEMMA FreeKeepsInv ==
  ASSUME Inv, NEW r \in Syms, Free(r)
  PROVE  Inv'
<1>1. /\ TypeOK /\ Tidy(freeList, sbrk)
      /\ \A t \in Live : Clear(sym[t], freeList, sbrk)
      /\ \A t, u \in Live : t # u => Apart(sym[t], sym[u])
  BY InvParts
<1>2. /\ r \in Live /\ freeList' = Enlist(freeList, sym[r])
      /\ asked' = [asked EXCEPT ![r] = 0] /\ sym' = sym /\ sbrk' = sbrk
  BY DEF Free, Live
<1>3. Live' = Live \ {r}
  BY <1>1, <1>2 DEF Live, TypeOK
<1>4. sbrk \in Nat
  BY <1>1, RegionAssumption DEF TypeOK
<1>5. /\ Tidy(freeList', sbrk)
      /\ \A x : Clear(x, freeList, sbrk) /\ Apart(x, sym[r]) => Clear(x, freeList', sbrk)
  BY <1>1, <1>2, <1>4, TidyEnlist
<1>6. TypeOK'
  BY <1>1, <1>2, <1>5 DEF TypeOK, Tidy, Regions
<1>7. \A t \in Live' : Clear(sym'[t], freeList', sbrk)
  BY <1>1, <1>2, <1>3, <1>5
<1>8. \A t, u \in Live' : t # u => Apart(sym'[t], sym'[u])
  BY <1>1, <1>2, <1>3
<1> QED
  BY <1>2, <1>5, <1>6, <1>7, <1>8, InvPartsNext

LEMMA InitInv ==
  ASSUME Init PROVE Inv
<1>1. Rg(0, 0) \in Regions /\ Rg(0, 0).end = 0
  BY DEF Rg, Regions
<1>2. Live = {}
  BY DEF Init, Live
<1>3. freeList \in Seq(Regions) /\ DOMAIN freeList = {1} /\ freeList[1] = Rg(0, 0)
  BY <1>1 DEF Init
<1>4. TypeOK
  BY <1>1, <1>3, RegionAssumption DEF Init, TypeOK, Regions
<1>5. Tidy(freeList, sbrk)
  BY <1>1, <1>3 DEF Init, Tidy
<1> QED
  BY <1>2, <1>4, <1>5, InvParts

LEMMA NextInv ==
  ASSUME NoWrap, Inv, [Next]_vars
  PROVE  Inv'
<1>1. ASSUME NEW r \in Syms, Free(r) PROVE Inv'
  BY <1>1, FreeKeepsInv
<1>2. ASSUME NEW r \in Syms, NEW n \in Sizes, AllocFree(r, n) PROVE Inv'
  BY <1>2, AllocFreeKeepsInv
<1>3. ASSUME NEW r \in Syms, NEW n \in Sizes, AllocBrk(r, n) PROVE Inv'
  BY <1>3, AllocBrkKeepsInv
<1>4. CASE UNCHANGED vars
  BY <1>4, InvParts, InvPartsNext DEF vars, Inv, TypeOK, Live
<1> QED
  BY <1>1, <1>2, <1>3, <1>4 DEF Next

LEMMA Invariance == NoWrap /\ Spec => []Inv
<1>1. Init => Inv
  BY InitInv
<1>2. NoWrap /\ Inv /\ [Next]_vars => Inv'
  BY NextInv
<1>3. NoWrap /\ [Next]_vars => NoWrap'
  BY DEF NoWrap
<1> QED
  BY <1>1, <1>2, <1>3, PTL DEF Spec

(* The lists and the symbols stay well formed, and the break where the     *)
(* bound allows it.                                                        *)
THEOREM TypeCorrect == NoWrap /\ Spec => []TypeOK
<1>1. Inv => TypeOK
  BY DEF Inv
<1> QED
  BY <1>1, Invariance, PTL

(* While no product overflows, no two live regions and no free region      *)
(* share a byte, whatever is allocated, reallocated and freed.             *)
THEOREM RegionsDisjoint == NoWrap /\ Spec => []Disjoint
<1>1. Inv => Disjoint
  BY DEF Inv
<1> QED
  BY <1>1, Invariance, PTL

LEMMA NextEnds == Inv /\ EndsMatch /\ [Next]_vars => EndsMatch'
<1> SUFFICES ASSUME Inv, EndsMatch, [Next]_vars PROVE EndsMatch'
  OBVIOUS
<1>0. TypeOK
  BY DEF Inv
<1>1. ASSUME NEW r \in Syms, Free(r) PROVE EndsMatch'
  <2>1. /\ sym' = sym /\ Live' \subseteq Live
        /\ \A t \in Live' : asked'[t] = asked[t]
    BY <1>0, <1>1 DEF Free, Live, TypeOK
  <2> QED BY <2>1 DEF EndsMatch
<1>2. ASSUME NEW r \in Syms, NEW n \in Sizes, NEW a \in Nat, NEW e \in Nat,
             a + n \in {e, e + 1}, sym' = [sym EXCEPT ![r] = Rg(a, e)],
             asked' = [asked EXCEPT ![r] = n]
      PROVE  EndsMatch'
  <2>1. sym'[r].start = a /\ sym'[r].end = e /\ asked'[r] = n
    BY <1>0, <1>2 DEF TypeOK, Rg
  <2>2. \A t \in Live' : t # r => t \in Live /\ sym'[t] = sym[t] /\ asked'[t] = asked[t]
    BY <1>0, <1>2 DEF TypeOK, Live
  <2> QED BY <1>2, <2>1, <2>2 DEF EndsMatch
<1>3. ASSUME NEW r \in Syms, NEW n \in Sizes, AllocFree(r, n) PROVE EndsMatch'
  <2>1. PICK i \in DOMAIN freeList :
          /\ sym' = [sym EXCEPT ![r] = Rg(freeList[i].start, freeList[i].start + n - 1)]
          /\ asked' = [asked EXCEPT ![r] = n]
    BY <1>3 DEF AllocFree
  <2>2. /\ freeList[i].start \in Nat
        /\ n \in Nat \ {0}
    <3>1. Tidy(freeList, sbrk)
      BY InvParts
    <3>2. freeList[i] \in Regions
      BY <3>1 DEF Tidy
    <3>3. n \in Nat \ {0}
      BY RegionAssumption
    <3> QED BY <3>2, <3>3 DEF Regions
  <2> DEFINE a == freeList[i].start
             e == a + n - 1
  <2>3. a \in Nat /\ sym' = [sym EXCEPT ![r] = Rg(a, e)]
    BY <2>1, <2>2
  <2> HIDE DEF a
  <2>4. e \in Nat /\ a + n = e + 1
    BY <2>2, <2>3
  <2> HIDE DEF e
  <2> QED BY <1>2, <2>1, <2>3, <2>4
<1>4. ASSUME NEW r \in Syms, NEW n \in Sizes, AllocBrk(r, n) PROVE EndsMatch'
  <2>1. sbrk \in Nat /\ n \in Nat /\ sbrk + n \in Nat
    BY <1>0, RegionAssumption DEF TypeOK
  <2> QED BY <1>2, <1>4, <2>1 DEF AllocBrk
<1>5. CASE UNCHANGED vars
  BY <1>5 DEF vars, EndsMatch, Live
<1> QED BY <1>1, <1>3, <1>4, <1>5 DEF Next

LEMMA EdgeMeaning == Inv /\ EndsMatch => EdgeOnly
<1> SUFFICES ASSUME Inv, EndsMatch, NEW r \in Live
             PROVE  /\ \A t \in Live \ {r} : Bytes(r) \cap Bytes(t) \subseteq {sym[r].end, sym[t].end}
                    /\ Bytes(r) \subseteq 0 .. sbrk
  BY DEF EdgeOnly
<1>1. \A t \in Live : /\ sym[t].start \in Nat /\ sym[t].end \in Nat /\ asked[t] \in Nat
                      /\ sym[t].start + asked[t] - 1 <= sym[t].end
  <2> SUFFICES ASSUME NEW t \in Live
               PROVE  /\ sym[t].start \in Nat /\ sym[t].end \in Nat /\ asked[t] \in Nat
                      /\ sym[t].start + asked[t] - 1 <= sym[t].end
    OBVIOUS
  <2>1. t \in Syms /\ sym[t].start \in Nat /\ sym[t].end \in Nat /\ asked[t] \in Sizes \cup {0}
    BY DEF Inv, TypeOK, Live
  <2>2. asked[t] \in Nat
    BY <2>1, RegionAssumption
  <2>3. sym[t].start + asked[t] = sym[t].end \/ sym[t].start + asked[t] = sym[t].end + 1
    BY DEF EndsMatch
  <2> QED BY <2>1, <2>2, <2>3
<1>2. \A t \in Live \ {r} : Bytes(r) \cap Bytes(t) \subseteq {sym[r].end, sym[t].end}
  <2> SUFFICES ASSUME NEW t \in Live \ {r}, NEW b \in Bytes(r), b \in Bytes(t)
               PROVE  b = sym[r].end \/ b = sym[t].end
    OBVIOUS
  <2>1. /\ b \in Int /\ sym[r].start <= b /\ b <= sym[r].end
        /\ sym[t].start <= b /\ b <= sym[t].end
    BY <1>1 DEF Bytes
  <2>2. sym[r].end <= sym[t].start \/ sym[t].end <= sym[r].start
    BY DEF Inv, Disjoint, Apart
  <2> QED BY <1>1, <2>1, <2>2
<1>3. Bytes(r) \subseteq 0 .. sbrk
  <2>1. sym[r].end <= sbrk /\ sbrk \in Nat
    BY RegionAssumption DEF Inv, BelowBrk, TypeOK
  <2> QED BY <1>1, <2>1 DEF Bytes
<1> QED BY <1>2, <1>3

(* While no product overflows, two live symbols share no byte of what they *)
(* asked for but the last one of a region cut from the free list, and      *)
(* none has a byte past the one at the break.                              *)
THEOREM EdgeOnlyAlways == NoWrap /\ Spec => []EdgeOnly
<1>1. Init => EndsMatch
  BY DEF Init, EndsMatch, Live
<1> QED
  BY <1>1, NextEnds, EdgeMeaning, Invariance, PTL DEF Spec
================================================================================
