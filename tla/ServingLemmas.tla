--------------------------- MODULE ServingLemmas ---------------------------
(***************************************************************************)
(* Lemmas about the operators of the serving software: the KV cache's page *)
(* tables, rings and offload region, for every number of layers, of        *)
(* virtual and of physical pages, every depth, threshold and size of the   *)
(* NVMe region; the client's logits, sampling filters and automata, for    *)
(* every vocabulary and pattern.  The theorems that rest on them are       *)
(* Serving_proof's.                                                        *)
(***************************************************************************)
EXTENDS Serving, SequenceLemmas, FiniteSetTheorems, TLAPS

(***************************************************************************)
(* The KV cache's page tables: no page is ever handed out twice            *)
(***************************************************************************)
VirtPage == 0 .. MaxVirtPages - 1
PhysPage == 0 .. MaxPages - 1

Table == [ phys : [VirtPage -> Int], refs : [VirtPage -> Int],
           free : Seq(Int), allocated : Int ]

(* The inductive invariant of one table: it is a table, and its pages are  *)
(* owned once.                                                             *)
TableOK(pt) == pt \in Table /\ OwnedOnce(pt, MaxPages)

(* A new table has every page on its free stack.                           *)
LEMMA NewTableOK == TableOK(NewPageTable(MaxVirtPages, MaxPages))
<1> DEFINE pt == NewPageTable(MaxVirtPages, MaxPages)
<1>1. /\ pt.phys = [v \in VirtPage |-> NotResident]
      /\ pt.free = [i \in 1 .. MaxPages |-> MaxPages - i]
      /\ pt.allocated = 0
      /\ pt \in Table
  BY KvAssumption DEF NewPageTable, Table, VirtPage, NotResident
<1>2. Len(pt.free) = MaxPages /\ \A i \in 1 .. MaxPages : pt.free[i] = MaxPages - i
  BY <1>1, KvAssumption
<1>3. \A v \in DOMAIN pt.phys : ~Resident(pt, v)
  BY <1>1 DEF Resident, NotResident
<1>4. \A pg \in PhysPage : pg \in FreeSet(pt)
  <2> TAKE pg \in PhysPage
  <2>1. MaxPages - pg \in 1 .. MaxPages /\ pt.free[MaxPages - pg] = pg
    BY <1>2, KvAssumption DEF PhysPage
  <2> QED BY <2>1, <1>2 DEF FreeSet
<1> HIDE DEF pt
<1>5. \A i, j \in 1 .. Len(pt.free) : i # j => pt.free[i] # pt.free[j]
  BY <1>2, KvAssumption
<1>6. pt.allocated + Len(pt.free) = MaxPages
  BY <1>1, <1>2, KvAssumption
<1>7. OwnedOnce(pt, MaxPages)
  BY <1>3, <1>4, <1>5, <1>6 DEF OwnedOnce, PhysPage
<1> QED BY <1>1, <1>7 DEF TableOK, pt

(* AllocPage moves the top of the stack to the virtual page.               *)
LEMMA AllocKeeps ==
    ASSUME NEW pt, TableOK(pt), NEW v \in VirtPage
    PROVE  TableOK(AllocPage(pt, v))
<1>1. CASE ~CanAlloc(pt, v)
  BY <1>1 DEF AllocPage
<1>2. CASE CanAlloc(pt, v)
  <2> DEFINE n   == Len(pt.free)
             top == pt.free[n]
             qt  == AllocPage(pt, v)
  <2>1. /\ pt \in Table /\ v \in DOMAIN pt.phys /\ pt.phys[v] < 0
        /\ n \in Nat \ {0} /\ top \in Int
    <3>1. /\ pt \in Table /\ pt.phys \in [VirtPage -> Int] /\ pt.free \in Seq(Int)
      BY DEF TableOK, Table
    <3>2. v \in DOMAIN pt.phys /\ pt.phys[v] < 0
      BY <1>2, <3>1 DEF CanAlloc, Resident
    <3>3. pt.free # <<>>
      BY <1>2 DEF CanAlloc
    <3>4. n \in Nat \ {0}
      BY <3>1, <3>3
    <3>5. top \in Int
      BY <3>1, <3>4
    <3> QED BY <3>1, <3>2, <3>4, <3>5
  <2>2. /\ qt.phys = [pt.phys EXCEPT ![v] = top]
        /\ qt.free = SubSeq(pt.free, 1, n - 1)
        /\ qt.allocated = pt.allocated + 1
        /\ qt \in Table
    BY <1>2, <2>1 DEF AllocPage, Table
  <2>3. Len(qt.free) = n - 1 /\ \A i \in 1 .. n - 1 : qt.free[i] = pt.free[i]
    <3>1. pt.free \in Seq(Int) /\ 1 \in Int /\ n - 1 \in Int
      BY <2>1 DEF Table
    <3>2. \A i \in 1 .. n - 1 : pt.free[i] \in Int
      BY <2>1, <3>1
    <3> HIDE DEF n, qt
    <3>3. /\ Len(SubSeq(pt.free, 1, n - 1)) = IF 1 <= n - 1 THEN n - 1 - 1 + 1 ELSE 0
          /\ \A i \in 1 .. n - 1 - 1 + 1 : SubSeq(pt.free, 1, n - 1)[i] = pt.free[1 + i - 1]
      BY <3>1, <3>2, SubSeqProperties
    <3>4. n - 1 - 1 + 1 = n - 1 /\ \A i \in 1 .. n - 1 : 1 + i - 1 = i
      BY <2>1
    <3>5. Len(SubSeq(pt.free, 1, n - 1)) = n - 1
      BY <2>1, <3>3
    <3> QED BY <2>2, <3>3, <3>4, <3>5
  <2>4. OwnedOnce(pt, MaxPages)
    BY DEF TableOK
  <2> HIDE DEF n, top, qt
  <2>5. FreeSet(qt) = FreeSet(pt) \ {top} /\ top \in FreeSet(pt)
    <3>1. \A i \in 1 .. n - 1 : pt.free[i] # top
      BY <2>1, <2>4 DEF OwnedOnce, n, top
    <3>2. \A i \in 1 .. n : i = n \/ i \in 1 .. n - 1
      BY <2>1
    <3>3. n \in 1 .. n /\ \A i \in 1 .. n - 1 : i \in 1 .. n
      BY <2>1
    <3>4. FreeSet(pt) = { pt.free[i] : i \in 1 .. n }
      BY DEF FreeSet, n
    <3>5. FreeSet(qt) = { pt.free[i] : i \in 1 .. n - 1 }
      BY <2>3 DEF FreeSet
    <3>6. top = pt.free[n]
      BY DEF top
    <3> QED BY <3>1, <3>2, <3>3, <3>4, <3>5, <3>6
  <2>6. \A w \in DOMAIN pt.phys : Resident(pt, w) => pt.phys[w] # top
    BY <2>4, <2>5 DEF OwnedOnce
  <2>7. DOMAIN qt.phys = DOMAIN pt.phys
    BY <2>2
  <2>8. \A i, j \in 1 .. Len(qt.free) : i # j => qt.free[i] # qt.free[j]
    BY <2>1, <2>3, <2>4 DEF OwnedOnce, n
  <2>9. \A w \in DOMAIN qt.phys : Resident(qt, w) => qt.phys[w] \notin FreeSet(qt)
    BY <2>2, <2>4, <2>5, <2>7 DEF OwnedOnce, Resident
  <2>10. \A w, x \in DOMAIN qt.phys : Resident(qt, w) /\ w # x => qt.phys[w] # qt.phys[x]
    <3> SUFFICES ASSUME NEW w \in DOMAIN pt.phys, NEW x \in DOMAIN pt.phys,
                        Resident(qt, w), w # x
                 PROVE  qt.phys[w] # qt.phys[x]
      BY <2>7
    <3>1. CASE w = v
      <4>1. top >= 0 /\ qt.phys[w] = top /\ qt.phys[x] = pt.phys[x]
        BY <3>1, <2>1, <2>2 DEF Resident
      <4> QED BY <4>1, <2>6 DEF Resident
    <3>2. CASE x = v
      <4>1. Resident(pt, w) /\ qt.phys[w] = pt.phys[w] /\ qt.phys[x] = top
        BY <3>2, <2>1, <2>2, <2>7 DEF Resident
      <4> QED BY <4>1, <2>6
    <3>3. CASE w # v /\ x # v
      BY <3>3, <2>1, <2>2, <2>4 DEF OwnedOnce, Resident
    <3> QED BY <3>1, <3>2, <3>3
  <2>11. \A pg \in PhysPage : pg \in FreeSet(qt) \/ \E w \in DOMAIN qt.phys : qt.phys[w] = pg
    <3> TAKE pg \in PhysPage
    <3>1. CASE pg = top
      BY <3>1, <2>1, <2>2, <2>7
    <3>2. CASE pg # top /\ pg \in FreeSet(pt)
      BY <3>2, <2>5
    <3>3. CASE pg # top /\ pg \notin FreeSet(pt)
      <4>1. PICK w \in DOMAIN pt.phys : pt.phys[w] = pg
        BY <3>3, <2>4 DEF OwnedOnce, PhysPage
      <4>2. w # v
        BY <4>1, <2>1 DEF PhysPage
      <4> QED BY <4>1, <4>2, <2>2, <2>7
    <3> QED BY <3>1, <3>2, <3>3
  <2>12. qt.allocated + Len(qt.free) = MaxPages
    BY <2>1, <2>2, <2>3, <2>4 DEF OwnedOnce, Table, n
  <2> QED BY <2>2, <2>8, <2>9, <2>10, <2>11, <2>12 DEF TableOK, OwnedOnce, PhysPage, qt
<1> QED BY <1>1, <1>2

(* FreePage gives a page back when its last reference goes.                *)
LEMMA FreeKeeps ==
    ASSUME NEW pt, TableOK(pt), NEW v \in VirtPage
    PROVE  TableOK(FreePage(pt, v))
<1>1. CASE ~Resident(pt, v)
  BY <1>1 DEF FreePage
<1>2. CASE Resident(pt, v) /\ pt.refs[v] > 1
  <2> DEFINE qt == FreePage(pt, v)
  <2>0. /\ pt \in Table /\ [pt.refs EXCEPT ![v] = @ - 1] \in [VirtPage -> Int]
        /\ qt = [pt EXCEPT !.refs = [pt.refs EXCEPT ![v] = @ - 1]]
    BY <1>2 DEF FreePage, TableOK, Table
  <2>1. /\ qt.phys = pt.phys /\ qt.free = pt.free /\ qt.allocated = pt.allocated
        /\ qt \in Table
    <3> HIDE DEF qt
    <3> QED BY <2>0 DEF Table
  <2> HIDE DEF qt
  <2>2. OwnedOnce(qt, MaxPages)
    BY <2>1 DEF TableOK, OwnedOnce, Resident, FreeSet
  <2> QED BY <2>1, <2>2 DEF TableOK, qt
<1>3. CASE Resident(pt, v) /\ ~(pt.refs[v] > 1)
  <2> DEFINE n    == Len(pt.free)
             page == pt.phys[v]
             qt   == FreePage(pt, v)
  <2>1. /\ pt \in Table /\ v \in DOMAIN pt.phys /\ page >= 0
        /\ n \in Nat /\ page \in Int
    BY <1>3 DEF TableOK, Table, Resident
  <2>2. /\ qt.phys = [pt.phys EXCEPT ![v] = NotResident]
        /\ qt.free = Append(pt.free, page)
        /\ qt.allocated = pt.allocated - 1
        /\ qt \in Table
    BY <1>3, <2>1 DEF FreePage, Table, NotResident
  <2>3. /\ Len(qt.free) = n + 1 /\ qt.free[n + 1] = page
        /\ \A i \in 1 .. n : qt.free[i] = pt.free[i]
    BY <2>1, <2>2 DEF Table
  <2>4. OwnedOnce(pt, MaxPages)
    BY DEF TableOK
  <2> HIDE DEF n, page, qt
  <2>5. FreeSet(qt) = FreeSet(pt) \cup {page} /\ page \notin FreeSet(pt)
    <3>1. page \notin FreeSet(pt)
      BY <1>3, <2>4, <2>1 DEF OwnedOnce, page
    <3>2. \A i \in 1 .. n + 1 : i = n + 1 \/ i \in 1 .. n
      BY <2>1
    <3>3. \A i \in 1 .. n : i \in 1 .. n + 1
      BY <2>1
    <3>4. n + 1 \in 1 .. n + 1
      BY <2>1
    <3> QED BY <2>3, <3>1, <3>2, <3>3, <3>4 DEF FreeSet, n
  <2>6. \A w \in DOMAIN pt.phys : w # v => pt.phys[w] # page
    BY <1>3, <2>1, <2>4 DEF OwnedOnce, page
  <2>7. DOMAIN qt.phys = DOMAIN pt.phys
    BY <2>2
  <2>8. \A i, j \in 1 .. Len(qt.free) : i # j => qt.free[i] # qt.free[j]
    <3>1. \A i \in 1 .. n : pt.free[i] # page
      BY <2>5 DEF FreeSet, n
    <3>2. \A i \in 1 .. n + 1 : i = n + 1 \/ i \in 1 .. n
      BY <2>1
    <3>3. \A i, j \in 1 .. n : i # j => pt.free[i] # pt.free[j]
      BY <2>4 DEF OwnedOnce, n
    <3> QED BY <2>3, <3>1, <3>2, <3>3
  <2>9. \A w \in DOMAIN qt.phys : Resident(qt, w) => /\ w # v /\ Resident(pt, w)
                                                     /\ qt.phys[w] = pt.phys[w]
    BY <2>1, <2>2, <2>7 DEF Resident, NotResident
  <2>10. \A w \in DOMAIN qt.phys : Resident(qt, w) => qt.phys[w] \notin FreeSet(qt)
    BY <2>4, <2>5, <2>6, <2>7, <2>9 DEF OwnedOnce
  <2>11. \A w, x \in DOMAIN qt.phys : Resident(qt, w) /\ w # x => qt.phys[w] # qt.phys[x]
    BY <2>2, <2>4, <2>7, <2>9 DEF OwnedOnce, Resident, NotResident
  <2>12. \A pg \in PhysPage : pg \in FreeSet(qt) \/ \E w \in DOMAIN qt.phys : qt.phys[w] = pg
    <3> TAKE pg \in PhysPage
    <3>1. CASE pg \in FreeSet(pt) \/ pg = page
      BY <3>1, <2>5
    <3>2. CASE pg \notin FreeSet(pt) /\ pg # page
      <4>1. PICK w \in DOMAIN pt.phys : pt.phys[w] = pg
        BY <3>2, <2>4 DEF OwnedOnce, PhysPage
      <4> QED BY <3>2, <4>1, <2>2, <2>7 DEF page
    <3> QED BY <3>1, <3>2
  <2>13. qt.allocated + Len(qt.free) = MaxPages
    BY <2>1, <2>2, <2>3, <2>4 DEF OwnedOnce, Table, n
  <2> QED BY <2>2, <2>8, <2>10, <2>11, <2>12, <2>13 DEF TableOK, OwnedOnce, PhysPage, qt
<1> QED BY <1>1, <1>2, <1>3

LEMMA ShareKeeps ==
    ASSUME NEW pt, TableOK(pt), NEW v \in VirtPage
    PROVE  TableOK(SharePage(pt, v))
<1> DEFINE qt == SharePage(pt, v)
<1>0. /\ pt \in Table /\ [pt.refs EXCEPT ![v] = @ + 1] \in [VirtPage -> Int]
      /\ qt = pt \/ qt = [pt EXCEPT !.refs = [pt.refs EXCEPT ![v] = @ + 1]]
  BY DEF SharePage, TableOK, Table
<1> HIDE DEF qt
<1>1. /\ qt.phys = pt.phys /\ qt.free = pt.free /\ qt.allocated = pt.allocated
      /\ qt \in Table
  BY <1>0 DEF Table
<1>2. OwnedOnce(qt, MaxPages)
  BY <1>1 DEF TableOK, OwnedOnce, Resident, FreeSet
<1> QED BY <1>1, <1>2 DEF TableOK, qt

-----------------------------------------------------------------------------
TablesOK == /\ pages \in [KvLayerIds -> Table]
            /\ \A l \in KvLayerIds : TableOK(pages[l])

(* A step leaves a layer's table alone or makes one call of PageTable on it. *)
LEMMA TableStep ==
    ASSUME TablesOK, NEW l \in KvLayerIds, NEW pt, TableOK(pt),
           pages' = [pages EXCEPT ![l] = pt]
    PROVE  TablesOK'
<1>1. pt \in Table
  BY DEF TableOK
<1>2. pages' \in [KvLayerIds -> Table]
  BY <1>1 DEF TablesOK
<1>3. \A k \in KvLayerIds : pages'[k] = IF k = l THEN pt ELSE pages[k]
  BY DEF TablesOK
<1>4. \A k \in KvLayerIds : TableOK(pages'[k])
  BY <1>3 DEF TablesOK
<1> QED BY <1>2, <1>4 DEF TablesOK

(* StorePaged allocates at most the page it stores to.                     *)
LEMMA StoreStep ==
    ASSUME TablesOK, NEW l \in KvLayerIds, NEW v, NEW o, StorePagedAt(l, v, o)
    PROVE  TablesOK'
<1> DEFINE pt == IF Resident(pages[l], v) THEN pages[l] ELSE AllocPage(pages[l], v)
<1>1. pages' = [pages EXCEPT ![l] = pt]
  BY DEF StorePagedAt
<1>2. TableOK(pages[l])
  BY DEF TablesOK
<1>3. CASE v \in VirtPage
  <2>1. TableOK(pt)
    BY <1>2, <1>3, AllocKeeps
  <2> QED BY <1>1, <2>1, TableStep
<1>4. CASE v \notin VirtPage
  <2>1. pt = pages[l]
    BY <1>2, <1>4 DEF AllocPage, CanAlloc, TableOK, Table
  <2> QED BY <1>1, <1>2, <2>1, TableStep
<1> QED BY <1>3, <1>4

LEMMA TablesInductive == TablesOK /\ [KvNext]_kvVars => TablesOK'
<1> SUFFICES ASSUME TablesOK, [KvNext]_kvVars PROVE TablesOK'
  OBVIOUS
<1>u. ASSUME UNCHANGED pages PROVE TablesOK'
  BY <1>u DEF TablesOK
<1>k. \A l \in KvLayerIds : TableOK(pages[l])
  BY DEF TablesOK
<1>1. CASE InitNVMe
  BY <1>1, <1>u DEF InitNVMe
<1>2. CASE Offload
  BY <1>2, <1>u DEF Offload
<1>3. ASSUME NEW l \in KvLayerIds, StoreNext(l) PROVE TablesOK'
  BY <1>3, <1>u DEF StoreNext
<1>4. ASSUME NEW l \in KvLayerIds, StorePagedInOrder(l) PROVE TablesOK'
  BY <1>4, StoreStep DEF StorePagedInOrder
<1>5. ASSUME NEW l \in KvLayerIds, NEW v \in VirtPage, AllocVirt(l, v) PROVE TablesOK'
  BY <1>5, <1>k, AllocKeeps, TableStep DEF AllocVirt, PageCall
<1>6. ASSUME NEW l \in KvLayerIds, NEW v \in VirtPage, FreeVirt(l, v) PROVE TablesOK'
  BY <1>6, <1>k, FreeKeeps, TableStep DEF FreeVirt, PageCall
<1>7. ASSUME NEW l \in KvLayerIds, NEW v \in VirtPage, ShareVirt(l, v) PROVE TablesOK'
  BY <1>7, <1>k, ShareKeeps, TableStep DEF ShareVirt, PageCall
<1>8. ASSUME NEW l \in KvLayerIds, NEW v \in VirtPage, NEW o, StorePaged(l, v, o)
      PROVE TablesOK'
  BY <1>8, StoreStep DEF StorePaged, VirtPage
<1>9. ASSUME NEW l \in KvLayerIds, NEW t, NEW w, StorePrefix(t, l, w) PROVE TablesOK'
  BY <1>9, <1>u DEF StorePrefix
<1>10. ASSUME NEW t, LookupPrefix(t) PROVE TablesOK'
  BY <1>10, <1>u DEF LookupPrefix
<1>11. CASE UNCHANGED kvVars
  BY <1>11, <1>u DEF kvVars
<1> QED BY <1>1, <1>2, <1>3, <1>4, <1>5, <1>6, <1>7, <1>8, <1>9, <1>10, <1>11
        DEF KvNext, VirtPage

(***************************************************************************)
(* The KV cache as its sequential caller sees it                           *)
(*                                                                         *)
(* Each bank's ring holds the last of the positions it was dealt, the NVMe *)
(* region the ones that have left the rings; a store, and every pass of    *)
(* the drain loop, keeps both.                                             *)
(***************************************************************************)
Places == 0 .. Depth - 1
Bank == [ entries : [Places -> Int], seq : [Places -> Int],
          wr : Places, rd : Places, occ : 0 .. Depth ]

(* Bank i after n positions were dealt to it: the last occ of them are in  *)
(* the ring.                                                               *)
BankOK(b, i, n) ==
  /\ b \in Bank
  /\ b.occ <= n /\ b.wr = n % Depth /\ b.rd = (n - b.occ) % Depth
  /\ \A k \in n - b.occ .. n - 1 : /\ b.seq[k % Depth] = k
                                   /\ b.entries[k % Depth] = NumBanks * k + i

(* Where a ring of n keeps the k-th of the elements from the a-th on.      *)
LEMMA RingPlace ==
    ASSUME NEW n \in Nat \ {0}, NEW a \in Nat, NEW k \in Nat, a <= k, k < a + n
    PROVE  /\ a % n \in 0 .. n - 1 /\ k % n \in 0 .. n - 1
           /\ k % n = Wrapped((a % n) + (k - a), n)
<1> DEFINE q == a \div n
           r == a % n
<1>1. a = n * q + r /\ q \in Nat /\ r \in 0 .. n - 1
  BY DivMod
<1>2. k % n \in 0 .. n - 1
  BY DivMod
<1> HIDE DEF q, r
<1>3. CASE r + (k - a) < n
  <2>1. k = n * q + (r + (k - a)) /\ r + (k - a) \in 0 .. n - 1
    BY <1>1, <1>3
  <2>2. (n * q + (r + (k - a))) % n = r + (k - a)
    BY <2>1, <1>1, DivModUnique
  <2> QED BY <1>1, <1>2, <1>3, <2>1, <2>2 DEF r, Wrapped
<1>4. CASE ~(r + (k - a) < n)
  <2>1. n * (q + 1) = n * q + n
    BY <1>1
  <2>2. k = n * (q + 1) + (r + (k - a) - n) /\ r + (k - a) - n \in 0 .. n - 1 /\ q + 1 \in Nat
    BY <1>1, <1>4, <2>1
  <2>3. (n * (q + 1) + (r + (k - a) - n)) % n = r + (k - a) - n
    BY <2>2, DivModUnique
  <2>4. k % n = r + (k - a) - n
    BY <2>2, <2>3
  <2>5. k % n = Wrapped(r + (k - a), n)
    BY <1>1, <1>4, <2>4 DEF Wrapped
  <2> QED BY <1>1, <1>2, <2>5 DEF r
<1> QED BY <1>3, <1>4

(* The distance from the read pointer is the same in the ring.             *)
Distance(j, a, n) == ((j - (a % n)) + n) % n

(* How far place j is ahead of the place of the a-th element.              *)
LEMMA RingDistance ==
    ASSUME NEW n \in Nat \ {0}, NEW a \in Nat, NEW j \in 0 .. n - 1
    PROVE  /\ Distance(j, a, n) \in 0 .. n - 1
           /\ (a + Distance(j, a, n)) % n = j
           /\ \A k \in a .. a + n - 1 : k % n = j => Distance(j, a, n) = k - a
<1>1. PICK r : r = a % n
  OBVIOUS
<1>2. r \in 0 .. n - 1
  BY <1>1, DivMod
<1>3. PICK d : d = ((j - r) + n) % n
  OBVIOUS
<1>d. d = Distance(j, a, n)
  BY <1>1, <1>3 DEF Distance
<1>4. d = IF j >= r THEN j - r ELSE j - r + n
  <2>1. CASE j >= r
    <3>1. (n * 1 + (j - r)) % n = j - r
      BY <1>2, <2>1, DivModUnique
    <3>2. j - r + n = n * 1 + (j - r)
      BY <1>2
    <3> QED BY <1>3, <2>1, <3>1, <3>2
  <2>2. CASE ~(j >= r)
    <3>1. (n * 0 + (j - r + n)) % n = j - r + n
      BY <1>2, <2>2, DivModUnique
    <3>2. j - r + n = n * 0 + (j - r + n)
      BY <1>2
    <3> QED BY <1>3, <2>2, <3>1, <3>2
  <2> QED BY <2>1, <2>2
<1>5. d \in 0 .. n - 1
  BY <1>2, <1>4
<1>6. (a + d) % n = j
  <2>1. (a + d) % n = Wrapped(r + d, n)
    <3>1. a + d \in Nat /\ a <= a + d /\ a + d < a + n /\ (a + d) - a = d
      BY <1>5
    <3>2. (a + d) % n = Wrapped((a % n) + ((a + d) - a), n)
      BY <3>1, RingPlace, Zenon
    <3> QED BY <1>1, <3>1, <3>2
  <2> QED BY <2>1, <1>2, <1>4, <1>5 DEF Wrapped
<1>7. ASSUME NEW k \in a .. a + n - 1, k % n = j PROVE d = k - a
  <2>1. k \in Nat /\ a <= k /\ k < a + n
    OBVIOUS
  <2>2. j = Wrapped(r + (k - a), n)
    BY <1>1, <1>7, <2>1, RingPlace, Zenon
  <2> QED BY <1>2, <1>4, <2>1, <2>2 DEF Wrapped
<1> QED BY <1>d, <1>5, <1>6, <1>7, Zenon

(* A load finds exactly the positions that are still in the ring.          *)
LEMMA LoadFinds ==
    ASSUME NEW b, NEW i \in BankIds, NEW n \in Nat, BankOK(b, i, n), NEW k \in Nat
    PROVE  BankLoad(b, k) = IF k \in n - b.occ .. n - 1 THEN NumBanks * k + i ELSE NoEntry
<1>1. PICK D \in Nat \ {0} : D = Depth
  BY KvAssumption
<1>2. PICK o \in 0 .. D : o = b.occ
  BY <1>1 DEF BankOK, Bank
<1>3. PICK a \in Nat : a = n - o
  BY <1>1, <1>2 DEF BankOK
<1>4. PICK j : j = k % D
  OBVIOUS
<1>5. j \in 0 .. D - 1
  BY <1>1, <1>4, DivMod
<1>6. PICK d : d = Distance(j, a, D)
  OBVIOUS
<1>7. /\ d \in 0 .. D - 1 /\ (a + d) % D = j
      /\ \A m \in a .. a + D - 1 : m % D = j => d = m - a
  BY <1>5, <1>6, RingDistance, ZenonT(30)
<1>8. BankLoad(b, k) = IF o = 0 THEN NoEntry
                       ELSE IF d >= o \/ b.seq[j] # k THEN NoEntry ELSE b.entries[j]
  BY <1>1, <1>2, <1>3, <1>4, <1>6 DEF BankLoad, BankOK, Distance
<1>9. \A m \in a .. n - 1 : b.seq[m % D] = m /\ b.entries[m % D] = NumBanks * m + i
  BY <1>1, <1>2, <1>3 DEF BankOK
<1>10. CASE k \in a .. n - 1
  <2>1. k \in a .. a + D - 1
    BY <1>1, <1>2, <1>3, <1>10
  <2>2. d = k - a
    BY <1>4, <1>7, <2>1
  <2>3. d < o /\ o # 0
    BY <1>2, <1>3, <1>10, <2>2
  <2>4. b.seq[j] = k /\ b.entries[j] = NumBanks * k + i
    BY <1>4, <1>9, <1>10
  <2> QED BY <1>2, <1>3, <1>7, <1>8, <1>10, <2>3, <2>4
<1>11. CASE k \notin a .. n - 1 /\ d < o
  <2>1. a + d \in a .. n - 1
    BY <1>2, <1>3, <1>7, <1>11
  <2>2. b.seq[j] = a + d
    BY <1>7, <1>9, <2>1
  <2> QED BY <1>2, <1>3, <1>8, <1>11, <2>1, <2>2
<1>12. CASE k \notin a .. n - 1 /\ ~(d < o)
  BY <1>2, <1>3, <1>7, <1>8, <1>12
<1> QED BY <1>10, <1>11, <1>12

(* A bank that is not full takes the next position it is dealt: it is      *)
(* then the newest in the ring (KVCacheBank.Store).                        *)
LEMMA StoreKeeps ==
    ASSUME NEW b, NEW i \in BankIds, NEW n \in Nat, BankOK(b, i, n), ~BankFull(b)
    PROVE  /\ BankOK(BankStore(b, NumBanks * n + i, n), i, n + 1)
           /\ BankStore(b, NumBanks * n + i, n).occ = b.occ + 1
<1>1. PICK D \in Nat \ {0} : D = Depth
  BY KvAssumption
<1>2. PICK o \in 0 .. D : o = b.occ
  BY <1>1 DEF BankOK, Bank
<1>3. PICK a \in Nat : a = n - o
  BY <1>1, <1>2 DEF BankOK
<1>4. PICK w : w = n % D
  OBVIOUS
<1>5. w \in 0 .. D - 1 /\ o < D /\ a <= n /\ n < a + D
  <2>1. n % D \in 0 .. D - 1
    BY DivMod
  <2> QED BY <1>1, <1>2, <1>3, <1>4, <2>1 DEF BankFull
<1>6. NumBanks * n + i \in Int
  BY DEF NumBanks, BankIds
<1>7. PICK c : c = BankStore(b, NumBanks * n + i, n)
  OBVIOUS
<1>8. c = [b EXCEPT !.entries[b.wr] = NumBanks * n + i, !.seq[b.wr] = n,
                    !.wr = (b.wr + 1) % Depth, !.occ = b.occ + 1]
  BY <1>7 DEF BankStore
<1>9. b.wr = w /\ b \in Bank
  BY <1>1, <1>4 DEF BankOK
<1>10. /\ c.entries = [b.entries EXCEPT ![w] = NumBanks * n + i]
       /\ c.seq = [b.seq EXCEPT ![w] = n]
       /\ c.wr = (w + 1) % D /\ c.occ = o + 1 /\ c.rd = b.rd
       /\ c = [entries |-> c.entries, seq |-> c.seq, wr |-> c.wr, rd |-> c.rd, occ |-> c.occ]
  BY <1>1, <1>2, <1>8, <1>9 DEF Bank
<1>11. (w + 1) % D = (n + 1) % D /\ (n + 1) % D \in 0 .. D - 1
  <2>1. (w + 1) % D = Wrapped(w + 1, D)
    <3>1. 1 \in 0 .. D
      BY <1>1
    <3> QED BY <1>5, <3>1, Wrap, Zenon
  <2>2. CASE D = 1
    <3>1. \A x \in Nat : x % D = 0
      BY <2>2, DivMod
    <3> QED BY <1>5, <2>2, <3>1
  <2>3. CASE D > 1
    <3>1. n \in Nat /\ n + 1 \in Nat /\ n <= n + 1 /\ n + 1 < n + D /\ (n + 1) - n = 1
      BY <2>3
    <3>2. /\ (n + 1) % D \in 0 .. D - 1
          /\ (n + 1) % D = Wrapped((n % D) + ((n + 1) - n), D)
      BY <3>1, RingPlace, Zenon
    <3> QED BY <1>4, <2>1, <3>1, <3>2
  <2> QED BY <2>2, <2>3
<1>12. c \in Bank
  <2>1. c.entries \in [Places -> Int] /\ c.seq \in [Places -> Int] /\ c.rd \in Places
    BY <1>6, <1>9, <1>10 DEF Bank
  <2>2. c.wr \in Places /\ c.occ \in 0 .. Depth
    BY <1>1, <1>5, <1>10, <1>11 DEF Places
  <2> QED BY <1>10, <2>1, <2>2 DEF Bank
<1>13. ASSUME NEW k \in a .. n
       PROVE  c.seq[k % D] = k /\ c.entries[k % D] = NumBanks * k + i
  <2>1. k \in Nat /\ k % D \in 0 .. D - 1
    <3>1. k \in Nat
      OBVIOUS
    <3> QED BY <3>1, DivMod
  <2>2. b.seq \in [0 .. D - 1 -> Int] /\ b.entries \in [0 .. D - 1 -> Int]
    BY <1>1, <1>9 DEF Bank, Places
  <2>3. CASE k = n
    BY <1>4, <1>5, <1>10, <2>2, <2>3
  <2>4. CASE k # n
    <3>1. k % D # w
      <4>1. PICK r : r = a % D
        OBVIOUS
      <4>2. r \in 0 .. D - 1
        BY <4>1, DivMod
      <4>3. a <= k /\ k < a + D /\ a <= n /\ n < a + D
        BY <1>5
      <4>4. k % D = Wrapped(r + (k - a), D)
        BY <2>1, <4>1, <4>3, RingPlace, Zenon
      <4>5. w = Wrapped(r + (n - a), D)
        BY <1>4, <4>1, <4>3, RingPlace, Zenon
      <4> QED BY <1>5, <2>4, <4>2, <4>3, <4>4, <4>5 DEF Wrapped
    <3>2. c.seq[k % D] = b.seq[k % D] /\ c.entries[k % D] = b.entries[k % D]
      BY <1>10, <2>1, <2>2, <3>1
    <3>3. k \in n - b.occ .. n - 1
      BY <1>2, <1>3, <2>4
    <3> QED BY <1>1, <3>2, <3>3 DEF BankOK
  <2> QED BY <2>3, <2>4
<1>14. (n + 1) - (o + 1) = a /\ (n + 1) - 1 = n /\ o + 1 <= n + 1
  BY <1>3
<1>15. b.rd = a % D
  BY <1>1, <1>2, <1>3 DEF BankOK
<1>16. \A k \in (n + 1) - c.occ .. (n + 1) - 1 :
          c.seq[k % Depth] = k /\ c.entries[k % Depth] = NumBanks * k + i
  BY <1>1, <1>10, <1>13, <1>14
<1>17. c.occ <= n + 1 /\ c.wr = (n + 1) % Depth /\ c.rd = ((n + 1) - c.occ) % Depth
  BY <1>1, <1>10, <1>11, <1>14, <1>15
<1>18. BankOK(c, i, n + 1)
  BY <1>12, <1>16, <1>17 DEF BankOK
<1> QED BY <1>2, <1>7, <1>10, <1>18

(* A bank that is not empty gives up its oldest position and no other      *)
(* (KVCacheBank.Evict, PeekOldest).                                        *)
LEMMA EvictKeeps ==
    ASSUME NEW b, NEW i \in BankIds, NEW n \in Nat, BankOK(b, i, n), b.occ # 0
    PROVE  BankOK(BankEvict(b), i, n) /\ BankEvict(b).occ = b.occ - 1
<1>1. PICK D \in Nat \ {0} : D = Depth
  BY KvAssumption
<1>2. PICK o \in 1 .. D : o = b.occ
  BY <1>1 DEF BankOK, Bank
<1>3. PICK a \in Nat : a = n - o
  BY <1>1, <1>2 DEF BankOK
<1>4. PICK r : r = a % D
  OBVIOUS
<1>5. r \in 0 .. D - 1
  BY <1>1, <1>4, DivMod
<1>6. PICK c : c = BankEvict(b)
  OBVIOUS
<1>7. c = [b EXCEPT !.entries[b.rd] = NoEntry, !.rd = (b.rd + 1) % Depth, !.occ = b.occ - 1]
  BY <1>2, <1>6 DEF BankEvict
<1>8. b.rd = r /\ b \in Bank
  BY <1>1, <1>2, <1>3, <1>4 DEF BankOK
<1>9. /\ c.entries = [b.entries EXCEPT ![r] = NoEntry] /\ c.seq = b.seq
      /\ c.wr = b.wr /\ c.occ = o - 1 /\ c.rd = (r + 1) % D
      /\ c = [entries |-> c.entries, seq |-> c.seq, wr |-> c.wr, rd |-> c.rd, occ |-> c.occ]
  BY <1>1, <1>2, <1>7, <1>8 DEF Bank
<1>10. (r + 1) % D = (a + 1) % D /\ (a + 1) % D \in 0 .. D - 1
  <2>1. (r + 1) % D = Wrapped(r + 1, D)
    <3>1. 1 \in 0 .. D
      BY <1>1
    <3> QED BY <1>5, <3>1, Wrap, Zenon
  <2>2. CASE D = 1
    <3>1. \A x \in Nat : x % D = 0
      BY <2>2, DivMod
    <3> QED BY <1>5, <2>2, <3>1
  <2>3. CASE D > 1
    <3>1. a + 1 \in Nat /\ a <= a + 1 /\ a + 1 < a + D /\ (a + 1) - a = 1
      BY <2>3
    <3>2. /\ (a + 1) % D \in 0 .. D - 1
          /\ (a + 1) % D = Wrapped((a % D) + ((a + 1) - a), D)
      BY <3>1, RingPlace, Zenon
    <3> QED BY <1>4, <2>1, <3>1, <3>2
  <2> QED BY <2>2, <2>3
<1>11. c \in Bank
  <2>1. c.entries \in [Places -> Int] /\ c.seq \in [Places -> Int] /\ c.wr \in Places
    BY <1>8, <1>9 DEF Bank, NoEntry
  <2>2. c.rd \in Places /\ c.occ \in 0 .. Depth
    BY <1>1, <1>2, <1>9, <1>10 DEF Places
  <2> QED BY <1>9, <2>1, <2>2 DEF Bank
<1>12. ASSUME NEW k \in a + 1 .. n - 1
       PROVE  c.seq[k % D] = k /\ c.entries[k % D] = NumBanks * k + i
  <2>1. k \in Nat /\ a <= k /\ k < a + D
    BY <1>2, <1>3
  <2>2. k % D \in 0 .. D - 1 /\ k % D # r
    <3>1. k % D \in 0 .. D - 1
      BY <2>1, DivMod
    <3>2. k % D = Wrapped(r + (k - a), D)
      BY <1>4, <2>1, RingPlace, Zenon
    <3> QED BY <1>5, <2>1, <3>1, <3>2 DEF Wrapped
  <2>3. b.entries \in [0 .. D - 1 -> Int]
    BY <1>1, <1>8 DEF Bank, Places
  <2>4. k \in n - b.occ .. n - 1
    BY <1>2, <1>3
  <2>5. b.seq[k % D] = k /\ b.entries[k % D] = NumBanks * k + i
    BY <1>1, <2>4 DEF BankOK
  <2> QED BY <1>9, <2>2, <2>3, <2>5
<1>13. n - (o - 1) = a + 1 /\ o - 1 <= n
  BY <1>2, <1>3
<1>14. c.occ <= n /\ c.wr = n % Depth /\ c.rd = (n - c.occ) % Depth
  BY <1>1, <1>9, <1>10, <1>13 DEF BankOK
<1>15. \A k \in n - c.occ .. n - 1 :
          c.seq[k % Depth] = k /\ c.entries[k % Depth] = NumBanks * k + i
  BY <1>1, <1>9, <1>12, <1>13
<1>16. BankOK(c, i, n)
  BY <1>11, <1>14, <1>15 DEF BankOK
<1> QED BY <1>2, <1>6, <1>9, <1>16

(* The bank with the most entries is one of the four.                      *)
LEMMA FullestIsBank ==
    ASSUME NEW banks \in [BankIds -> Bank]
    PROVE  FullestBank(banks) \in BankIds
<1> DEFINE P(i) == /\ \A j \in BankIds : banks[j].occ <= banks[i].occ
                   /\ \A j \in 0 .. i - 1 : banks[j].occ < banks[i].occ
<1>1. PICK o \in [BankIds -> Nat] : \A j \in BankIds : o[j] = banks[j].occ
  <2>1. \A j \in BankIds : banks[j].occ \in Nat
    BY KvAssumption DEF Bank
  <2>2. [j \in BankIds |-> banks[j].occ] \in [BankIds -> Nat]
    BY <2>1
  <2> QED BY <2>2
<1>2. \A j \in BankIds : j = 0 \/ j = 1 \/ j = 2 \/ j = 3
  BY DEF BankIds, NumBanks
<1>3. 0 \in BankIds /\ 1 \in BankIds /\ 2 \in BankIds /\ 3 \in BankIds
  BY DEF BankIds, NumBanks
<1>4. PICK a, b, c, d \in Nat : a = o[0] /\ b = o[1] /\ c = o[2] /\ d = o[3]
  BY <1>3
<1>5. CASE a >= b /\ a >= c /\ a >= d
  <2>1. P(0)
    BY <1>1, <1>2, <1>3, <1>4, <1>5
  <2> QED BY <1>3, <2>1 DEF FullestBank
<1>6. CASE b > a /\ b >= c /\ b >= d
  <2>1. \A j \in 0 .. 1 - 1 : j = 0
    OBVIOUS
  <2>2. P(1)
    BY <1>1, <1>2, <1>3, <1>4, <1>6, <2>1
  <2> QED BY <1>3, <2>2 DEF FullestBank
<1>7. CASE c > a /\ c > b /\ c >= d
  <2>1. \A j \in 0 .. 2 - 1 : j = 0 \/ j = 1
    OBVIOUS
  <2>2. P(2)
    BY <1>1, <1>2, <1>3, <1>4, <1>7, <2>1
  <2> QED BY <1>3, <2>2 DEF FullestBank
<1>8. CASE d > a /\ d > b /\ d > c
  <2>1. \A j \in 0 .. 3 - 1 : j = 0 \/ j = 1 \/ j = 2
    OBVIOUS
  <2>2. P(3)
    BY <1>1, <1>2, <1>3, <1>4, <1>8, <2>1
  <2> QED BY <1>3, <2>2 DEF FullestBank
<1>9. \/ a >= b /\ a >= c /\ a >= d
      \/ b > a /\ b >= c /\ b >= d
      \/ c > a /\ c > b /\ c >= d
      \/ d > a /\ d > b /\ d > c
  OBVIOUS
<1> QED BY <1>5, <1>6, <1>7, <1>8, <1>9

(* Positions are dealt to the four banks in turn.                          *)
DealtTo(n, i) == (n + NumBanks - 1 - i) \div NumBanks

(* A position's bank and its place in that bank's order say which one it   *)
(* is.                                                                     *)
LEMMA Split ==
    ASSUME NEW pos \in Nat
    PROVE  /\ BankOf(pos) \in BankIds /\ LocalPos(pos) \in Nat
           /\ pos = NumBanks * LocalPos(pos) + BankOf(pos)
  BY DEF BankOf, LocalPos, BankIds, NumBanks

(* The k-th position dealt to bank i is position 4k + i.                   *)
LEMMA Joined ==
    ASSUME NEW i \in BankIds, NEW k \in Nat
    PROVE  /\ NumBanks * k + i \in Nat
           /\ BankOf(NumBanks * k + i) = i /\ LocalPos(NumBanks * k + i) = k
  BY DEF BankOf, LocalPos, BankIds, NumBanks

(* Of the first n positions bank i was dealt those below n; the n-th one   *)
(* is dealt to its own bank only.                                          *)
LEMMA Dealing ==
    ASSUME NEW n \in Nat, NEW i \in BankIds
    PROVE  /\ DealtTo(n, i) \in Nat
           /\ \A k \in Nat : NumBanks * k + i < n <=> k < DealtTo(n, i)
           /\ i = BankOf(n) => DealtTo(n, i) = LocalPos(n) /\ DealtTo(n + 1, i) = LocalPos(n) + 1
           /\ i # BankOf(n) => DealtTo(n + 1, i) = DealtTo(n, i)
<1>1. DealtTo(n, i) \in Nat
  BY DEF DealtTo, BankIds, NumBanks
<1>2. \A k \in Nat : NumBanks * k + i < n <=> k < DealtTo(n, i)
  BY DEF DealtTo, BankIds, NumBanks
<1>3. i = BankOf(n) => DealtTo(n, i) = LocalPos(n) /\ DealtTo(n + 1, i) = LocalPos(n) + 1
  BY DEF DealtTo, BankIds, NumBanks, BankOf, LocalPos
<1>4. i # BankOf(n) => DealtTo(n + 1, i) = DealtTo(n, i)
  BY DEF DealtTo, BankIds, NumBanks, BankOf
<1> QED BY <1>1, <1>2, <1>3, <1>4

-----------------------------------------------------------------------------
(* The NVMe region: rooms of EntryBlocks blocks, written in turn.          *)
Room == LBAEnd \div EntryBlocks
RoomOf(b) == b \div EntryBlocks

(* Everything that was spilled has been written, nothing twice, and only   *)
(* whole entries, while there is room for all of it.                       *)
RegionOK(w, lba, blocks, spilled) ==
  /\ w \in Nat /\ lba = EntryBlocks * (w % Room)
  /\ DOMAIN blocks = {b \in Nat : RoomOf(b) < w /\ RoomOf(b) < Room}
  /\ \A b \in DOMAIN blocks : blocks[b] \in spilled
  /\ \A b, c \in DOMAIN blocks : blocks[b] = blocks[c] <=> RoomOf(b) = RoomOf(c)
  /\ w <= Room => \A x \in spilled : \E b \in DOMAIN blocks : blocks[b] = x

(* The region is a whole number of rooms, and block b is in room b \div    *)
(* EntryBlocks.                                                            *)
LEMMA RoomFacts ==
    /\ Room \in Nat \ {0} /\ LBAEnd = EntryBlocks * Room
    /\ \A b \in Nat : RoomOf(b) \in Nat
    /\ \A w \in Nat, b \in Nat : b \in EntryBlocks * w .. EntryBlocks * w + EntryBlocks - 1
                                   <=> RoomOf(b) = w
<1>1. PICK e \in Nat \ {0} : e = EntryBlocks
  BY KvAssumption
<1>2. PICK z \in Nat \ {0} : z = LBAEnd
  BY KvAssumption
<1>3. z % e = 0
  BY <1>1, <1>2, KvAssumption
<1>4. PICK q : q = z \div e
  OBVIOUS
<1>5. q \in Nat /\ z = e * q
  <2>1. z = e * (z \div e) + (z % e) /\ z \div e \in Nat
    BY DivMod
  <2> QED BY <1>3, <1>4, <2>1
<1>6. q # 0
  BY <1>5
<1>7. ASSUME NEW b \in Nat PROVE b \div e \in Nat
  BY DivMod
<1>8. ASSUME NEW w \in Nat, NEW b \in Nat
      PROVE  b \in e * w .. e * w + e - 1 <=> b \div e = w
  <2>1. e * w \in Nat
    OBVIOUS
  <2>2. ASSUME b \in e * w .. e * w + e - 1 PROVE b \div e = w
    <3>1. PICK y \in Nat : y = e * w
      BY <2>1
    <3>2. b - y \in 0 .. e - 1 /\ b = y + (b - y)
      BY <2>2, <3>1
    <3>3. (e * w + (b - y)) \div e = w
      BY <3>2, DivModUnique
    <3> QED BY <3>1, <3>2, <3>3
  <2>3. ASSUME b \div e = w PROVE b \in e * w .. e * w + e - 1
    <3>1. b = e * (b \div e) + (b % e) /\ b % e \in 0 .. e - 1
      BY DivMod
    <3> QED BY <2>1, <2>3, <3>1
  <2> QED BY <2>2, <2>3
<1> QED BY <1>1, <1>2, <1>4, <1>5, <1>6, <1>7, <1>8 DEF Room, RoomOf

Overwritten(blocks, here, x) ==
  [b \in DOMAIN blocks \cup here |-> IF b \in here THEN x ELSE blocks[b]]

(* Writing one more spilled entry at the next room keeps the region in     *)
(* order: no room is half written, and nothing is lost before the region   *)
(* has gone round (NVMeDev.WriteBlocks, nextLBA).                          *)
LEMMA RegionWrite ==
    ASSUME NEW w, NEW lba, NEW blocks, NEW spilled, RegionOK(w, lba, blocks, spilled),
           NEW x, x \notin spilled
    PROVE  RegionOK(w + 1, NextLBA(lba),
                    Overwritten(blocks, lba .. lba + EntryBlocks - 1, x), spilled \cup {x})
<1> DEFINE here == lba .. lba + EntryBlocks - 1
           new  == [b \in DOMAIN blocks \cup here |-> IF b \in here THEN x ELSE blocks[b]]
<1> SUFFICES RegionOK(w + 1, NextLBA(lba), new, spilled \cup {x})
  BY DEF Overwritten
<1>1. PICK e \in Nat \ {0} : e = EntryBlocks
  BY KvAssumption
<1>2. PICK R \in Nat \ {0} : R = Room
  BY RoomFacts
<1>3. PICK u : u = w % R
  OBVIOUS
<1>4. w \in Nat /\ u \in 0 .. R - 1 /\ lba = e * u
  <2>1. w \in Nat
    BY DEF RegionOK
  <2>2. w % R \in 0 .. R - 1
    BY <2>1, DivMod
  <2> QED BY <1>1, <1>2, <1>3, <2>1, <2>2 DEF RegionOK
<1>5. w < R => u = w
  <2>1. CASE w < R
    <3>1. w = R * 0 + w /\ w \in 0 .. R - 1
      BY <1>4, <2>1
    <3>2. (R * 0 + w) % R = w
      BY <3>1, DivModUnique
    <3> QED BY <1>3, <3>1, <3>2
  <2> QED BY <2>1
<1>6. (w + 1) % R = IF u + 1 = R THEN 0 ELSE u + 1
  <2>1. w = R * (w \div R) + u /\ w \div R \in Nat
    BY <1>3, <1>4, DivMod
  <2>2. PICK q \in Nat : q = w \div R
    BY <2>1
  <2>3. CASE u + 1 = R
    <3>1. R * (q + 1) = R * q + R
      OBVIOUS
    <3>2. w + 1 = R * (q + 1) + 0 /\ q + 1 \in Nat /\ 0 \in 0 .. R - 1
      <4>1. w = R * q + u /\ R * q \in Nat
        BY <2>1, <2>2
      <4>2. w + 1 = R * q + R
        BY <2>3, <4>1, <1>4
      <4> QED BY <3>1, <4>1, <4>2
    <3>3. (R * (q + 1) + 0) % R = 0
      BY <3>2, DivModUnique
    <3> QED BY <2>3, <3>2, <3>3
  <2>4. CASE u + 1 # R
    <3>1. w + 1 = R * q + (u + 1) /\ u + 1 \in 0 .. R - 1
      BY <1>4, <2>1, <2>2, <2>4
    <3>2. (R * q + (u + 1)) % R = u + 1
      BY <3>1, DivModUnique
    <3> QED BY <2>4, <3>1, <3>2
  <2> QED BY <2>3, <2>4
<1>7. NextLBA(lba) = e * ((w + 1) % R)
  <2>1. LBAEnd = e * R
    BY <1>1, <1>2, RoomFacts
  <2>2. e * (u + 1) = e * u + e
    BY <1>4
  <2>3. CASE u + 1 = R
    <3>1. lba + e >= LBAEnd
      BY <1>4, <2>1, <2>2, <2>3
    <3> QED BY <1>1, <1>6, <2>3, <3>1 DEF NextLBA
  <2>4. CASE u + 1 # R
    <3>1. PICK k \in Nat : R = u + 1 + (k + 1)
      <4>1. R - u - 2 \in Nat /\ R = u + 1 + ((R - u - 2) + 1)
        BY <1>4, <2>4
      <4> QED BY <4>1
    <3>2. e * R = e * (u + 1) + e * k + e /\ e * k \in Nat /\ e * (u + 1) \in Nat
      BY <1>4, <3>1
    <3>3. ~(lba + e >= LBAEnd)
      BY <1>4, <2>1, <2>2, <3>2
    <3> QED BY <1>1, <1>4, <1>6, <2>2, <2>4, <3>3 DEF NextLBA
  <2> QED BY <2>3, <2>4
<1>8. \A b : b \in here <=> b \in Nat /\ RoomOf(b) = u
  <2>1. e * u \in Nat
    BY <1>4
  <2>2. \A b \in here : b \in Nat
    BY <1>1, <1>4, <2>1
  <2>3. \A b \in Nat : b \in e * u .. e * u + e - 1 <=> RoomOf(b) = u
    BY <1>1, <1>4, RoomFacts
  <2> QED BY <1>1, <1>4, <2>2, <2>3
<1> HIDE DEF here
<1>9. /\ DOMAIN new = DOMAIN blocks \cup here
      /\ \A b \in here : new[b] = x
      /\ \A b \in DOMAIN blocks : b \notin here => new[b] = blocks[b]
  OBVIOUS
<1> HIDE DEF new
<1>10. /\ DOMAIN blocks = {b \in Nat : RoomOf(b) < w /\ RoomOf(b) < R}
       /\ \A b \in DOMAIN blocks : blocks[b] \in spilled
       /\ \A b, c \in DOMAIN blocks : blocks[b] = blocks[c] <=> RoomOf(b) = RoomOf(c)
       /\ w <= R => \A y \in spilled : \E b \in DOMAIN blocks : blocks[b] = y
  BY <1>2 DEF RegionOK
<1>11. DOMAIN new = {b \in Nat : RoomOf(b) < w + 1 /\ RoomOf(b) < R}
  <2>1. \A b \in Nat : RoomOf(b) \in Nat
    BY RoomFacts
  <2> QED BY <1>4, <1>5, <1>8, <1>9, <1>10, <2>1
<1>12. \A b \in DOMAIN new : new[b] \in spilled \cup {x}
  BY <1>9, <1>10
<1>13. ASSUME NEW b \in DOMAIN new, NEW c \in DOMAIN new
       PROVE  new[b] = new[c] <=> RoomOf(b) = RoomOf(c)
  <2>1. b \in Nat /\ c \in Nat
    BY <1>11
  <2>2. CASE b \in here /\ c \in here
    BY <1>8, <1>9, <2>2
  <2>3. CASE b \in here /\ c \notin here
    <3>1. new[b] = x /\ new[c] \in spilled
      BY <1>9, <1>10, <2>3
    <3> QED BY <1>8, <2>1, <2>3, <3>1
  <2>4. CASE b \notin here /\ c \in here
    <3>1. new[c] = x /\ new[b] \in spilled
      BY <1>9, <1>10, <2>4
    <3> QED BY <1>8, <2>1, <2>4, <3>1
  <2>5. CASE b \notin here /\ c \notin here
    BY <1>9, <1>10, <2>5
  <2> QED BY <2>2, <2>3, <2>4, <2>5
<1>14. ASSUME w + 1 <= R, NEW y \in spilled \cup {x}
       PROVE  \E b \in DOMAIN new : new[b] = y
  <2>1. u = w /\ w <= R
    BY <1>4, <1>5, <1>14
  <2>2. CASE y \in spilled
    <3>1. PICK b \in DOMAIN blocks : blocks[b] = y
      BY <1>10, <2>1, <2>2
    <3>2. RoomOf(b) < w /\ RoomOf(b) \in Nat
      BY <1>10, RoomFacts
    <3>3. b \notin here
      BY <1>4, <1>8, <2>1, <3>2
    <3> QED BY <1>9, <3>1, <3>3
  <2>3. CASE y = x
    <3>1. lba \in here
      <4>1. e * u \in Nat
        BY <1>4
      <4> QED BY <1>1, <1>4, <4>1 DEF here
    <3> QED BY <1>9, <2>3, <3>1
  <2> QED BY <2>2, <2>3
<1>15. w + 1 \in Nat /\ NextLBA(lba) = EntryBlocks * ((w + 1) % Room)
  BY <1>1, <1>2, <1>4, <1>7
<1> QED BY <1>2, <1>11, <1>12, <1>13, <1>14, <1>15 DEF RegionOK

(* What the region holds once it has gone round.                           *)
Whole(blocks, w) ==
  /\ DOMAIN blocks \subseteq 0 .. LBAEnd - 1
  /\ \A b \in DOMAIN blocks : blocks[b] = blocks[b - (b % EntryBlocks)]
  /\ w >= Room => Cardinality({blocks[b] : b \in DOMAIN blocks}) = Room

LEMMA RegionWhole ==
    ASSUME NEW w, NEW lba, NEW blocks, NEW spilled, RegionOK(w, lba, blocks, spilled)
    PROVE  Whole(blocks, w)
<1>1. PICK e \in Nat \ {0} : e = EntryBlocks
  BY KvAssumption
<1>2. PICK R \in Nat \ {0} : R = Room
  BY RoomFacts
<1>3. LBAEnd = e * R
  BY <1>1, <1>2, RoomFacts
<1>4. /\ DOMAIN blocks = {b \in Nat : RoomOf(b) < w /\ RoomOf(b) < R}
      /\ \A b, c \in DOMAIN blocks : blocks[b] = blocks[c] <=> RoomOf(b) = RoomOf(c)
      /\ w \in Nat
  BY <1>2 DEF RegionOK
<1>5. ASSUME NEW b \in DOMAIN blocks
      PROVE  /\ b \in 0 .. LBAEnd - 1
             /\ blocks[b] = blocks[b - (b % EntryBlocks)]
  <2>1. PICK q \in Nat : q = RoomOf(b)
    BY <1>4, RoomFacts
  <2>2. b \in Nat /\ q < R /\ b = e * q + (b % e) /\ b % e \in 0 .. e - 1
    <3>1. b \in Nat /\ q < R
      BY <1>4, <2>1
    <3> QED BY <1>1, <2>1, <3>1, DivMod DEF RoomOf
  <2>3. PICK k \in Nat : R = q + 1 + k
    <3>1. R - q - 1 \in Nat /\ R = q + 1 + (R - q - 1)
      BY <2>2
    <3> QED BY <3>1
  <2>4. e * R = e * q + e + e * k /\ e * k \in Nat /\ e * q \in Nat
    BY <2>3
  <2>5. b - (b % e) = e * q /\ e * q \in Nat
    BY <2>2, <2>4
  <2>6. RoomOf(e * q) = q
    BY <1>1, <2>4, RoomFacts
  <2>7. e * q \in DOMAIN blocks
    BY <1>4, <2>1, <2>5, <2>6
  <2>8. blocks[b] = blocks[e * q]
    BY <1>4, <2>1, <2>6, <2>7
  <2>9. b \in 0 .. LBAEnd - 1
    <3>1. b < e * R /\ e * R \in Nat
      BY <2>2, <2>4
    <3> QED BY <1>3, <2>2, <3>1
  <2>10. blocks[b] = blocks[b - (b % EntryBlocks)]
    BY <1>1, <2>5, <2>8
  <2> QED BY <2>9, <2>10
<1>6. ASSUME w >= Room PROVE Cardinality({blocks[b] : b \in DOMAIN blocks}) = Room
  <2> DEFINE T == {blocks[b] : b \in DOMAIN blocks}
             S == 0 .. R - 1
             f == [j \in S |-> blocks[e * j]]
  <2>1. ASSUME NEW j \in S PROVE e * j \in DOMAIN blocks /\ RoomOf(e * j) = j
    <3>1. e * j \in Nat /\ j \in Nat /\ j < R
      OBVIOUS
    <3>2. RoomOf(e * j) = j
      BY <1>1, <3>1, RoomFacts
    <3> QED BY <1>2, <1>4, <1>6, <3>1, <3>2
  <2>2. f \in [S -> T]
    BY <2>1
  <2>3. \A i, j \in S : f[i] = f[j] => i = j
    BY <1>4, <2>1
  <2>4. ASSUME NEW t \in T PROVE \E j \in S : f[j] = t
    <3>1. PICK b \in DOMAIN blocks : t = blocks[b]
      OBVIOUS
    <3>2. RoomOf(b) \in S
      BY <1>4, RoomFacts
    <3>3. f[RoomOf(b)] = blocks[b]
      BY <1>4, <2>1, <3>2
    <3> QED BY <3>1, <3>2, <3>3
  <2>5. f \in Bijection(S, T)
    BY <2>2, <2>3, <2>4 DEF Bijection, Injection, Surjection, IsInjective
  <2>6. IsFiniteSet(S) /\ Cardinality(S) = R
    <3>1. IsFiniteSet(0 .. R - 1) /\ Cardinality(0 .. R - 1) = IF 0 > R - 1 THEN 0 ELSE (R - 1) - 0 + 1
      BY FS_Interval
    <3> QED BY <3>1
  <2>7. Cardinality(T) = Cardinality(S)
    <3>1. ExistsBijection(S, T)
      BY <2>5 DEF ExistsBijection
    <3> QED BY <2>6, <3>1, FS_Bijection
  <2> QED BY <1>2, <2>6, <2>7
<1> QED BY <1>5, <1>6 DEF Whole

-----------------------------------------------------------------------------
(* The cache under a sequential caller                                     *)

BlockMaps == UNION {[D -> KvLayerIds \X Nat] : D \in SUBSET Nat}
Banks     == [KvLayerIds -> [BankIds -> Bank]]
Stats     == [discarded : Nat, dmaToBMC : Nat, nvmeWrites : Nat, errors : Nat]

(* The states that storing and draining can make of s.                     *)
KvStates(s) ==
  [ mode : {s.mode}, banks : Banks, window : {s.window}, lba : Nat, stats : Stats,
    nvme : [present : {s.nvme.present}, ready : {s.nvme.ready}, blocks : BlockMaps] ]

(* The positions that were dealt to a bank and have left it.               *)
Spilled(banks) ==
  {x \in KvLayerIds \X Nat :
     LocalPos(x[2]) < Dealt(x[1], BankOf(x[2])) - banks[x[1]][BankOf(x[2])].occ}

BanksOK(banks) == \A l \in KvLayerIds, i \in BankIds : BankOK(banks[l][i], i, Dealt(l, i))

Persists(s) == s.mode = "nvme" /\ s.nvme.present

CacheOK(s) ==
  /\ BanksOK(s.banks)
  /\ Persists(s) => RegionOK(s.stats.nvmeWrites, s.lba, s.nvme.blocks, Spilled(s.banks))

StoredOK == stored \in [KvLayerIds -> Nat]

Reached(s) == {t \in KvStates(s) : CacheOK(t)}

(* What a bank was dealt depends on how much the caller has stored only.   *)
LEMMA DealtIs ==
    ASSUME NEW l \in KvLayerIds, NEW i \in BankIds
    PROVE  Dealt(l, i) = DealtTo(stored[l], i)
  BY DEF Dealt, DealtTo

(* Dropping the oldest position of a bank spills that position and no      *)
(* other.                                                                  *)
LEMMA EvictStep ==
    ASSUME StoredOK, NEW banks \in Banks, BanksOK(banks),
           NEW l \in KvLayerIds, NEW i \in BankIds, banks[l][i].occ # 0,
           NEW new, new = [banks EXCEPT ![l][i] = BankEvict(banks[l][i])],
           NEW e, e = PeekOldest(banks[l][i])
    PROVE  /\ new \in Banks /\ BanksOK(new)
           /\ <<l, e>> \in KvLayerIds \X Nat /\ <<l, e>> \notin Spilled(banks)
           /\ Spilled(new) = Spilled(banks) \cup {<<l, e>>}
<1>1. PICK b : b = banks[l][i]
  OBVIOUS
<1>2. PICK n \in Nat : n = Dealt(l, i)
  BY DealtIs, Dealing DEF StoredOK
<1>3. BankOK(b, i, n) /\ b \in Bank /\ b.occ # 0
  BY <1>1, <1>2 DEF BanksOK, BankOK
<1>4. PICK o \in Nat \ {0} : o = b.occ /\ o <= n
  BY <1>3, KvAssumption DEF BankOK, Bank
<1>5. PICK c : c = BankEvict(b)
  OBVIOUS
<1>6. BankOK(c, i, n) /\ c.occ = o - 1 /\ c \in Bank
  <2>1. BankOK(c, i, n) /\ c.occ = b.occ - 1
    BY <1>3, <1>5, EvictKeeps
  <2> QED BY <1>4, <2>1 DEF BankOK
<1>7. PICK k \in Nat : k = n - o
  BY <1>4
<1>8. e = NumBanks * k + i
  <2>1. e = b.entries[b.rd]
    BY <1>1, <1>3 DEF PeekOldest
  <2>2. b.rd = k % Depth
    BY <1>3, <1>4, <1>7 DEF BankOK
  <2>3. k \in n - b.occ .. n - 1
    BY <1>4, <1>7
  <2>4. b.entries[k % Depth] = NumBanks * k + i
    BY <1>3, <2>3 DEF BankOK
  <2> QED BY <2>1, <2>2, <2>4
<1>9. e \in Nat /\ BankOf(e) = i /\ LocalPos(e) = k
  BY <1>8, Joined
<1>10. /\ new \in Banks
       /\ \A m \in KvLayerIds, j \in BankIds :
            new[m][j] = IF m = l /\ j = i THEN c ELSE banks[m][j]
  BY <1>1, <1>5, <1>6 DEF Banks
<1>11. BanksOK(new)
  BY <1>2, <1>6, <1>10 DEF BanksOK
<1>12. ASSUME NEW m \in KvLayerIds, NEW pos \in Nat
       PROVE  /\ <<m, pos>> \in Spilled(banks)
                   <=> LocalPos(pos) < Dealt(m, BankOf(pos)) - banks[m][BankOf(pos)].occ
              /\ <<m, pos>> \in Spilled(new)
                   <=> LocalPos(pos) < Dealt(m, BankOf(pos)) - new[m][BankOf(pos)].occ
  <2>1. <<m, pos>> \in KvLayerIds \X Nat /\ <<m, pos>>[1] = m /\ <<m, pos>>[2] = pos
    OBVIOUS
  <2> QED BY <2>1 DEF Spilled
<1>13. <<l, e>> \notin Spilled(banks)
  <2>1. ~(k < n - o)
    BY <1>7
  <2> QED BY <1>1, <1>2, <1>4, <1>9, <1>12, <2>1
<1>14. ASSUME NEW m \in KvLayerIds, NEW pos \in Nat
       PROVE  <<m, pos>> \in Spilled(new) <=> <<m, pos>> \in Spilled(banks) \/ <<m, pos>> = <<l, e>>
  <2>1. BankOf(pos) \in BankIds /\ LocalPos(pos) \in Nat
    BY Split
  <2>2. CASE m = l /\ BankOf(pos) = i
    <3>1. <<m, pos>> \in Spilled(banks) <=> LocalPos(pos) < n - o
      BY <1>1, <1>2, <1>4, <1>12, <2>2
    <3>2. <<m, pos>> \in Spilled(new) <=> LocalPos(pos) < n - (o - 1)
      <4>1. new[m][BankOf(pos)].occ = o - 1
        BY <1>6, <1>10, <2>1, <2>2
      <4>2. Dealt(m, BankOf(pos)) = n
        BY <1>2, <2>2
      <4> QED BY <1>12, <4>1, <4>2
    <3>3. pos = e <=> LocalPos(pos) = k
      <4>1. pos = NumBanks * LocalPos(pos) + BankOf(pos)
        BY Split
      <4> QED BY <1>8, <1>9, <2>2, <4>1
    <3>4. <<m, pos>> = <<l, e>> <=> pos = e
      BY <2>2
    <3> QED BY <1>7, <2>1, <3>1, <3>2, <3>3, <3>4
  <2>3. CASE ~(m = l /\ BankOf(pos) = i)
    <3>1. new[m][BankOf(pos)] = banks[m][BankOf(pos)]
      BY <1>10, <2>1, <2>3
    <3>2. <<m, pos>> # <<l, e>>
      BY <1>9, <2>3
    <3> QED BY <1>12, <3>1, <3>2
  <2> QED BY <2>2, <2>3
<1>15. Spilled(new) = Spilled(banks) \cup {<<l, e>>}
  <2>1. Spilled(new) \subseteq KvLayerIds \X Nat /\ Spilled(banks) \subseteq KvLayerIds \X Nat
    BY DEF Spilled
  <2>2. <<l, e>> \in KvLayerIds \X Nat
    BY <1>9
  <2>3. ASSUME NEW x \in KvLayerIds \X Nat
        PROVE  x \in Spilled(new) <=> x \in Spilled(banks) \cup {<<l, e>>}
    <3>1. PICK m \in KvLayerIds, pos \in Nat : x = <<m, pos>>
      OBVIOUS
    <3> QED BY <1>14, <3>1
  <2> QED BY <2>1, <2>2, <2>3
<1> QED BY <1>9, <1>10, <1>11, <1>13, <1>15

(* One pass of the drain loop.                                             *)
LEMMA DrainKeeps ==
    ASSUME StoredOK, NEW s, ~SinkFails(s), NEW t \in Reached(s), NEW l \in KvLayerIds
    PROVE  DrainOne(t, l) \in Reached(s)
<1> SUFFICES ASSUME NeedsOffload(t.banks[l]) PROVE OffloadOne(t, l) \in Reached(s)
  BY DEF DrainOne
<1>1. t \in KvStates(s) /\ CacheOK(t)
  BY DEF Reached
<1>2. PICK banks \in Banks : banks = t.banks
  BY <1>1 DEF KvStates
<1>3. PICK i \in BankIds : i = FullestBank(banks[l])
  BY FullestIsBank DEF Banks
<1>4. banks[l][i].occ # 0
  BY <1>2, <1>3 DEF NeedsOffload
<1>5. PICK e : e = PeekOldest(banks[l][i])
  OBVIOUS
<1>6. PICK new : new = [banks EXCEPT ![l][i] = BankEvict(banks[l][i])]
  OBVIOUS
<1>7. /\ new \in Banks /\ BanksOK(new)
      /\ <<l, e>> \in KvLayerIds \X Nat /\ <<l, e>> \notin Spilled(banks)
      /\ Spilled(new) = Spilled(banks) \cup {<<l, e>>}
  BY <1>1, <1>2, <1>4, <1>5, <1>6, EvictStep DEF CacheOK
<1>8. PICK d : d = [t EXCEPT !.banks = new]
  OBVIOUS
<1>9. [t EXCEPT !.banks[l][i] = BankEvict(t.banks[l][i])] = d
  BY <1>1, <1>2, <1>6, <1>8 DEF KvStates
<1>10. OffloadOne(t, l) =
         CASE t.mode = "dma_bmc" -> [d EXCEPT !.stats.dmaToBMC = d.stats.dmaToBMC + 1]
           [] t.mode = "nvme" /\ t.nvme.present ->
                [d EXCEPT !.nvme = NvmeWrite(d.nvme, t.lba, l, e), !.lba = NextLBA(d.lba),
                          !.stats.nvmeWrites = d.stats.nvmeWrites + 1]
           [] OTHER -> [d EXCEPT !.stats.discarded = d.stats.discarded + 1]
  BY <1>2, <1>3, <1>5, <1>9 DEF OffloadOne
<1>11. /\ d \in KvStates(s) /\ d.banks = new /\ d.mode = t.mode
       /\ d.nvme = t.nvme /\ d.lba = t.lba /\ d.stats = t.stats
  BY <1>1, <1>7, <1>8 DEF KvStates
<1>12. CASE t.mode = "dma_bmc"
  <2>1. PICK r : r = [d EXCEPT !.stats.dmaToBMC = d.stats.dmaToBMC + 1]
    OBVIOUS
  <2>2. OffloadOne(t, l) = r
    BY <1>10, <1>12, <2>1
  <2>3. r \in KvStates(s) /\ r.banks = new /\ r.mode # "nvme"
    BY <1>11, <1>12, <2>1 DEF KvStates, Stats
  <2> QED BY <1>7, <2>2, <2>3 DEF Reached, CacheOK, Persists
<1>13. CASE ~Persists(t) /\ t.mode # "dma_bmc"
  <2>1. PICK r : r = [d EXCEPT !.stats.discarded = d.stats.discarded + 1]
    OBVIOUS
  <2>2. OffloadOne(t, l) = r
    BY <1>10, <1>13, <2>1 DEF Persists
  <2>3. r \in KvStates(s) /\ r.banks = new /\ r.mode = t.mode /\ r.nvme = t.nvme
    BY <1>11, <2>1 DEF KvStates, Stats
  <2> QED BY <1>7, <1>13, <2>2, <2>3 DEF Reached, CacheOK, Persists
<1>14. CASE Persists(t)
  <2>1. PICK blocks : blocks = t.nvme.blocks
    OBVIOUS
  <2>2. PICK lba \in Nat : lba = t.lba
    BY <1>1 DEF KvStates
  <2>3. PICK w \in Nat : w = t.stats.nvmeWrites
    BY <1>1 DEF KvStates, Stats
  <2>4. RegionOK(w, lba, blocks, Spilled(banks))
    BY <1>1, <1>2, <1>14, <2>1, <2>2, <2>3 DEF CacheOK
  <2>5. PICK here : here = lba .. lba + EntryBlocks - 1
    OBVIOUS
  <2>6. PICK nb : nb = Overwritten(blocks, here, <<l, e>>)
    OBVIOUS
  <2>7. RegionOK(w + 1, NextLBA(lba), nb, Spilled(banks) \cup {<<l, e>>})
    BY <1>7, <2>4, <2>5, <2>6, RegionWrite, Zenon
  <2>8. NvmeWrite(d.nvme, t.lba, l, e) = [t.nvme EXCEPT !.blocks = nb]
    BY <1>11, <2>1, <2>2, <2>5, <2>6 DEF NvmeWrite, Overwritten
  <2>9. PICK r : r = [d EXCEPT !.nvme = [t.nvme EXCEPT !.blocks = nb], !.lba = NextLBA(lba),
                               !.stats.nvmeWrites = w + 1]
    OBVIOUS
  <2>10. OffloadOne(t, l) = r
    <3>1. t.mode = "nvme" /\ t.nvme.present /\ t.mode # "dma_bmc"
      BY <1>14 DEF Persists
    <3> QED BY <1>10, <1>11, <2>2, <2>3, <2>8, <2>9, <3>1
  <2>11. blocks \in BlockMaps
    BY <1>1, <2>1 DEF KvStates
  <2>12. nb \in BlockMaps
    <3>1. PICK D \in SUBSET Nat : blocks \in [D -> KvLayerIds \X Nat]
      BY <2>11 DEF BlockMaps
    <3>2. here \in SUBSET Nat
      BY <2>2, <2>5, KvAssumption
    <3>3. nb \in [D \cup here -> KvLayerIds \X Nat]
      BY <1>7, <2>6, <3>1 DEF Overwritten
    <3> QED BY <3>1, <3>2, <3>3 DEF BlockMaps
  <2>13. NextLBA(lba) \in Nat
    BY <2>2, KvAssumption DEF NextLBA
  <2>14. /\ r \in KvStates(s) /\ r.banks = new /\ r.stats.nvmeWrites = w + 1
         /\ r.lba = NextLBA(lba) /\ r.nvme.blocks = nb
    <3>1. PICK v : v = [t.nvme EXCEPT !.blocks = nb]
      OBVIOUS
    <3>2. /\ v \in [present : {s.nvme.present}, ready : {s.nvme.ready}, blocks : BlockMaps]
          /\ v.blocks = nb
      BY <1>1, <2>12, <3>1 DEF KvStates
    <3>3. PICK u : u = [d.stats EXCEPT !.nvmeWrites = w + 1]
      OBVIOUS
    <3>4. u \in Stats /\ u.nvmeWrites = w + 1
      BY <1>1, <1>11, <2>3, <3>3 DEF KvStates, Stats
    <3>5. r = [d EXCEPT !.nvme = v, !.lba = NextLBA(lba), !.stats = u]
      BY <2>9, <3>1, <3>3
    <3> QED BY <1>11, <2>13, <3>2, <3>4, <3>5 DEF KvStates
  <2>15. CacheOK(r)
    BY <1>7, <2>7, <2>14 DEF CacheOK
  <2> QED BY <2>10, <2>14, <2>15 DEF Reached
<1> QED BY <1>12, <1>13, <1>14

(* What every step of a count keeps holds at its end.                      *)
LEMMA Kept ==
    ASSUME NEW V, NEW N \in Nat, NEW h, h[0] \in V,
           \A n \in 1 .. N : h[n - 1] \in V => h[n] \in V
    PROVE  h[N] \in V
<1> DEFINE S == {n \in Nat : n <= N => h[n] \in V}
<1>1. 0 \in S
  OBVIOUS
<1>2. ASSUME NEW n \in Nat, n \in S PROVE n + 1 \in S
  <2> SUFFICES ASSUME n + 1 <= N PROVE h[n + 1] \in V
    OBVIOUS
  <2>1. n + 1 \in 1 .. N /\ (n + 1) - 1 = n
    OBVIOUS
  <2>2. h[n] \in V
    BY <1>2
  <2> QED BY <2>1, <2>2
<1> HIDE DEF S
<1>3. Nat \subseteq S
  BY <1>1, <1>2, SetInduction
<1> QED BY <1>3 DEF S

(* The two loops of OffloadCycle: a set of states that every pass stays in *)
(* is not left by the loop over one layer, nor by the one over the layers. *)
DrainsWithin(V, l) == \A v \in V : DrainOne(v, l) \in V
LayersWithin(V)    == \A v \in V, l \in KvLayerIds : OffloadLayer(v, l) \in V

LEMMA LayerLoop ==
    ASSUME NEW V, NEW t \in V, NEW l, DrainsWithin(V, l),
           NeedsOffload(t.banks[l]), ~SinkFails(t)
    PROVE  OffloadLayer(t, l) \in V
<1>1. PICK N \in Nat : N = NumBanks * Depth
  BY KvAssumption DEF NumBanks
<1> DEFINE F == [iv \in (0 .. N - 1) \X V |-> DrainOne(iv[2], l)]
           Eqn(h) == h = [n \in 0 .. N |-> IF n = 0 THEN t ELSE DrainOne(h[n - 1], l)]
<1>2. ASSUME NEW v \in V PROVE DrainOne(v, l) \in V
  BY DEF DrainsWithin
<1>3. ASSUME NEW i \in 0 .. N - 1, NEW v \in V
      PROVE  F[<<i, v>>] = DrainOne(v, l) /\ F[<<i, v>>] \in V
  BY <1>2
<1> HIDE DEF F
<1>4. PICK f : IsRec(f, N, t, F, V)
  BY <1>3, RecUpTo
<1>5. f \in [0 .. N -> V] /\ f[0] = t
  BY <1>4 DEF IsRec
<1>6. ASSUME NEW n \in 0 .. N, n # 0 PROVE f[n] = DrainOne(f[n - 1], l)
  <2>1. n - 1 \in 0 .. N - 1 /\ (n - 1) + 1 = n /\ n - 1 \in 0 .. N
    BY <1>6
  <2>2. f[(n - 1) + 1] = F[<<n - 1, f[n - 1]>>]
    BY <1>4, <2>1 DEF IsRec
  <2> QED BY <1>3, <1>5, <2>1, <2>2
<1>7. Eqn(f)
  BY <1>5, <1>6
<1> DEFINE h == CHOOSE h : Eqn(h)
<1>8. Eqn(h)
  BY <1>7
<1>9. OffloadLayer(t, l) = h[N]
  BY <1>1 DEF OffloadLayer
<1> HIDE DEF h
<1>10. h[0] = t /\ \A n \in 1 .. N : h[n] = DrainOne(h[n - 1], l)
  BY <1>8
<1>11. h[N] \in V
  BY <1>2, <1>10, Kept
<1> QED BY <1>9, <1>11

LEMMA CycleLoop ==
    ASSUME NEW V, NEW s \in V, LayersWithin(V)
    PROVE  OffloadCycle(s) \in V
<1>2. PICK N \in Nat : N = KvLayers
  BY KvAssumption
<1> DEFINE F == [iv \in (0 .. N - 1) \X V |-> OffloadLayer(iv[2], iv[1])]
           Eqn(h) == h = [n \in 0 .. N |-> IF n = 0 THEN s ELSE OffloadLayer(h[n - 1], n - 1)]
<1>3. ASSUME NEW i \in 0 .. N - 1, NEW v \in V PROVE OffloadLayer(v, i) \in V
  <2>1. i \in KvLayerIds
    BY <1>2 DEF KvLayerIds
  <2> QED BY <2>1 DEF LayersWithin
<1>4. ASSUME NEW i \in 0 .. N - 1, NEW v \in V
      PROVE  F[<<i, v>>] = OffloadLayer(v, i) /\ F[<<i, v>>] \in V
  BY <1>3
<1> HIDE DEF F
<1>5. PICK f : IsRec(f, N, s, F, V)
  BY <1>4, RecUpTo
<1>6. f \in [0 .. N -> V] /\ f[0] = s
  BY <1>5 DEF IsRec
<1>7. ASSUME NEW n \in 0 .. N, n # 0 PROVE f[n] = OffloadLayer(f[n - 1], n - 1)
  <2>1. n - 1 \in 0 .. N - 1 /\ (n - 1) + 1 = n /\ n - 1 \in 0 .. N
    BY <1>7
  <2>2. f[(n - 1) + 1] = F[<<n - 1, f[n - 1]>>]
    BY <1>5, <2>1 DEF IsRec
  <2> QED BY <1>4, <1>6, <2>1, <2>2
<1>8. Eqn(f)
  BY <1>6, <1>7
<1> DEFINE h == CHOOSE h : Eqn(h)
<1>9. Eqn(h)
  BY <1>8
<1>10. OffloadCycle(s) = h[N]
  BY <1>2 DEF OffloadCycle
<1> HIDE DEF h
<1>11. h[0] = s /\ \A n \in 1 .. N : h[n] = OffloadLayer(h[n - 1], n - 1)
  BY <1>9
<1>12. ASSUME NEW n \in 1 .. N, h[n - 1] \in V PROVE h[n] \in V
  <2>1. n - 1 \in 0 .. N - 1
    OBVIOUS
  <2> QED BY <1>3, <1>11, <1>12, <2>1
<1>13. h[N] \in V
  BY <1>11, <1>12, Kept
<1> QED BY <1>10, <1>13

(* A layer's part of the offload cycle, and the whole of it, keep the      *)
(* rings and the region in order.                                          *)
LEMMA LayerKeeps ==
    ASSUME StoredOK, NEW s, NEW t \in Reached(s), NEW l \in KvLayerIds
    PROVE  OffloadLayer(t, l) \in Reached(s)
<1>1. CASE ~NeedsOffload(t.banks[l])
  BY <1>1 DEF OffloadLayer
<1>2. t \in KvStates(s) /\ CacheOK(t)
  BY DEF Reached
<1>3. CASE NeedsOffload(t.banks[l]) /\ SinkFails(t)
  <2>1. PICK r : r = [t EXCEPT !.stats.errors = t.stats.errors + 1]
    OBVIOUS
  <2>2. OffloadLayer(t, l) = r
    BY <1>3, <2>1 DEF OffloadLayer
  <2>3. /\ r \in KvStates(s) /\ r.banks = t.banks /\ r.mode = t.mode /\ r.nvme = t.nvme
        /\ r.lba = t.lba /\ r.stats.nvmeWrites = t.stats.nvmeWrites
    BY <1>2, <2>1 DEF KvStates, Stats
  <2> QED BY <1>2, <2>2, <2>3 DEF Reached, CacheOK, Persists
<1>4. CASE NeedsOffload(t.banks[l]) /\ ~SinkFails(t)
  <2>1. ~SinkFails(s)
    BY <1>2, <1>4 DEF SinkFails, KvStates
  <2>2. DrainsWithin(Reached(s), l)
    BY <2>1, DrainKeeps DEF DrainsWithin
  <2> QED BY <1>4, <2>2, LayerLoop
<1> QED BY <1>1, <1>3, <1>4

LEMMA CycleKeeps ==
    ASSUME StoredOK, NEW s, s \in Reached(s)
    PROVE  OffloadCycle(s) \in Reached(s)
<1>1. LayersWithin(Reached(s))
  BY LayerKeeps DEF LayersWithin
<1> QED BY <1>1, CycleLoop

-----------------------------------------------------------------------------
(* The invariant                                                           *)

(* The rings and the region are in order while the caller is sequential.   *)
KvInv ==
  /\ StoredOK
  /\ caller = "sequence" => /\ kv \in KvStates(kv) /\ kv.window \in [KvLayerIds -> Int]
                            /\ CacheOK(kv)

(* The new cache: empty rings, nothing spilled, nothing written.           *)
LEMMA InitKvInv == KvInit => KvInv
<1> SUFFICES ASSUME KvInit PROVE KvInv
  OBVIOUS
<1>1. StoredOK
  BY DEF KvInit, StoredOK
<1>2. PICK use \in KvUses : kv = NewKVCache(use.mode, use.nvme, use) /\ caller = use.caller
  BY DEF KvInit
<1>3. \A l \in KvLayerIds, i \in BankIds : kv.banks[l][i] = NewBank
  BY <1>2 DEF NewKVCache
<1>4. BankOK(NewBank, 0, 0) /\ NewBank \in Bank /\ NewBank.occ = 0
  <2>1. /\ NewBank.occ = 0 /\ NewBank.wr = 0 /\ NewBank.rd = 0
        /\ NewBank.entries \in [Places -> Int] /\ NewBank.seq \in [Places -> Int]
    BY DEF NewBank, Places, NoEntry
  <2>2. 0 \in Places /\ 0 % Depth = 0
    BY KvAssumption DEF Places
  <2>3. NewBank \in Bank
    BY <2>1, <2>2, KvAssumption DEF NewBank, Bank
  <2> QED BY <2>1, <2>2, <2>3 DEF BankOK
<1>5. \A l \in KvLayerIds, i \in BankIds : Dealt(l, i) = 0
  <2>1. \A l \in KvLayerIds : stored[l] = 0
    BY DEF KvInit
  <2> QED BY <2>1 DEF Dealt, BankIds, NumBanks
<1>6. BanksOK(kv.banks)
  <2>1. \A i \in BankIds : BankOK(NewBank, i, 0)
    BY <1>4 DEF BankOK
  <2> QED BY <1>3, <1>5, <2>1 DEF BanksOK
<1>7. Spilled(kv.banks) = {}
  <2>1. ASSUME NEW x \in KvLayerIds \X Nat PROVE x \notin Spilled(kv.banks)
    <3>1. BankOf(x[2]) \in BankIds /\ LocalPos(x[2]) \in Nat
      BY Split
    <3>2. kv.banks[x[1]][BankOf(x[2])].occ = 0 /\ Dealt(x[1], BankOf(x[2])) = 0
      BY <1>3, <1>4, <1>5, <3>1
    <3> QED BY <3>1, <3>2 DEF Spilled
  <2> QED BY <2>1 DEF Spilled
<1>8. /\ kv.stats.nvmeWrites = 0 /\ kv.lba = 0 /\ kv.nvme.blocks = <<>>
      /\ kv.nvme.present = use.nvme
  BY <1>2 DEF NewKVCache
<1>9. RegionOK(0, 0, <<>>, {})
  <2>1. DOMAIN <<>> = {}
    OBVIOUS
  <2>2. \A b \in Nat : RoomOf(b) \in Nat
    BY RoomFacts
  <2>3. 0 % Room = 0
    BY RoomFacts
  <2>4. EntryBlocks * 0 = 0
    BY KvAssumption
  <2>5. {b \in Nat : RoomOf(b) < 0 /\ RoomOf(b) < Room} = {}
    BY <2>2
  <2> QED BY <2>1, <2>3, <2>4, <2>5 DEF RegionOK
<1>10. CacheOK(kv)
  BY <1>6, <1>7, <1>8, <1>9 DEF CacheOK
<1>11. kv.window \in [KvLayerIds -> Int]
  <2>1. ASSUME NEW l \in KvLayerIds PROVE WindowOf(use, l) \in Int
    <3>1. PICK w \in Int : w = use.window
      BY <1>2, KvAssumption
    <3>2. WindowOf(use, l) = 0 \/ WindowOf(use, l) = w
      BY <3>1, Zenon DEF WindowOf
    <3> QED BY <3>2
  <2> QED BY <1>2, <2>1 DEF NewKVCache
<1>12. kv \in KvStates(kv)
  <2>1. <<>> \in BlockMaps
    <3>1. <<>> \in [{} -> KvLayerIds \X Nat] /\ {} \in SUBSET Nat
      OBVIOUS
    <3> QED BY <3>1 DEF BlockMaps
  <2>2. kv.banks \in Banks
    BY <1>2, <1>4 DEF NewKVCache, Banks
  <2>3. kv.stats \in Stats
    BY <1>2 DEF NewKVCache, Stats
  <2>4. /\ kv.nvme \in [present : {kv.nvme.present}, ready : {kv.nvme.ready}, blocks : BlockMaps]
        /\ kv.lba \in Nat
    BY <1>2, <2>1 DEF NewKVCache
  <2>5. kv = [mode |-> kv.mode, banks |-> kv.banks, window |-> kv.window, lba |-> kv.lba,
              stats |-> kv.stats, nvme |-> kv.nvme]
    BY <1>2 DEF NewKVCache
  <2> QED BY <2>2, <2>3, <2>4, <2>5 DEF KvStates
<1> QED BY <1>1, <1>10, <1>11, <1>12 DEF KvInv

(* A position that is stored goes to the end of its bank's ring, and no    *)
(* position is spilled by it.                                              *)
LEMMA StoreStepKeeps ==
    ASSUME KvInv, caller = "sequence", NEW l \in KvLayerIds, StoreNext(l)
    PROVE  KvInv'
<1>1. PICK pos \in Nat : pos = stored[l]
  BY DEF KvInv, StoredOK
<1>2. PICK banks \in Banks : banks = kv.banks
  BY DEF KvInv, KvStates
<1>3. /\ kv \in KvStates(kv) /\ kv.window \in [KvLayerIds -> Int] /\ CacheOK(kv)
      /\ StoredOK
  BY DEF KvInv
<1>4. PICK i \in BankIds : i = BankOf(pos)
  BY Split
<1>5. PICK n \in Nat : n = LocalPos(pos)
  BY Split
<1>6. pos = NumBanks * n + i /\ Dealt(l, i) = n
  <2>1. pos = NumBanks * n + i
    BY <1>1, <1>4, <1>5, Split
  <2>2. DealtTo(pos, i) = n
    BY <1>1, <1>4, <1>5, Dealing
  <2>3. Dealt(l, i) = DealtTo(pos, i)
    BY <1>1 DEF Dealt, DealtTo
  <2> QED BY <2>1, <2>2, <2>3
<1>7. PICK b : b = banks[l][i]
  OBVIOUS
<1>8. BankOK(b, i, n)
  BY <1>2, <1>3, <1>6, <1>7 DEF CacheOK, BanksOK
<1>9. PICK c : c = BankStore(b, pos, n)
  OBVIOUS
<1>10. PICK new : new = [banks EXCEPT ![l][i] = c]
  OBVIOUS
<1>11. kv' = [kv EXCEPT !.banks = new]
  <2>1. LayerStore(banks[l], pos, pos) = [banks[l] EXCEPT ![i] = c]
    BY <1>4, <1>5, <1>7, <1>9 DEF LayerStore
  <2>2. kv' = [kv EXCEPT !.banks[l] = LayerStore(kv.banks[l], pos, pos)]
    BY <1>1 DEF StoreNext
  <2> QED BY <1>2, <1>3, <1>10, <2>1, <2>2 DEF KvStates, Banks
<1>12. caller' = caller
  BY DEF StoreNext
<1>13. CASE BankFull(b)
  <2>1. c = b
    BY <1>9, <1>13 DEF BankStore
  <2>2. new = banks
    BY <1>7, <1>10, <2>1 DEF Banks
  <2>3. kv' = kv
    BY <1>2, <1>3, <1>11, <2>2 DEF KvStates
  <2>4. ~LayerAccepts(kv.banks[l], pos)
    BY <1>2, <1>4, <1>7, <1>13 DEF LayerAccepts
  <2>5. stored' = stored
    BY <1>1, <1>3, <2>4 DEF StoreNext, StoredOK
  <2>6. Spilled(kv.banks)' = Spilled(kv.banks) /\ BanksOK(kv.banks)' = BanksOK(kv.banks)
    BY <2>3, <2>5 DEF Spilled, BanksOK, Dealt
  <2> QED BY <1>3, <2>3, <2>5, <2>6, <1>12 DEF KvInv, CacheOK, Persists, StoredOK, KvStates
<1>14. CASE ~BankFull(b)
  <2>1. BankOK(c, i, n + 1) /\ c.occ = b.occ + 1 /\ c \in Bank
    <3>1. BankOK(c, i, n + 1) /\ c.occ = b.occ + 1
      BY <1>6, <1>8, <1>9, <1>14, StoreKeeps
    <3> QED BY <3>1 DEF BankOK
  <2>2. /\ new \in Banks
        /\ \A m \in KvLayerIds, j \in BankIds :
             new[m][j] = IF m = l /\ j = i THEN c ELSE banks[m][j]
    BY <1>10, <2>1 DEF Banks
  <2>3. LayerAccepts(kv.banks[l], pos)
    BY <1>1, <1>2, <1>4, <1>7, <1>14 DEF LayerAccepts
  <2>4. stored' = [stored EXCEPT ![l] = pos + 1]
    BY <1>1, <2>3 DEF StoreNext
  <2>5. StoredOK'
    BY <1>3, <2>4 DEF StoredOK
  <2>6. ASSUME NEW m \in KvLayerIds, NEW j \in BankIds
        PROVE  Dealt(m, j)' = Dealt(m, j) + (IF m = l /\ j = i THEN 1 ELSE 0)
    <3>1. Dealt(m, j)' = DealtTo(stored'[m], j) /\ Dealt(m, j) = DealtTo(stored[m], j)
      BY DEF Dealt, DealtTo
    <3>2. CASE m = l
      <4>1. stored'[m] = pos + 1 /\ stored[m] = pos
        BY <1>1, <1>3, <2>4, <3>2 DEF StoredOK
      <4>2. j = i => DealtTo(pos, j) = n /\ DealtTo(pos + 1, j) = n + 1
        BY <1>4, <1>5, Dealing
      <4>3. j # i => DealtTo(pos + 1, j) = DealtTo(pos, j) /\ DealtTo(pos, j) \in Nat
        BY <1>4, Dealing
      <4> QED BY <3>1, <3>2, <4>1, <4>2, <4>3
    <3>3. CASE m # l
      <4>1. stored'[m] = stored[m] /\ stored[m] \in Nat
        BY <1>3, <2>4, <3>3 DEF StoredOK
      <4>2. DealtTo(stored[m], j) \in Nat
        BY <4>1, Dealing
      <4> QED BY <3>1, <3>3, <4>1, <4>2
    <3> QED BY <3>2, <3>3
  <2>7. ASSUME NEW m \in KvLayerIds, NEW j \in BankIds
        PROVE  /\ Dealt(m, j) \in Nat /\ banks[m][j].occ \in Nat
               /\ BankOK(banks[m][j], j, Dealt(m, j))
    <3>1. Dealt(m, j) \in Nat
      BY <1>3, DealtIs, Dealing DEF StoredOK
    <3>2. banks[m][j].occ \in Nat
      BY KvAssumption DEF Banks, Bank
    <3> QED BY <1>2, <1>3, <3>1, <3>2 DEF CacheOK, BanksOK
  <2>8. kv'.banks = new
    BY <1>3, <1>11 DEF KvStates
  <2>9. BanksOK(kv.banks)'
    <3>1. ASSUME NEW m \in KvLayerIds, NEW j \in BankIds
          PROVE  BankOK(new[m][j], j, Dealt(m, j)')
      <4>1. CASE m = l /\ j = i
        BY <1>6, <2>1, <2>2, <2>6, <4>1
      <4>2. CASE ~(m = l /\ j = i)
        <5>1. Dealt(m, j)' = Dealt(m, j)
          BY <2>6, <2>7, <4>2
        <5>2. new[m][j] = banks[m][j]
          BY <2>2, <4>2
        <5> QED BY <2>7, <5>1, <5>2
      <4> QED BY <4>1, <4>2
    <3> QED BY <2>8, <3>1 DEF BanksOK, BankOK
  <2>10. Spilled(kv.banks)' = Spilled(kv.banks)
    <3>1. ASSUME NEW x \in KvLayerIds \X Nat
          PROVE  LocalPos(x[2]) < Dealt(x[1], BankOf(x[2]))' - new[x[1]][BankOf(x[2])].occ
                   <=> LocalPos(x[2]) < Dealt(x[1], BankOf(x[2])) - banks[x[1]][BankOf(x[2])].occ
      <4>1. PICK m \in KvLayerIds : m = x[1]
        OBVIOUS
      <4>2. PICK j \in BankIds : j = BankOf(x[2])
        BY Split
      <4>3. LocalPos(x[2]) \in Nat
        BY Split
      <4>4. Dealt(m, j)' - new[m][j].occ = Dealt(m, j) - banks[m][j].occ
        <5>1. CASE m = l /\ j = i
          BY <1>7, <2>1, <2>2, <2>6, <2>7, <5>1
        <5>2. CASE ~(m = l /\ j = i)
          BY <2>2, <2>6, <2>7, <5>2
        <5> QED BY <5>1, <5>2
      <4>5. Dealt(x[1], BankOf(x[2]))' = Dealt(m, j)'
        BY <4>1, <4>2 DEF Dealt
      <4> QED BY <4>1, <4>2, <4>4, <4>5
    <3>2. Spilled(kv.banks)' = {x \in KvLayerIds \X Nat :
            LocalPos(x[2]) < Dealt(x[1], BankOf(x[2]))' - new[x[1]][BankOf(x[2])].occ}
      BY <2>8 DEF Spilled
    <3> QED BY <1>2, <3>1, <3>2 DEF Spilled
  <2>11. /\ kv'.mode = kv.mode /\ kv'.nvme = kv.nvme /\ kv'.stats = kv.stats
         /\ kv'.lba = kv.lba /\ kv'.window = kv.window /\ kv' \in KvStates(kv)
    BY <1>3, <1>11, <2>2 DEF KvStates
  <2>12. CacheOK(kv)'
    BY <1>3, <2>9, <2>10, <2>11 DEF CacheOK, Persists
  <2>13. (kv \in KvStates(kv))'
    BY <2>11 DEF KvStates
  <2> QED BY <1>3, <2>5, <2>11, <2>12, <2>13 DEF KvInv
<1> QED BY <1>13, <1>14

(* Every call of every caller keeps the invariant; those other than the    *)
(* sequential one do not touch what it speaks of.                          *)
LEMMA NextKvInv == KvInv /\ [KvNext]_kvVars => KvInv'
<1> SUFFICES ASSUME KvInv, [KvNext]_kvVars PROVE KvInv'
  OBVIOUS
<1>1. ASSUME kv' = kv, stored' = stored, caller' = caller PROVE KvInv'
  <2>1. Spilled(kv.banks)' = Spilled(kv.banks) /\ BanksOK(kv.banks)' = BanksOK(kv.banks)
    BY <1>1 DEF Spilled, BanksOK, Dealt
  <2> QED BY <1>1, <2>1 DEF KvInv, StoredOK, CacheOK, Persists, KvStates
<1>2. ASSUME stored' \in [KvLayerIds -> Nat], caller' = caller, caller # "sequence" PROVE KvInv'
  BY <1>2 DEF KvInv, StoredOK
<1>3. ASSUME kv' \in KvStates(kv'), kv'.window = kv.window, stored' = stored, caller' = caller,
             caller = "sequence" => CacheOK(kv')
      PROVE  KvInv'
  <2>1. Spilled(kv.banks)' = Spilled(kv'.banks) /\ BanksOK(kv.banks)' = BanksOK(kv'.banks)
    BY <1>3 DEF Spilled, BanksOK, Dealt
  <2> QED BY <1>3, <2>1 DEF KvInv, StoredOK, CacheOK, Persists
<1>4. CASE InitNVMe
  <2>1. CASE caller = "sequence"
    <3>1. kv \in KvStates(kv) /\ CacheOK(kv)
      BY <2>1 DEF KvInv
    <3>2. kv' = [kv EXCEPT !.nvme.ready = TRUE] /\ stored' = stored /\ caller' = caller
      BY <1>4 DEF InitNVMe
    <3>3. /\ kv' \in KvStates(kv') /\ kv'.window = kv.window /\ kv'.banks = kv.banks
          /\ kv'.mode = kv.mode /\ kv'.nvme.present = kv.nvme.present
          /\ kv'.nvme.blocks = kv.nvme.blocks /\ kv'.lba = kv.lba /\ kv'.stats = kv.stats
      BY <3>1, <3>2 DEF KvStates
    <3>4. CacheOK(kv')
      BY <3>1, <3>3 DEF CacheOK, Persists
    <3> QED BY <1>3, <3>2, <3>3, <3>4
  <2>2. CASE caller # "sequence"
    BY <1>2, <1>4, <2>2 DEF InitNVMe, KvInv, StoredOK
  <2> QED BY <2>1, <2>2
<1>5. CASE Offload
  <2>1. CASE caller = "sequence"
    <3>1. kv \in Reached(kv) /\ StoredOK
      BY <2>1 DEF KvInv, Reached
    <3>2. kv' = OffloadCycle(kv) /\ stored' = stored /\ caller' = caller
      BY <1>5 DEF Offload
    <3>3. kv' \in Reached(kv)
      BY <3>1, <3>2, CycleKeeps
    <3>4. kv' \in KvStates(kv') /\ kv'.window = kv.window /\ CacheOK(kv')
      BY <3>3 DEF Reached, KvStates
    <3> QED BY <1>3, <3>2, <3>4
  <2>2. CASE caller # "sequence"
    BY <1>2, <1>5, <2>2 DEF Offload, KvInv, StoredOK
  <2> QED BY <2>1, <2>2
<1>6. ASSUME NEW l \in KvLayerIds, StoreNext(l) PROVE KvInv'
  BY <1>6, StoreStepKeeps DEF StoreNext
<1>7. ASSUME NEW l \in KvLayerIds, NEW v, NEW o, StorePagedAt(l, v, o), caller # "sequence"
      PROVE  KvInv'
  BY <1>2, <1>7 DEF StorePagedAt, KvInv, StoredOK
<1>8. ASSUME NEW l \in KvLayerIds, StorePagedInOrder(l) PROVE KvInv'
  BY <1>7, <1>8 DEF StorePagedInOrder
<1>9. ASSUME NEW l \in KvLayerIds, NEW v, NEW o, StorePaged(l, v, o) PROVE KvInv'
  BY <1>7, <1>9 DEF StorePaged
<1>10. ASSUME NEW l \in KvLayerIds, NEW v, AllocVirt(l, v) \/ FreeVirt(l, v) \/ ShareVirt(l, v)
       PROVE  KvInv'
  BY <1>1, <1>10 DEF AllocVirt, FreeVirt, ShareVirt, PageCall
<1>11. ASSUME NEW l, NEW tokens, NEW w, StorePrefix(tokens, l, w) PROVE KvInv'
  BY <1>1, <1>11 DEF StorePrefix
<1>12. ASSUME NEW tokens, LookupPrefix(tokens) PROVE KvInv'
  BY <1>1, <1>12 DEF LookupPrefix
<1>13. CASE UNCHANGED kvVars
  BY <1>1, <1>13 DEF kvVars
<1> QED BY <1>4, <1>5, <1>6, <1>8, <1>9, <1>10, <1>11, <1>12, <1>13 DEF KvNext

-----------------------------------------------------------------------------
(* What the caller sees                                                    *)

(* A position that was dealt to a bank and has not left it.                *)
Live(l, pos) == LocalPos(pos) >= Dealt(l, BankOf(pos)) - kv.banks[l][BankOf(pos)].occ

(* A load of a position returns it while it is live, and nothing before    *)
(* it is stored or after it is spilled (KVCacheLayer.Load).                *)
LEMMA LayerFinds ==
    ASSUME KvInv, caller = "sequence", NEW l \in KvLayerIds, NEW pos \in Nat
    PROVE  /\ stored[l] \in Nat
           /\ LayerLoad(kv.banks[l], pos) = IF pos < stored[l] /\ Live(l, pos) THEN pos ELSE NoEntry
<1>1. PICK n \in Nat : n = stored[l]
  BY DEF KvInv, StoredOK
<1>2. PICK i \in BankIds : i = BankOf(pos)
  BY Split
<1>3. PICK k \in Nat : k = LocalPos(pos)
  BY Split
<1>4. pos = NumBanks * k + i
  BY <1>2, <1>3, Split
<1>5. PICK d \in Nat : d = DealtTo(n, i)
  BY Dealing
<1>6. Dealt(l, i) = d
  BY <1>1, <1>5, DealtIs
<1>7. pos < n <=> k < d
  BY <1>4, <1>5, Dealing
<1>8. PICK b : b = kv.banks[l][i]
  OBVIOUS
<1>9. BankOK(b, i, d)
  BY <1>6, <1>8 DEF KvInv, CacheOK, BanksOK
<1>10. BankLoad(b, k) = IF k \in d - b.occ .. d - 1 THEN NumBanks * k + i ELSE NoEntry
  BY <1>9, LoadFinds
<1>11. PICK o \in Nat : o = b.occ
  BY <1>9, KvAssumption DEF BankOK, Bank
<1>12. Live(l, pos) <=> k >= d - o
  BY <1>2, <1>3, <1>6, <1>8, <1>11 DEF Live
<1>13. k \in d - o .. d - 1 <=> pos < n /\ Live(l, pos)
  BY <1>7, <1>12
<1>14. LayerLoad(kv.banks[l], pos) = BankLoad(b, k)
  BY <1>2, <1>3, <1>8 DEF LayerLoad
<1> QED BY <1>1, <1>4, <1>10, <1>11, <1>13, <1>14

(* Every load of the sequential caller is right.                           *)
LEMMA LoadsOK == KvInv => LoadsWhatWasStored
<1> SUFFICES ASSUME KvInv, caller = "sequence", NEW l \in KvLayerIds, NEW pos \in 0 .. MaxPos - 1
             PROVE  LayerLoad(kv.banks[l], pos)
                      = IF /\ pos < stored[l]
                           /\ LocalPos(pos) >= Dealt(l, BankOf(pos)) - kv.banks[l][BankOf(pos)].occ
                        THEN pos ELSE NoEntry
  BY Zenon DEF LoadsWhatWasStored
<1>1. pos \in Nat
  BY KvAssumption
<1> QED BY <1>1, LayerFinds DEF Live

(* The positions below n that the banks return.                            *)
Loadable(banks, n) == {x \in 0 .. n - 1 : LayerLoad(banks, x) = x}

(* The window a layer returns is the live part of its last positions, in   *)
(* order (LoadWindow).                                                     *)
LEMMA WindowOK == KvInv => WindowIsRecent
<1> SUFFICES ASSUME KvInv, caller = "sequence", NEW l \in KvLayerIds, stored[l] > 0,
                    NEW got, got = KvLoadWindow(kv, l, stored[l] - 1)
             PROVE  /\ \A k \in 1 .. Len(got) - 1 : got[k] < got[k + 1]
                    /\ \A pos \in 0 .. stored[l] - 1 :
                         (\E k \in 1 .. Len(got) : got[k] = pos) <=>
                           (LayerLoad(kv.banks[l], pos) = pos
                              /\ (kv.window[l] > 0 => stored[l] - 1 - pos < kv.window[l]))
  BY Zenon DEF WindowIsRecent
<1>1. PICK s \in Nat : s = stored[l]
  BY DEF KvInv, StoredOK
<1>2. PICK w \in Int : w = kv.window[l]
  BY DEF KvInv
<1>3. PICK B : B = kv.banks[l]
  OBVIOUS
<1>4. PICK first : first = IF w <= 0 \/ (s - 1) - w + 1 < 0 THEN 0 ELSE (s - 1) - w + 1
  OBVIOUS
<1>5. first \in 0 .. s - 1 /\ \A x \in 0 .. s - 1 : x >= first <=> (w > 0 => s - 1 - x < w)
  BY <1>1, <1>4
<1>6. PICK n \in Nat : n = (s - 1) - first + 1
  BY <1>5
<1>7. PICK T \in SUBSET Int : T = Loadable(B, s)
  <2>1. Loadable(B, s) \in SUBSET Int
    BY <1>1 DEF Loadable
  <2> QED BY <2>1
<1>8. PICK row : row = [i \in 1 .. n |-> IF LayerLoad(B, first + i - 1) = NoEntry THEN <<>>
                                     ELSE <<LayerLoad(B, first + i - 1)>>]
  OBVIOUS
<1>9. got = FlattenSeq(row)
  BY <1>1, <1>2, <1>3, <1>4, <1>6, <1>8 DEF KvLoadWindow, LoadWindow
<1>10. PICK a \in Int : a = first - 1
  BY <1>5
<1>11. ASSUME NEW i \in 1 .. n
       PROVE  row[i] = (IF a + i \in T THEN <<a + i>> ELSE <<>>) /\ row[i] \in Seq(Int)
  <2>1. PICK at \in 0 .. s - 1 : at = a + i
    BY <1>5, <1>6, <1>10
  <2>2. first + i - 1 = at
    BY <1>5, <1>10, <2>1
  <2>3. LayerLoad(B, at) = at \/ LayerLoad(B, at) = NoEntry
    BY <1>3, LayerFinds
  <2>4. at \in T <=> LayerLoad(B, at) = at
    BY <1>7 DEF Loadable
  <2>5. at # NoEntry
    BY DEF NoEntry
  <2>6. row[i] = IF LayerLoad(B, at) = NoEntry THEN <<>> ELSE <<LayerLoad(B, at)>>
    BY <1>8, <2>2
  <2>7. row[i] = IF at \in T THEN <<at>> ELSE <<>>
    BY <2>3, <2>4, <2>5, <2>6
  <2> QED BY <2>1, <2>7
<1>12. Picks(row, n, a, T)
  BY <1>11 DEF Picks
<1>13. row \in [1 .. n -> Seq(Int)]
  BY <1>8, <1>11
<1>14. Ascends(got, UpTo(T, a, n))
  BY <1>9, <1>12, <1>13, FlattenPicked
<1>15. \A k \in 1 .. Len(got) - 1 : got[k] < got[k + 1]
  BY <1>14 DEF Ascends
<1>16. ASSUME NEW pos \in 0 .. s - 1
       PROVE  Occurs(got, pos) <=> LayerLoad(B, pos) = pos /\ (w > 0 => s - 1 - pos < w)
  <2>1. Occurs(got, pos) <=> pos \in UpTo(T, a, n)
    BY <1>14 DEF Ascends
  <2>2. a < pos /\ pos <= a + n <=> pos >= first
    BY <1>5, <1>6, <1>10
  <2>3. pos \in T <=> LayerLoad(B, pos) = pos
    BY <1>7 DEF Loadable
  <2>4. pos >= first <=> (w > 0 => s - 1 - pos < w)
    BY <1>5
  <2> QED BY <2>1, <2>2, <2>3, <2>4 DEF UpTo
<1> QED BY <1>1, <1>2, <1>3, <1>15, <1>16 DEF Occurs

(* A spilled entry has been written before it was dropped (OffloadCycle).  *)
LEMMA SpilledOK == KvInv => SpilledIsPersisted
<1> SUFFICES ASSUME KvInv, caller = "sequence", Persists(kv)
             PROVE  /\ DOMAIN kv.nvme.blocks \subseteq 0 .. LBAEnd - 1
                    /\ kv.stats.nvmeWrites <= Room =>
                         \A l \in KvLayerIds, pos \in 0 .. MaxPos - 1 :
                           pos < stored[l] => Persisted(l, pos) \/ LayerLoad(kv.banks[l], pos) = pos
                    /\ kv.stats.nvmeWrites >= Room =>
                         /\ Cardinality({kv.nvme.blocks[b] : b \in DOMAIN kv.nvme.blocks}) = Room
                         /\ \A b \in DOMAIN kv.nvme.blocks :
                              kv.nvme.blocks[b] = kv.nvme.blocks[b - (b % EntryBlocks)]
  BY Zenon DEF SpilledIsPersisted, Persists, Room
<1>1. RegionOK(kv.stats.nvmeWrites, kv.lba, kv.nvme.blocks, Spilled(kv.banks))
  BY DEF KvInv, CacheOK
<1>2. ASSUME NEW l \in KvLayerIds, NEW pos \in 0 .. MaxPos - 1, pos < stored[l],
             kv.stats.nvmeWrites <= Room
      PROVE  Persisted(l, pos) \/ LayerLoad(kv.banks[l], pos) = pos
  <2>1. pos \in Nat
    BY KvAssumption
  <2>2. CASE Live(l, pos)
    BY <1>2, <2>1, <2>2, LayerFinds
  <2>3. CASE ~Live(l, pos)
    <3>1. PICK i \in BankIds : i = BankOf(pos)
      BY <2>1, Split
    <3>2. PICK k \in Nat : k = LocalPos(pos)
      BY <2>1, Split
    <3>3. PICK d \in Nat : d = Dealt(l, i)
      BY DealtIs, Dealing DEF KvInv, StoredOK
    <3>4. PICK o \in Nat : o = kv.banks[l][i].occ
      <4>1. BankOK(kv.banks[l][i], i, d)
        BY <3>3 DEF KvInv, CacheOK, BanksOK
      <4> QED BY <4>1, KvAssumption DEF BankOK, Bank
    <3>5. k < d - o
      BY <2>3, <3>1, <3>2, <3>3, <3>4 DEF Live
    <3>6. <<l, pos>> \in Spilled(kv.banks)
      <4>1. <<l, pos>> \in KvLayerIds \X Nat /\ <<l, pos>>[1] = l /\ <<l, pos>>[2] = pos
        BY <2>1
      <4> QED BY <3>1, <3>2, <3>3, <3>4, <3>5, <4>1 DEF Spilled
    <3> QED BY <1>1, <1>2, <3>6 DEF RegionOK, Persisted
  <2> QED BY <2>2, <2>3
<1>3. /\ DOMAIN kv.nvme.blocks \subseteq 0 .. LBAEnd - 1
      /\ \A b \in DOMAIN kv.nvme.blocks :
           kv.nvme.blocks[b] = kv.nvme.blocks[b - (b % EntryBlocks)]
      /\ kv.stats.nvmeWrites >= Room =>
           Cardinality({kv.nvme.blocks[b] : b \in DOMAIN kv.nvme.blocks}) = Room
  <2>1. PICK w : w = kv.stats.nvmeWrites
    OBVIOUS
  <2>2. PICK lba : lba = kv.lba
    OBVIOUS
  <2>3. PICK blocks : blocks = kv.nvme.blocks
    OBVIOUS
  <2>4. PICK spilled : spilled = Spilled(kv.banks)
    OBVIOUS
  <2>5. RegionOK(w, lba, blocks, spilled)
    BY <1>1, <2>1, <2>2, <2>3, <2>4
  <2>6. Whole(blocks, w)
    BY <2>5, RegionWhole
  <2> QED BY <2>1, <2>3, <2>6, Zenon DEF Whole
<1> QED BY <1>2, <1>3

(* The frame of heads and what RepeatKV makes of it.                       *)
Frame(kvHeads, share) == [i \in 1 .. kvHeads * share |-> i]

Repeated(kvHeads, group, share) ==
  RepeatKV(Frame(kvHeads, share), kvHeads * group, kvHeads, 1, Len(Frame(kvHeads, share)))

(* Query head q's piece of the result is the head of its group.            *)
Grouped(repeated, entry, kvHeads, group, share) ==
  /\ Len(repeated) = Len(entry) * group
  /\ \A q \in 0 .. kvHeads * group - 1, b \in 1 .. share :
       repeated[q * share + b] = entry[(q \div group) * share + b]

(* RepeatKV cuts the frame into its heads and repeats each for its group.  *)
LEMMA HeadsGrouped ==
    ASSUME NEW kvHeads \in 1 .. 3, NEW group \in 2 .. 3, NEW share \in 1 .. 2,
           NEW entry, entry = Frame(kvHeads, share),
           NEW repeated, repeated = Repeated(kvHeads, group, share)
    PROVE  Grouped(repeated, entry, kvHeads, group, share)
<1>1. kvHeads \in Nat \ {0} /\ group \in Nat \ {0, 1} /\ share \in Nat \ {0}
  OBVIOUS
<1>2. PICK N \in Nat : N = kvHeads * share
  BY <1>1
<1>3. entry \in Seq(Nat) /\ Len(entry) = N /\ \A i \in 1 .. N : entry[i] = i
  BY <1>2 DEF Frame
<1>4. N \div kvHeads = share
  <2>1. N = kvHeads * share + 0 /\ 0 \in 0 .. (kvHeads - 1)
    BY <1>1, <1>2
  <2> QED BY <1>1, <2>1, DivModUnique
<1>5. PICK n \in Nat : n = kvHeads * group
  BY <1>1
<1>6. n \div kvHeads = group
  <2>1. n = kvHeads * group + 0 /\ 0 \in 0 .. (kvHeads - 1)
    BY <1>1, <1>5
  <2> QED BY <1>1, <2>1, DivModUnique
<1>7. ASSUME NEW h \in 0 .. kvHeads - 1
      PROVE  h * share \in Nat /\ (h + 1) * share = h * share + share /\ (h + 1) * share <= N
  <2>1. h \in Nat /\ kvHeads - (h + 1) \in Nat
    OBVIOUS
  <2>2. PICK k \in Nat : kvHeads = h + 1 + k
    BY <2>1
  <2>3. N = h * share + share + k * share /\ k * share \in Nat /\ h * share \in Nat
    BY <1>1, <1>2, <2>1, <2>2
  <2>4. (h + 1) * share = h * share + share
    BY <1>1, <2>1
  <2> QED BY <1>1, <2>3, <2>4
<1>8. {h \in 0 .. kvHeads - 1 : (h + 1) * share <= Len(entry)} = 0 .. kvHeads - 1
  BY <1>3, <1>7
<1>9. Cardinality(0 .. kvHeads - 1) = kvHeads
  <2>1. Cardinality(0 .. kvHeads - 1) = IF 0 > kvHeads - 1 THEN 0 ELSE (kvHeads - 1) - 0 + 1
    BY <1>1, FS_Interval
  <2> QED BY <1>1, <2>1
<1>10. PICK row : row = [i \in 1 .. n |-> SubSeq(entry, ((i - 1) \div group) * share + 1,
                                            ((i - 1) \div group + 1) * share)]
  OBVIOUS
<1>11. repeated = FlattenSeq(row)
  <2>1. Cardinality(0 .. kvHeads - 1) * group = n
    BY <1>5, <1>9
  <2>2. RepeatKV(entry, n, kvHeads, 1, N) = FlattenSeq(row)
    <3>1. RepeatKV(entry, n, kvHeads, 1, N) = RepeatHeads(entry, kvHeads, group, share)
      BY <1>1, <1>4, <1>6 DEF RepeatKV
    <3> QED BY <1>8, <1>10, <2>1, <3>1 DEF RepeatHeads
  <2> QED BY <1>3, <1>5, <2>2 DEF Repeated
<1>12. ASSUME NEW q \in 0 .. n - 1
       PROVE  /\ q \div group \in 0 .. kvHeads - 1 /\ q + 1 \in 1 .. n
              /\ row[q + 1] \in Seq(Nat) /\ Len(row[q + 1]) = share
              /\ \A b \in 1 .. share : row[q + 1][b] = entry[(q \div group) * share + b]
  <2>a. q \in Nat /\ group \in Nat \ {0}
    BY <1>1, <1>5
  <2>b. /\ q = group * (q \div group) + (q % group)
        /\ q % group \in 0 .. (group - 1) /\ q \div group \in Nat
    BY <2>a, DivMod
  <2>1. PICK h \in Nat : h = q \div group
    BY <2>b
  <2>2. q = group * h + (q % group) /\ q % group \in 0 .. group - 1
    BY <2>1, <2>b
  <2>3. h \in 0 .. kvHeads - 1
    BY <1>5, <2>1, <2>2
  <2>4. PICK m \in Nat : m = h * share
    BY <1>7, <2>3
  <2>5. (h + 1) * share = m + share /\ m + share <= N
    BY <1>7, <2>3, <2>4
  <2>6. row[q + 1] = SubSeq(entry, m + 1, m + share)
    BY <1>5, <1>10, <2>1, <2>4, <2>5
  <2>7. /\ SubSeq(entry, m + 1, m + share) \in Seq(Nat)
        /\ Len(SubSeq(entry, m + 1, m + share)) = share
        /\ \A b \in 1 .. share : SubSeq(entry, m + 1, m + share)[b] = entry[m + b]
    BY <1>1, <1>3, <2>5
  <2>8. q \div group \in 0 .. kvHeads - 1 /\ q + 1 \in 1 .. n
    BY <1>5, <2>1, <2>3
  <2>9. row[q + 1] \in Seq(Nat) /\ Len(row[q + 1]) = share
    BY <2>6, <2>7
  <2>10. \A b \in 1 .. share : row[q + 1][b] = entry[(q \div group) * share + b]
    BY <2>1, <2>4, <2>6, <2>7
  <2> QED BY <2>8, <2>9, <2>10
<1>13. /\ row \in [1 .. n -> Seq(Nat)]
       /\ Even(row, n, share)
  <2>1. ASSUME NEW i \in 1 .. n PROVE row[i] \in Seq(Nat) /\ Len(row[i]) = share
    <3>1. i - 1 \in 0 .. n - 1 /\ (i - 1) + 1 = i
      OBVIOUS
    <3> QED BY <1>12, <3>1
  <2> QED BY <1>10, <2>1 DEF Even
<1>14. InPieces(repeated, row, n, share)
  BY <1>1, <1>11, <1>13, FlattenEven
<1>15. Len(repeated) = Len(entry) * group
  <2>1. share * n = N * group
    BY <1>1, <1>2, <1>5
  <2> QED BY <1>3, <1>14, <2>1 DEF InPieces
<1>16. ASSUME NEW q \in 0 .. n - 1, NEW b \in 1 .. share
       PROVE  repeated[q * share + b] = entry[(q \div group) * share + b]
  <2>1. q + 1 \in 1 .. n /\ (q + 1) - 1 = q
    BY <1>12
  <2>2. repeated[share * q + b] = row[q + 1][b]
    BY <1>14, <2>1 DEF InPieces
  <2>3. share * q = q * share
    BY <1>1
  <2> QED BY <1>12, <2>2, <2>3
<1> QED BY <1>5, <1>15, <1>16 DEF Grouped

(* Every query head reads the head of its group.                           *)
LEMMA HeadsOK == HeadsRepeated
<1>1. ASSUME NEW kvHeads \in 1 .. 3, NEW group \in 2 .. 3, NEW share \in 1 .. 2
      PROVE  Grouped(Repeated(kvHeads, group, share), Frame(kvHeads, share), kvHeads, group, share)
  BY HeadsGrouped
<1> QED BY <1>1, Zenon DEF HeadsRepeated, Frame, Repeated, Grouped

(***************************************************************************)
(* The client's sampling: the tokens in order of their logits, the sums of *)
(* their probabilities, and the filters, each of which keeps the first     *)
(* tokens of that order.                                                   *)
(***************************************************************************)
(* Logits of n tokens.                                                     *)
IsBest(logits, rest, t) == t \in rest /\ \A u \in rest \ {t} : Before(logits, t, u)

LEMMA BeforeIsTotal ==
    ASSUME NEW n \in Nat, NEW logits \in [0 .. n - 1 -> Int],
           NEW t \in 0 .. n - 1, NEW u \in 0 .. n - 1
    PROVE  /\ Before(logits, t, u) \/ Before(logits, u, t) \/ t = u
           /\ ~(Before(logits, t, u) /\ Before(logits, u, t))
           /\ \A v \in 0 .. n - 1 :
                Before(logits, t, u) /\ Before(logits, u, v) => Before(logits, t, v)
<1>1. logits[t] \in Int /\ logits[u] \in Int /\ \A v \in 0 .. n - 1 : logits[v] \in Int
  OBVIOUS
<1> QED BY <1>1 DEF Before

(* Any tokens have a best one.                                             *)
LEMMA BestExists ==
    ASSUME NEW n \in Nat, NEW logits \in [0 .. n - 1 -> Int],
           NEW rest \in SUBSET (0 .. n - 1), rest # {}
    PROVE  IsBest(logits, rest, BestOf(logits, rest))
<1> DEFINE HasBest(R) == \E t : IsBest(logits, R, t)
           S == {k \in Nat : k <= n =>
                   \A R \in SUBSET (0 .. k - 1) : R # {} => HasBest(R)}
<1>1. 0 \in S
  <2>1. 0 .. 0 - 1 = {}
    OBVIOUS
  <2> QED BY <2>1
<1>2. ASSUME NEW k \in Nat, k \in S PROVE k + 1 \in S
  <2> SUFFICES ASSUME k + 1 <= n, NEW R \in SUBSET (0 .. k), R # {}
               PROVE  HasBest(R)
    OBVIOUS
  <2>1. R \ {k} \in SUBSET (0 .. k - 1) /\ R \in SUBSET (0 .. n - 1)
    OBVIOUS
  <2>2. CASE R \ {k} = {}
    <3>1. R = {k}
      BY <2>2
    <3>2. IsBest(logits, R, k)
      BY <3>1 DEF IsBest
    <3> QED BY <3>2
  <2>3. CASE R \ {k} # {}
    <3>1. PICK t : IsBest(logits, R \ {k}, t)
      <4>1. k <= n /\ \A P \in SUBSET (0 .. k - 1) : P # {} => HasBest(P)
        BY <1>2
      <4> QED BY <4>1, <2>1, <2>3
    <3>2. t \in 0 .. n - 1 /\ k \in 0 .. n - 1 /\ t # k /\ t \in R
      BY <2>1, <3>1 DEF IsBest
    <3>3. CASE k \notin R
      <4>1. R \ {k} = R
        BY <3>3
      <4> QED BY <3>1, <4>1
    <3>4. CASE k \in R /\ Before(logits, t, k)
      <4>1. \A u \in R \ {t} : u = k \/ u \in (R \ {k}) \ {t}
        OBVIOUS
      <4>2. IsBest(logits, R, t)
        BY <3>1, <3>2, <3>4, <4>1 DEF IsBest
      <4> QED BY <4>2
    <3>5. CASE k \in R /\ Before(logits, k, t)
      <4>1. ASSUME NEW u \in R \ {k} PROVE Before(logits, k, u)
        <5>1. CASE u = t
          BY <3>5, <5>1
        <5>2. CASE u # t
          <6>1. Before(logits, t, u) /\ u \in 0 .. n - 1
            BY <2>1, <3>1, <4>1, <5>2 DEF IsBest
          <6> QED BY <3>2, <3>5, <6>1, BeforeIsTotal
        <5> QED BY <5>1, <5>2
      <4>2. IsBest(logits, R, k)
        BY <3>5, <4>1 DEF IsBest
      <4> QED BY <4>2
    <3> QED BY <3>2, <3>3, <3>4, <3>5, BeforeIsTotal
  <2> QED BY <2>2, <2>3
<1>3. n \in S
  <2> HIDE DEF S
  <2> QED BY <1>1, <1>2, SetInduction
<1>4. PICK t : IsBest(logits, rest, t)
  BY <1>3
<1> DEFINE Q(v) == v \in rest /\ \A u \in rest : ~Before(logits, u, v)
<1>5. Q(t)
  <2>1. t \in 0 .. n - 1 /\ t \in rest
    BY <1>4 DEF IsBest
  <2>2. ASSUME NEW u \in rest PROVE ~Before(logits, u, t)
    <3>1. CASE u = t
      BY <2>1, <3>1, BeforeIsTotal
    <3>2. CASE u # t
      <4>1. Before(logits, t, u)
        BY <1>4, <3>2 DEF IsBest
      <4> QED BY <2>1, <4>1, BeforeIsTotal
    <3> QED BY <3>1, <3>2
  <2> QED BY <2>1, <2>2
<1>6. BestOf(logits, rest) = CHOOSE v : Q(v)
  BY DEF BestOf
<1>7. Q(BestOf(logits, rest))
  BY <1>5, <1>6
<1>8. ASSUME NEW u \in rest \ {BestOf(logits, rest)}
      PROVE  Before(logits, BestOf(logits, rest), u)
  BY <1>7, BeforeIsTotal
<1> QED BY <1>7, <1>8 DEF IsBest

(* Tokens in their order, before all that are left out.                    *)
InRank(logits, v, n) ==
    /\ v \in Seq(0 .. n - 1)
    /\ \A i \in 1 .. Len(v), j \in 1 .. Len(v) : i < j => Before(logits, v[i], v[j])
    /\ \A i \in 1 .. Len(v), u \in (0 .. n - 1) \ ToSet(v) : Before(logits, v[i], u)

(* Fewer places than tokens leave one out.                                 *)
LEMMA OneIsLeft ==
    ASSUME NEW n \in Nat, NEW v \in Seq(0 .. n - 1), Len(v) < n
    PROVE  (0 .. n - 1) \ ToSet(v) # {}
<1> SUFFICES ASSUME (0 .. n - 1) \subseteq ToSet(v) PROVE FALSE
  OBVIOUS
<1>1. v \in [1 .. Len(v) -> 0 .. n - 1] /\ Len(v) \in Nat
  OBVIOUS
<1>2. \A t \in 0 .. n - 1 : \E i \in 1 .. Len(v) : v[i] = t
  BY <1>1 DEF ToSet
<1>3. v \in Surjection(1 .. Len(v), 0 .. n - 1)
  BY <1>1, <1>2 DEF Surjection
<1>4. /\ IsFiniteSet(1 .. Len(v)) /\ Cardinality(1 .. Len(v)) = Len(v)
      /\ IsFiniteSet(0 .. n - 1) /\ Cardinality(0 .. n - 1) = n
  <2>1. 1 \in Int /\ Len(v) \in Int /\ 0 \in Int /\ n - 1 \in Int
    BY <1>1
  <2>2. /\ IsFiniteSet(1 .. Len(v)) /\ IsFiniteSet(0 .. n - 1)
        /\ Cardinality(1 .. Len(v)) = IF 1 > Len(v) THEN 0 ELSE Len(v) - 1 + 1
        /\ Cardinality(0 .. n - 1) = IF 0 > n - 1 THEN 0 ELSE (n - 1) - 0 + 1
    BY <2>1, FS_Interval
  <2> QED BY <1>1, <2>2
<1>5. Cardinality(0 .. n - 1) <= Cardinality(1 .. Len(v))
  BY <1>3, <1>4, FS_Surjection
<1> QED BY <1>1, <1>4, <1>5

LEMMA NextIsRanked ==
    ASSUME NEW n \in Nat, NEW logits \in [0 .. n - 1 -> Int], NEW v, InRank(logits, v, n),
           Len(v) < n
    PROVE  InRank(logits, NextBest(logits, v), n) /\ Len(NextBest(logits, v)) = Len(v) + 1
<1> DEFINE D == 0 .. n - 1
<1>1. v \in Seq(D) /\ DOMAIN logits = D
  BY DEF InRank
<1>2. PICK t : t = BestOf(logits, D \ ToSet(v))
  OBVIOUS
<1>3. IsBest(logits, D \ ToSet(v), t)
  BY <1>1, <1>2, OneIsLeft, BestExists
<1>4. PICK w : w = Append(v, t)
  OBVIOUS
<1>5. t \in D /\ t \notin ToSet(v)
  BY <1>3 DEF IsBest
<1>6. /\ w \in Seq(D) /\ Len(w) = Len(v) + 1 /\ w[Len(v) + 1] = t /\ Len(v) \in Nat
      /\ \A i \in 1 .. Len(v) : w[i] = v[i]
  BY <1>1, <1>4, <1>5
<1>11. \A k \in 1 .. Len(v) : k \in 1 .. Len(w) /\ w[k] = v[k]
  <2>1. Len(w) = Len(v) + 1 /\ Len(v) \in Nat
    BY <1>6
  <2>2. \A k \in 1 .. Len(v) : k \in 1 .. Len(w)
    BY <2>1
  <2> QED BY <1>6, <2>2
<1>12. \A k \in 1 .. Len(w) : k \in 1 .. Len(v) \/ k = Len(v) + 1
  <2>1. Len(w) = Len(v) + 1 /\ Len(v) \in Nat
    BY <1>6
  <2> QED BY <2>1
<1>7. ASSUME NEW i \in 1 .. Len(w), NEW j \in 1 .. Len(w), i < j
      PROVE  Before(logits, w[i], w[j])
  <2>1. i \in 1 .. Len(v) /\ w[i] = v[i]
    <3>1. i # Len(v) + 1
      <4>1. Len(w) = Len(v) + 1 /\ Len(v) \in Nat
        BY <1>6
      <4> QED BY <1>7, <4>1
    <3> QED BY <1>11, <1>12, <3>1
  <2>2. CASE j \in 1 .. Len(v)
    BY <1>6, <1>7, <2>1, <2>2 DEF InRank
  <2>3. CASE j = Len(v) + 1
    BY <1>5, <1>6, <2>1, <2>3 DEF InRank
  <2> QED BY <1>12, <2>2, <2>3
<1>8. ASSUME NEW i \in 1 .. Len(w), NEW u \in D \ ToSet(w)
      PROVE  Before(logits, w[i], u)
  <2>1. \A k \in 1 .. Len(w) : w[k] # u
    <3>1. DOMAIN w = 1 .. Len(w)
      BY <1>6
    <3> QED BY <3>1 DEF ToSet
  <2>2. u # t /\ u \notin ToSet(v)
    <3>1. DOMAIN v = 1 .. Len(v) /\ Len(v) + 1 \in 1 .. Len(w)
      BY <1>1, <1>6
    <3>2. \A k \in 1 .. Len(v) : k \in 1 .. Len(w) /\ v[k] # u
      BY <1>11, <2>1
    <3> QED BY <1>6, <2>1, <3>1, <3>2 DEF ToSet
  <2>3. CASE i \in 1 .. Len(v)
    BY <1>6, <2>2, <2>3 DEF InRank
  <2>4. CASE i = Len(v) + 1
    BY <1>3, <1>6, <2>2, <2>4 DEF IsBest
  <2> QED BY <1>12, <2>3, <2>4
<1>9. NextBest(logits, v) = w
  BY <1>1, <1>2, <1>4 DEF NextBest
<1>10. InRank(logits, w, n)
  BY <1>6, <1>7, <1>8 DEF InRank
<1> QED BY <1>6, <1>9, <1>10

(* The sorted tokens.                                                      *)
LEMMA DescendingIs ==
    ASSUME NEW n \in Nat, NEW logits \in [0 .. n - 1 -> Int]
    PROVE  InRank(logits, Descending(logits), n) /\ Len(Descending(logits)) = n
<1> DEFINE D == 0 .. n - 1
<1>1. PICK E : E = D \cup { BestOf(logits, R) : R \in SUBSET D }
  OBVIOUS
<1>2. DOMAIN logits = D /\ Cardinality(D) = n
  BY FS_Interval
<1> DEFINE V == Seq(E)
           F == [iv \in (0 .. n - 1) \X V |-> NextBest(logits, iv[2])]
           Eqn(h) == h = [k \in 0 .. n |-> IF k = 0 THEN <<>> ELSE NextBest(logits, h[k - 1])]
<1>3. ASSUME NEW v \in V PROVE NextBest(logits, v) \in V
  <2>1. BestOf(logits, D \ ToSet(v)) \in E
    BY <1>1
  <2> QED BY <1>2, <2>1 DEF NextBest
<1>4. ASSUME NEW i \in 0 .. n - 1, NEW v \in V
      PROVE  F[<<i, v>>] = NextBest(logits, v) /\ F[<<i, v>>] \in V
  <2>1. F[<<i, v>>] = NextBest(logits, v)
    OBVIOUS
  <2> QED BY <1>3, <2>1
<1>5. <<>> \in V
  OBVIOUS
<1> HIDE DEF F, V
<1>6. PICK f : IsRec(f, n, <<>>, F, V)
  BY <1>4, <1>5, RecUpTo
<1>7. f \in [0 .. n -> V] /\ f[0] = <<>>
  BY <1>6 DEF IsRec
<1>8. ASSUME NEW k \in 0 .. n, k # 0 PROVE f[k] = NextBest(logits, f[k - 1])
  <2>1. k - 1 \in 0 .. n - 1 /\ (k - 1) + 1 = k /\ k - 1 \in 0 .. n
    BY <1>8
  <2>2. f[(k - 1) + 1] = F[<<k - 1, f[k - 1]>>]
    BY <1>6, <2>1 DEF IsRec
  <2> QED BY <1>4, <1>7, <2>1, <2>2
<1>9. Eqn(f)
  BY <1>7, <1>8
<1> DEFINE h == CHOOSE h : Eqn(h)
<1>10. Eqn(h)
  BY <1>9
<1>11. Descending(logits) = h[n]
  BY <1>2 DEF Descending
<1> HIDE DEF h
<1>12. h[0] = <<>> /\ \A k \in 1 .. n : h[k] = NextBest(logits, h[k - 1])
  BY <1>10
<1> DEFINE S == {k \in Nat : k <= n => InRank(logits, h[k], n) /\ Len(h[k]) = k}
<1>13. 0 \in S
  <2>1. InRank(logits, <<>>, n) /\ Len(<<>>) = 0
    BY DEF InRank
  <2> QED BY <1>12, <2>1
<1>14. ASSUME NEW k \in Nat, k \in S PROVE k + 1 \in S
  <2> SUFFICES ASSUME k + 1 <= n PROVE InRank(logits, h[k + 1], n) /\ Len(h[k + 1]) = k + 1
    OBVIOUS
  <2>1. InRank(logits, h[k], n) /\ Len(h[k]) = k
    BY <1>14
  <2>2. h[k + 1] = NextBest(logits, h[k])
    <3>1. k + 1 \in 1 .. n /\ (k + 1) - 1 = k
      OBVIOUS
    <3> QED BY <1>12, <3>1
  <2> QED BY <2>1, <2>2, NextIsRanked
<1>15. n \in S
  <2> HIDE DEF S
  <2> QED BY <1>13, <1>14, SetInduction
<1> QED BY <1>11, <1>15
(* Tokens that have a probability.                                         *)
Likely(logits, D) == \A t \in D : ProbOf(logits, t) \in Nat

SameSums(logits, us, ts, m) ==
  \A k \in 0 .. m : Cumulated(logits, us)[k] = Cumulated(logits, ts)[k]

(* The probability of the first tokens grows by that of each.              *)
IsSum(C, logits, ts) ==
    /\ C[0] = 0
    /\ \A k \in 1 .. Len(ts) : C[k] = C[k - 1] + ProbOf(logits, ts[k])
    /\ \A k \in 0 .. Len(ts) : C[k] \in Nat
    /\ \A k \in 0 .. Len(ts), j \in 0 .. Len(ts) : j <= k => C[j] <= C[k]

LEMMA SumIs ==
    ASSUME NEW D, NEW logits, Likely(logits, D), NEW ts \in Seq(D)
    PROVE  IsSum(Cumulated(logits, ts), logits, ts)
<1>1. PICK n \in Nat : n = Len(ts)
  OBVIOUS
<1>2. ASSUME NEW k \in 1 .. n PROVE ProbOf(logits, ts[k]) \in Nat
  <2>1. ts[k] \in D
    BY <1>1
  <2> QED BY <2>1 DEF Likely
<1> DEFINE V == Nat
           F == [iv \in (0 .. n - 1) \X V |-> iv[2] + ProbOf(logits, ts[iv[1] + 1])]
           Eqn(h) == h = [k \in 0 .. n |-> IF k = 0 THEN 0 ELSE h[k - 1] + ProbOf(logits, ts[k])]
<1>3. ASSUME NEW i \in 0 .. n - 1, NEW v \in V
      PROVE  F[<<i, v>>] = v + ProbOf(logits, ts[i + 1]) /\ F[<<i, v>>] \in V
  <2>1. F[<<i, v>>] = v + ProbOf(logits, ts[i + 1])
    OBVIOUS
  <2>2. i + 1 \in 1 .. n
    OBVIOUS
  <2> HIDE DEF F
  <2> QED BY <1>2, <2>1, <2>2
<1> HIDE DEF F
<1>4. PICK f : IsRec(f, n, 0, F, V)
  BY <1>3, RecUpTo
<1>5. f \in [0 .. n -> V] /\ f[0] = 0
  BY <1>4 DEF IsRec
<1>6. ASSUME NEW k \in 0 .. n, k # 0 PROVE f[k] = f[k - 1] + ProbOf(logits, ts[k])
  <2>1. k - 1 \in 0 .. n - 1 /\ (k - 1) + 1 = k /\ k - 1 \in 0 .. n
    BY <1>6
  <2>2. f[(k - 1) + 1] = F[<<k - 1, f[k - 1]>>]
    BY <1>4, <2>1 DEF IsRec
  <2>3. f[k - 1] \in V
    BY <1>5, <2>1
  <2>4. F[<<k - 1, f[k - 1]>>] = f[k - 1] + ProbOf(logits, ts[(k - 1) + 1])
    BY <1>3, <2>1, <2>3
  <2> QED BY <2>1, <2>2, <2>4
<1>7. Eqn(f)
  BY <1>5, <1>6
<1> DEFINE h == CHOOSE h : Eqn(h)
<1>8. Eqn(h)
  BY <1>7
<1>9. Cumulated(logits, ts) = h
  BY <1>1 DEF Cumulated
<1> HIDE DEF h
<1>10. h[0] = 0 /\ \A k \in 1 .. n : h[k] = h[k - 1] + ProbOf(logits, ts[k])
  BY <1>8
<1> DEFINE S == {k \in Nat : k <= n => h[k] \in Nat /\ \A j \in 0 .. k : h[j] \in Nat /\ h[j] <= h[k]}
<1>11. 0 \in S
  BY <1>10
<1>12. ASSUME NEW k \in Nat, k \in S PROVE k + 1 \in S
  <2> SUFFICES ASSUME k + 1 <= n
               PROVE  /\ h[k + 1] \in Nat
                      /\ \A j \in 0 .. k + 1 : h[j] \in Nat /\ h[j] <= h[k + 1]
    OBVIOUS
  <2>1. h[k] \in Nat /\ \A j \in 0 .. k : h[j] \in Nat /\ h[j] <= h[k]
    BY <1>12
  <2>2. k + 1 \in 1 .. n /\ (k + 1) - 1 = k
    OBVIOUS
  <2>3. h[k + 1] = h[k] + ProbOf(logits, ts[k + 1]) /\ ProbOf(logits, ts[k + 1]) \in Nat
    BY <1>2, <1>10, <2>2
  <2>4. h[k + 1] \in Nat /\ h[k] <= h[k + 1]
    BY <2>1, <2>3
  <2>5. ASSUME NEW j \in 0 .. k + 1 PROVE h[j] \in Nat /\ h[j] <= h[k + 1]
    <3>1. CASE j = k + 1
      BY <2>4, <3>1
    <3>2. CASE j \in 0 .. k
      BY <2>1, <2>4, <3>2
    <3> QED BY <3>1, <3>2
  <2> QED BY <2>4, <2>5
<1> HIDE DEF S
<1>13. Nat \subseteq S
  BY <1>11, <1>12, SetInduction
<1>14. \A k \in 0 .. n : h[k] \in Nat /\ \A j \in 0 .. k : h[j] <= h[k]
  BY <1>13 DEF S
<1> QED BY <1>1, <1>9, <1>10, <1>14 DEF IsSum

(* A prefix has the same sums.                                             *)
LEMMA SumOfPrefix ==
    ASSUME NEW D, NEW logits, Likely(logits, D), NEW ts \in Seq(D),
           NEW m \in 0 .. Len(ts)
    PROVE  SameSums(logits, SubSeq(ts, 1, m), ts, m)
<1>1. PICK us : us = SubSeq(ts, 1, m)
  OBVIOUS
<1>2. us \in Seq(D) /\ Len(us) = m /\ \A k \in 1 .. m : us[k] = ts[k] /\ k \in 1 .. Len(ts)
  BY <1>1
<1>3. PICK A : A = Cumulated(logits, us)
  OBVIOUS
<1>4. PICK C : C = Cumulated(logits, ts)
  OBVIOUS
<1>5. IsSum(A, logits, us) /\ IsSum(C, logits, ts)
  BY <1>2, <1>3, <1>4, SumIs
<1> DEFINE S == {k \in Nat : k <= m => A[k] = C[k]}
<1>6. 0 \in S
  BY <1>5 DEF IsSum
<1>7. ASSUME NEW k \in Nat, k \in S PROVE k + 1 \in S
  <2> SUFFICES ASSUME k + 1 <= m PROVE A[k + 1] = C[k + 1]
    OBVIOUS
  <2>1. k + 1 \in 1 .. m /\ (k + 1) - 1 = k
    OBVIOUS
  <2>2. A[k] = C[k] /\ us[k + 1] = ts[k + 1] /\ k + 1 \in 1 .. Len(ts) /\ k + 1 \in 1 .. Len(us)
    BY <1>2, <1>7, <2>1
  <2>3. A[k + 1] = A[k] + ProbOf(logits, us[k + 1])
    BY <1>5, <2>1, <2>2 DEF IsSum
  <2>4. C[k + 1] = C[k] + ProbOf(logits, ts[k + 1])
    BY <1>5, <2>1, <2>2 DEF IsSum
  <2> QED BY <2>2, <2>3, <2>4
<1> HIDE DEF S
<1>8. Nat \subseteq S
  BY <1>6, <1>7, SetInduction
<1>9. \A k \in 0 .. m : A[k] = C[k]
  BY <1>8 DEF S
<1> QED BY <1>1, <1>3, <1>4, <1>9 DEF SameSums

(* The members of a set that no token outside it precedes are a prefix.    *)
Leading(ts, set, m) ==
    /\ m \in 0 .. Len(ts) /\ Among(ts, set) = SubSeq(ts, 1, m)
    /\ \A i \in 1 .. Len(ts) : ts[i] \in set <=> i <= m

LEMMA AmongIsPrefix ==
    ASSUME NEW D, NEW ts \in Seq(D), NEW set,
           \A i \in 1 .. Len(ts), j \in 1 .. Len(ts) : i < j /\ ts[j] \in set => ts[i] \in set
    PROVE  \E m : Leading(ts, set, m)
<1>1. PICK n \in Nat : n = Len(ts)
  OBVIOUS
<1> DEFINE S == {k \in Nat : k <= n => \E m \in 0 .. k :
                   \A i \in 1 .. k : ts[i] \in set <=> i <= m}
<1>2. 0 \in S
  <2>1. 0 \in 0 .. 0 /\ \A i \in 1 .. 0 : ts[i] \in set <=> i <= 0
    OBVIOUS
  <2> QED BY <2>1
<1>3. ASSUME NEW k \in Nat, k \in S PROVE k + 1 \in S
  <2> SUFFICES ASSUME k + 1 <= n
               PROVE  \E m \in 0 .. k + 1 : \A i \in 1 .. k + 1 : ts[i] \in set <=> i <= m
    OBVIOUS
  <2>1. PICK m \in 0 .. k : \A i \in 1 .. k : ts[i] \in set <=> i <= m
    BY <1>3
  <2>2. CASE ts[k + 1] \in set
    <3>1. ASSUME NEW i \in 1 .. k + 1 PROVE ts[i] \in set <=> i <= k + 1
      <4>1. i = k + 1 \/ (i < k + 1 /\ i \in 1 .. Len(ts) /\ k + 1 \in 1 .. Len(ts))
        BY <1>1
      <4> QED BY <2>2, <4>1
    <3> QED BY <3>1
  <2>3. CASE ts[k + 1] \notin set
    <3>1. ASSUME NEW i \in 1 .. k + 1 PROVE ts[i] \in set <=> i <= m
      <4>1. i = k + 1 \/ i \in 1 .. k
        OBVIOUS
      <4> QED BY <2>1, <2>3, <4>1
    <3>2. m \in 0 .. k + 1
      OBVIOUS
    <3> QED BY <3>1, <3>2, Zenon
  <2> QED BY <2>2, <2>3
<1>4. n \in S
  <2> HIDE DEF S
  <2> QED BY <1>2, <1>3, SetInduction
<1>5. PICK m \in 0 .. n : \A i \in 1 .. n : ts[i] \in set <=> i <= m
  BY <1>4
<1>6. PICK p : p = [i \in DOMAIN ts |-> IF ts[i] \in set THEN <<ts[i]>> ELSE <<>>]
  OBVIOUS
<1>7. \A i \in 1 .. n : p[i] = IF i <= m THEN <<ts[i]>> ELSE <<>>
  BY <1>1, <1>5, <1>6
<1>8. p \in [1 .. n -> Seq(D)]
  <2>1. DOMAIN ts = 1 .. n /\ \A i \in 1 .. n : ts[i] \in D
    BY <1>1
  <2> QED BY <1>6, <2>1
<1>9. PICK g : IsFlatten(g, p, n, D)
  BY <1>8, FlattenPrefixes
<1> DEFINE U == {k \in Nat : k <= n => Len(g[k]) = (IF k <= m THEN k ELSE m)
                               /\ \A i \in 1 .. Len(g[k]) : g[k][i] = ts[i]}
<1>10. 0 \in U
  BY <1>9 DEF IsFlatten
<1>11. ASSUME NEW k \in Nat, k \in U PROVE k + 1 \in U
  <2> SUFFICES ASSUME k + 1 <= n
               PROVE  /\ Len(g[k + 1]) = (IF k + 1 <= m THEN k + 1 ELSE m)
                      /\ \A i \in 1 .. Len(g[k + 1]) : g[k + 1][i] = ts[i]
    OBVIOUS
  <2>1. k + 1 \in 1 .. n /\ (k + 1) - 1 = k /\ k \in 0 .. n
    OBVIOUS
  <2>2. g[k + 1] = g[k] \o p[k + 1] /\ g[k] \in Seq(D)
    BY <1>9, <2>1 DEF IsFlatten
  <2>3. Len(g[k]) = (IF k <= m THEN k ELSE m) /\ \A i \in 1 .. Len(g[k]) : g[k][i] = ts[i]
    BY <1>11
  <2>4. p[k + 1] = (IF k + 1 <= m THEN <<ts[k + 1]>> ELSE <<>>)
    BY <1>7, <2>1
  <2>5. ts[k + 1] \in D
    BY <1>1, <2>1
  <2>6. CASE k + 1 <= m
    <3>1. p[k + 1] = <<ts[k + 1]>> /\ Len(g[k]) = k
      BY <2>3, <2>4, <2>6
    <3>2. g[k + 1] = Append(g[k], ts[k + 1])
      BY <2>2, <2>5, <3>1
    <3>3. Len(g[k + 1]) = k + 1
      BY <2>2, <2>5, <3>1, <3>2
    <3>4. ASSUME NEW i \in 1 .. k + 1 PROVE g[k + 1][i] = ts[i]
      <4>1. i \in 1 .. k \/ i = k + 1
        OBVIOUS
      <4> QED BY <2>2, <2>3, <2>5, <3>1, <3>2, <4>1
    <3> QED BY <2>6, <3>3, <3>4
  <2>7. CASE ~(k + 1 <= m)
    <3>1. g[k + 1] = g[k]
      BY <2>2, <2>4, <2>7
    <3>2. (IF k <= m THEN k ELSE m) = m
      BY <2>7
    <3> QED BY <2>3, <2>7, <3>1, <3>2
  <2> QED BY <2>6, <2>7
<1>12. n \in U
  <2> HIDE DEF U
  <2> QED BY <1>10, <1>11, SetInduction
<1>13. g[n] \in Seq(D) /\ Len(g[n]) = m /\ \A i \in 1 .. m : g[n][i] = ts[i]
  BY <1>9, <1>12 DEF IsFlatten
<1>14. g[n] = SubSeq(ts, 1, m)
  <2>1. PICK us : us = SubSeq(ts, 1, m)
    OBVIOUS
  <2>2. us \in Seq(D) /\ Len(us) = m /\ \A i \in 1 .. m : us[i] = ts[i]
    BY <1>1, <2>1
  <2> QED BY <1>13, <2>1, <2>2
<1>15. Among(ts, set) = g[n]
  BY <1>6, <1>9 DEF Among, IsFlatten
<1> QED BY <1>1, <1>5, <1>14, <1>15 DEF Leading

(* What the sampler needs of logits: more likely is more probable, and     *)
(* only what is masked has no probability.                                 *)
Weighed(logits, n) ==
    /\ logits \in [0 .. n - 1 -> Int]
    /\ \A t \in 0 .. n - 1 :
         /\ ProbOf(logits, t) \in Nat
         /\ Masked <= logits[t] /\ (ProbOf(logits, t) = 0 <=> logits[t] = Masked)
         /\ \A u \in 0 .. n - 1 : logits[t] <= logits[u] => ProbOf(logits, t) <= ProbOf(logits, u)

(* A product of percentages only grows with its factors.                   *)
LEMMA ProductGrows ==
    ASSUME NEW a \in Int, NEW b \in Nat, NEW c \in Nat, b <= c
    PROVE  /\ a \in Nat => a * b <= a * c
           /\ a <= 0 => a * b <= 0
           /\ a * b \in Int
<1>1. a * b \in Int /\ a * c \in Int
  OBVIOUS
<1>2. a \in Nat => a * b <= a * c
  <2> SUFFICES ASSUME a \in Nat PROVE a * b <= a * c
    OBVIOUS
  <2>1. PICK d \in Nat : c = b + d
    <3>1. c - b \in Nat /\ c = b + (c - b)
      OBVIOUS
    <3> QED BY <3>1
  <2>2. a * c = a * b + a * d /\ a * d \in Nat /\ a * b \in Nat
    BY <2>1
  <2> QED BY <2>2
<1>3. a <= 0 => a * b <= 0
  <2> SUFFICES ASSUME a <= 0 PROVE a * b <= 0
    OBVIOUS
  <2>1. PICK d \in Nat : a = 0 - d
    <3>1. 0 - a \in Nat /\ a = 0 - (0 - a)
      OBVIOUS
    <3> QED BY <3>1
  <2>2. a * b = 0 - d * b /\ d * b \in Nat
    BY <2>1
  <2> QED BY <2>2
<1> QED BY <1>1, <1>2, <1>3

(* The least of some numbers, found from any of them.                      *)
LEMMA MinIs ==
    ASSUME NEW S \in SUBSET Nat, S # {}
    PROVE  Min(S) \in S /\ \A x \in S : Min(S) <= x
<1> DEFINE P(m) == m \in S /\ \A x \in S : m <= x
           T == {k \in Nat : (\E x \in S : x <= k) => \E m : P(m)}
<1>1. 0 \in T
  OBVIOUS
<1>2. ASSUME NEW k \in Nat, k \in T PROVE k + 1 \in T
  <2> SUFFICES ASSUME NEW x \in S, x <= k + 1 PROVE \E m : P(m)
    OBVIOUS
  <2>1. CASE \E y \in S : y <= k
    BY <1>2, <2>1
  <2>2. CASE ~ \E y \in S : y <= k
    <3>1. \A y \in S : k + 1 <= y
      BY <2>2
    <3>2. x = k + 1
      BY <2>2
    <3>3. P(x)
      BY <3>1, <3>2
    <3> QED BY <3>3
  <2> QED BY <2>1, <2>2
<1> HIDE DEF T
<1>3. Nat \subseteq T
  BY <1>1, <1>2, SetInduction
<1>4. PICK m : P(m)
  <2>1. PICK x \in S : TRUE
    OBVIOUS
  <2>2. x \in T /\ x <= x /\ x \in Nat
    BY <1>3
  <2> QED BY <2>1, <2>2 DEF T
<1>5. Min(S) = CHOOSE v \in S : \A x \in S : v <= x
  BY DEF Min
<1> QED BY <1>4, <1>5

(* How many tokens pass the filters: m of the n in order.  A nucleus of    *)
(* topp percent ends with the token that fills it.                         *)
Passing(c, logits, n, m) ==
    LET all == Descending(logits)
        C   == Cumulated(logits, all)
    IN  /\ m \in 0 .. n /\ Filtered(c, logits) = SubSeq(all, 1, m)
        /\ c.topk > 0 => m <= c.topk
        /\ c.minp <= 100 => m > 0
        /\ \A i \in 1 .. m : ProbOf(logits, all[i]) * 100 >= c.minp * ProbOf(logits, all[1])
        /\ c.topp > 0 => \A i \in 1 .. m : C[i - 1] < C[i] => C[i - 1] * 100 < c.topp * C[n]

(* The first is at least as likely as every other.                         *)
LEMMA FirstIsBest ==
    ASSUME NEW n \in Nat \ {0}, NEW logits, Weighed(logits, n)
    PROVE  LET all == Descending(logits)
           IN  /\ all \in Seq(0 .. n - 1) /\ Len(all) = n
               /\ \A u \in 0 .. n - 1 : logits[u] <= logits[all[1]]
               /\ \A i \in 1 .. n, j \in 1 .. n : i < j => logits[all[j]] <= logits[all[i]]
<1>1. PICK all : all = Descending(logits)
  OBVIOUS
<1>2. logits \in [0 .. n - 1 -> Int]
  BY DEF Weighed
<1>3. InRank(logits, all, n) /\ Len(all) = n
  BY <1>1, <1>2, DescendingIs
<1>4. all \in Seq(0 .. n - 1) /\ \A i \in 1 .. n : all[i] \in 0 .. n - 1
  BY <1>3 DEF InRank
<1>5. ASSUME NEW t \in 0 .. n - 1, NEW u \in 0 .. n - 1, Before(logits, t, u)
      PROVE  logits[u] <= logits[t]
  <2>1. logits[t] \in Int /\ logits[u] \in Int
    BY <1>2
  <2> QED BY <1>5, <2>1 DEF Before
<1>6. \A i \in 1 .. n, j \in 1 .. n : i < j => logits[all[j]] <= logits[all[i]]
  BY <1>3, <1>4, <1>5 DEF InRank
<1>7. ASSUME NEW u \in 0 .. n - 1 PROVE logits[u] <= logits[all[1]]
  <2>1. CASE u \in ToSet(all)
    <3>1. PICK i \in 1 .. n : all[i] = u
      BY <1>3, <1>4, <2>1 DEF ToSet
    <3>2. CASE i = 1
      BY <1>2, <3>1, <3>2
    <3>3. CASE i # 1
      BY <1>6, <3>1, <3>3
    <3> QED BY <3>2, <3>3
  <2>2. CASE u \notin ToSet(all)
    <3>1. 1 \in 1 .. n
      OBVIOUS
    <3> QED BY <1>3, <1>4, <1>5, <2>2, <3>1 DEF InRank
  <2> QED BY <2>1, <2>2
<1> QED BY <1>1, <1>3, <1>4, <1>6, <1>7

(* Prefixes of a sequence.                                                 *)
LEMMA PrefixIs ==
    ASSUME NEW D, NEW s \in Seq(D), NEW k \in 0 .. Len(s)
    PROVE  /\ SubSeq(s, 1, k) \in Seq(D) /\ Len(SubSeq(s, 1, k)) = k
           /\ \A i \in 1 .. k : SubSeq(s, 1, k)[i] = s[i]
           /\ k = Len(s) => SubSeq(s, 1, k) = s
           /\ \A m \in 0 .. k : SubSeq(SubSeq(s, 1, k), 1, m) = SubSeq(s, 1, m)
<1>1. /\ SubSeq(s, 1, k) \in Seq(D) /\ Len(SubSeq(s, 1, k)) = k
      /\ \A i \in 1 .. k : SubSeq(s, 1, k)[i] = s[i]
  OBVIOUS
<1>2. k = Len(s) => SubSeq(s, 1, k) = s
  BY <1>1
<1>3. ASSUME NEW m \in 0 .. k PROVE SubSeq(SubSeq(s, 1, k), 1, m) = SubSeq(s, 1, m)
  <2>1. PICK t : t = SubSeq(s, 1, k)
    OBVIOUS
  <2>2. t \in Seq(D) /\ Len(t) = k /\ \A i \in 1 .. k : t[i] = s[i]
    BY <1>1, <2>1
  <2>3. PICK u : u = SubSeq(t, 1, m)
    OBVIOUS
  <2>4. PICK v : v = SubSeq(s, 1, m)
    OBVIOUS
  <2>5. u \in Seq(D) /\ Len(u) = m /\ \A i \in 1 .. m : u[i] = t[i]
    BY <2>2, <2>3
  <2>6. v \in Seq(D) /\ Len(v) = m /\ \A i \in 1 .. m : v[i] = s[i]
    BY <2>4
  <2>7. \A i \in 1 .. m : u[i] = v[i]
    BY <2>2, <2>5, <2>6
  <2>8. u = v
    BY <2>5, <2>6, <2>7
  <2> QED BY <2>1, <2>3, <2>4, <2>8
<1> QED BY <1>1, <1>2, <1>3

(* top-k: a prefix of at most so many.                                     *)
LEMMA TopKIs ==
    ASSUME NEW D, NEW c, c.topk \in Int, NEW all \in Seq(D)
    PROVE  \E k \in 0 .. Len(all) :
             /\ TopK(c, all) = SubSeq(all, 1, k)
             /\ c.topk > 0 => k <= c.topk
             /\ Len(all) > 0 => k > 0
<1>1. CASE c.topk > 0 /\ c.topk < Len(all)
  <2>1. TopK(c, all) = SubSeq(all, 1, c.topk)
    BY <1>1 DEF TopK
  <2>2. c.topk \in 0 .. Len(all)
    BY <1>1
  <2> QED BY <1>1, <2>1, <2>2
<1>2. CASE ~(c.topk > 0 /\ c.topk < Len(all))
  <2>1. TopK(c, all) = all
    BY <1>2 DEF TopK
  <2>2. Len(all) \in 0 .. Len(all) /\ SubSeq(all, 1, Len(all)) = all
    BY PrefixIs
  <2>3. c.topk > 0 => Len(all) <= c.topk
    BY <1>2
  <2> QED BY <2>1, <2>2, <2>3
<1> QED BY <1>1, <1>2

(* Tokens in order of their probability, from the most probable.           *)
Falling(logits, all, n) ==
    /\ all \in Seq(0 .. n - 1)
    /\ \A i \in 1 .. Len(all) : ProbOf(logits, all[i]) \in Nat
    /\ \A i \in 1 .. Len(all), j \in 1 .. Len(all) :
         i < j => ProbOf(logits, all[j]) <= ProbOf(logits, all[i])

(* min-p: the prefix that is within a part of the best.                    *)
LEMMA MinPIs ==
    ASSUME NEW n \in Nat \ {0}, NEW c, c.minp \in Int, NEW logits, DOMAIN logits = 0 .. n - 1,
           NEW ts, Falling(logits, ts, n), ts # <<>>
    PROVE  \E k \in 0 .. Len(ts) :
             /\ MinP(c, logits, ts) = SubSeq(ts, 1, k)
             /\ c.minp <= 100 => k > 0
             /\ \A i \in 1 .. k : ProbOf(logits, ts[i]) * 100 >= c.minp * ProbOf(logits, ts[1])
<1>1. ts \in Seq(0 .. n - 1) /\ Len(ts) \in Nat \ {0} /\ 1 \in 1 .. Len(ts)
  BY DEF Falling
<1>2. PICK best \in Nat : best = ProbOf(logits, ts[1])
  BY <1>1 DEF Falling
<1>3. CASE c.minp <= 0
  <2>1. MinP(c, logits, ts) = SubSeq(ts, 1, Len(ts)) /\ Len(ts) \in 0 .. Len(ts)
    BY <1>1, <1>3, PrefixIs DEF MinP
  <2>2. ASSUME NEW i \in 1 .. Len(ts) PROVE ProbOf(logits, ts[i]) * 100 >= c.minp * best
    <3>1. c.minp * best <= 0 /\ c.minp * best \in Int
      BY <1>2, <1>3, ProductGrows
    <3>2. ProbOf(logits, ts[i]) \in Nat
      BY DEF Falling
    <3> QED BY <3>1, <3>2
  <2> QED BY <1>1, <1>2, <2>1, <2>2
<1>4. CASE c.minp > 0
  <2>1. PICK near : near = { t \in DOMAIN logits :
                               ProbOf(logits, t) * 100 >= c.minp * ProbOf(logits, ts[1]) }
    OBVIOUS
  <2>2. \A i \in 1 .. Len(ts) :
          ts[i] \in near <=> ProbOf(logits, ts[i]) * 100 >= c.minp * best
    <3>1. \A i \in 1 .. Len(ts) : ts[i] \in DOMAIN logits
      BY <1>1
    <3> QED BY <1>2, <2>1, <3>1
  <2>3. c.minp * best \in Int
    BY <1>2
  <2>4. ASSUME NEW i \in 1 .. Len(ts), NEW j \in 1 .. Len(ts), i < j, ts[j] \in near
        PROVE  ts[i] \in near
    <3>1. /\ ProbOf(logits, ts[j]) \in Nat /\ ProbOf(logits, ts[i]) \in Nat
          /\ ProbOf(logits, ts[j]) <= ProbOf(logits, ts[i])
      BY <2>4 DEF Falling
    <3> QED BY <2>2, <2>3, <2>4, <3>1, SMTT(30)
  <2>5. PICK k : Leading(ts, near, k)
    BY <1>1, <2>4, AmongIsPrefix
  <2>6. MinP(c, logits, ts) = Among(ts, near)
    BY <1>4, <2>1 DEF MinP
  <2>7. ASSUME c.minp <= 100 PROVE k > 0
    <3>1. c.minp * best <= 100 * best
      <4>1. best * c.minp <= best * 100
        BY <1>2, <1>4, <2>7, ProductGrows
      <4>2. best * c.minp = c.minp * best /\ best * 100 = 100 * best
        BY <1>2
      <4> QED BY <4>1, <4>2
    <3>2. ts[1] \in near
      BY <1>1, <1>2, <2>2, <2>3, <3>1
    <3> QED BY <1>1, <2>5, <3>2 DEF Leading
  <2>8. \A i \in 1 .. k : ProbOf(logits, ts[i]) * 100 >= c.minp * best
    <3>1. k \in 0 .. Len(ts) /\ \A i \in 1 .. Len(ts) : ts[i] \in near <=> i <= k
      BY <2>5 DEF Leading
    <3>2. \A i \in 1 .. k : i \in 1 .. Len(ts) /\ ts[i] \in near
      BY <1>1, <3>1
    <3> QED BY <2>2, <3>2
  <2> QED BY <1>2, <2>5, <2>6, <2>7, <2>8 DEF Leading
<1> QED BY <1>3, <1>4

Nucleus(c, logits, all, C, ts, m) ==
    /\ TopP(c, logits, C[Len(all)], ts) = SubSeq(all, 1, m)
    /\ Len(ts) > 0 => m > 0
    /\ c.topp > 0 => \A i \in 1 .. m : C[i - 1] < C[i]
                       => C[i - 1] * 100 < c.topp * C[Len(all)]

(* top-p: no token behind the one that fills the nucleus.                  *)
LEMMA TopPIs ==
    ASSUME NEW D, NEW c, c.topp \in Int, NEW logits, Likely(logits, D),
           NEW all \in Seq(D), NEW k \in 0 .. Len(all),
           NEW C, C = Cumulated(logits, all), NEW ts, ts = SubSeq(all, 1, k)
    PROVE  \E m \in 0 .. k : Nucleus(c, logits, all, C, ts, m)
<1>1. PICK n \in Nat : n = Len(all)
  OBVIOUS
<1>2. ts \in Seq(D) /\ Len(ts) = k /\ \A i \in 0 .. k : SubSeq(ts, 1, i) = SubSeq(all, 1, i)
  BY PrefixIs
<1>3. \A i \in 0 .. k : Cumulated(logits, ts)[i] = C[i]
  BY SumOfPrefix DEF SameSums
<1>4. IsSum(C, logits, all)
  BY SumIs
<1>5. PICK total : total = C[n]
  OBVIOUS
<1>6. total \in Nat /\ \A i \in 0 .. n : C[i] \in Nat /\ C[i] <= total
  BY <1>1, <1>4, <1>5 DEF IsSum
<1>7. PICK reach : reach = { i \in 1 .. k : C[i] * 100 >= c.topp * total }
  OBVIOUS
<1>8. reach = { i \in 1 .. Len(ts) : Cumulated(logits, ts)[i] * 100 >= c.topp * total }
  <2>1. \A i \in 1 .. k : Cumulated(logits, ts)[i] = C[i]
    BY <1>3
  <2> QED BY <1>2, <1>7, <2>1
<1>9. c.topp * total \in Int
  BY <1>6
<1>10. ASSUME NEW i \in 1 .. k, C[i - 1] < C[i], c.topp > 0, i - 1 \notin reach \/ c.topp >= 100
       PROVE  C[i - 1] * 100 < c.topp * total
  <2>1. i - 1 \in 0 .. n /\ i \in 0 .. n
    BY <1>1
  <2>2. C[i - 1] \in Nat /\ C[i] \in Nat /\ C[i] <= total
    BY <1>6, <2>1
  <2>3. C[i - 1] < total /\ total > 0
    BY <1>6, <1>10, <2>2
  <2>4. CASE c.topp >= 100
    <3>1. total * 100 <= total * c.topp
      <4>1. PICK q \in Nat : q = c.topp /\ 100 <= q
        BY <2>4
      <4>2. PICK h \in Nat : h = 100
        OBVIOUS
      <4>3. h <= q
        BY <4>1, <4>2
      <4>4. total * h <= total * q
        BY <1>6, <4>3, ProductGrows
      <4> QED BY <4>1, <4>2, <4>4
    <3>2. total * c.topp = c.topp * total
      BY <1>6
    <3>3. C[i - 1] * 100 < total * 100
      BY <1>6, <2>2, <2>3
    <3> QED BY <1>6, <1>9, <2>2, <3>1, <3>2, <3>3
  <2>5. CASE i - 1 \notin reach /\ i - 1 > 0
    <3>1. i - 1 \in 1 .. k
      BY <2>5
    <3>2. ~(C[i - 1] * 100 >= c.topp * total)
      BY <1>7, <2>5, <3>1
    <3> QED BY <1>9, <2>2, <3>2
  <2>6. CASE i - 1 = 0
    <3>1. C[i - 1] * 100 = 0
      BY <1>4, <2>6 DEF IsSum
    <3>2. PICK a \in Nat \ {0} : a = c.topp
      BY <1>10
    <3>3. PICK b \in Nat \ {0} : b = total
      BY <1>6, <2>3
    <3>4. a * b > 0
      BY <3>2, <3>3
    <3> QED BY <3>1, <3>2, <3>3, <3>4
  <2> QED BY <1>10, <2>4, <2>5, <2>6
<1>11. CASE c.topp <= 0 \/ c.topp >= 100 \/ reach = {}
  <2>1. TopP(c, logits, total, ts) = ts
    BY <1>8, <1>11 DEF TopP
  <2>2. k \in 0 .. k /\ (c.topp > 0 => \A i \in 1 .. k : C[i - 1] < C[i]
                                        => C[i - 1] * 100 < c.topp * total)
    BY <1>10, <1>11
  <2> QED BY <1>1, <1>2, <1>5, <2>1, <2>2 DEF Nucleus
<1>12. CASE ~(c.topp <= 0 \/ c.topp >= 100 \/ reach = {})
  <2>1. reach \in SUBSET Nat /\ reach # {} /\ reach \subseteq 1 .. k
    BY <1>7, <1>12
  <2>2. PICK m : m = Min(reach)
    OBVIOUS
  <2>3. m \in reach /\ \A x \in reach : m <= x
    BY <2>1, <2>2, MinIs
  <2>4. m \in 1 .. k
    BY <2>1, <2>3
  <2>5. TopP(c, logits, total, ts) = SubSeq(ts, 1, m)
    BY <1>8, <1>12, <2>2 DEF TopP
  <2>6. ASSUME NEW i \in 1 .. m, C[i - 1] < C[i], c.topp > 0
        PROVE  C[i - 1] * 100 < c.topp * total
    <3>1. i \in 1 .. k /\ i - 1 \notin reach
      BY <2>3, <2>4
    <3> QED BY <1>10, <2>6, <3>1
  <2>7. m \in 0 .. k /\ SubSeq(ts, 1, m) = SubSeq(all, 1, m) /\ m > 0
    BY <1>2, <2>4
  <2> QED BY <1>1, <1>2, <1>5, <2>5, <2>6, <2>7 DEF Nucleus
<1> QED BY <1>11, <1>12

LEMMA FilteredIs ==
    ASSUME NEW n \in Nat \ {0}, NEW logits, Weighed(logits, n),
           NEW c, c.topk \in Int, c.minp \in Int, c.topp \in Int
    PROVE  \E m : Passing(c, logits, n, m)
<1>1. PICK all : all = Descending(logits)
  OBVIOUS
<1>2. PICK C : C = Cumulated(logits, all)
  OBVIOUS
<1>3. DOMAIN logits = 0 .. n - 1 /\ \A t \in 0 .. n - 1 : ProbOf(logits, t) \in Nat
  BY DEF Weighed
<1>4. /\ all \in Seq(0 .. n - 1) /\ Len(all) = n /\ \A i \in 1 .. n : all[i] \in 0 .. n - 1
      /\ \A i \in 1 .. n, j \in 1 .. n : i < j => logits[all[j]] <= logits[all[i]]
  BY <1>1, FirstIsBest, SMTT(30)
<1>5. ASSUME NEW i \in 1 .. n, NEW j \in 1 .. n, i < j
      PROVE  ProbOf(logits, all[j]) <= ProbOf(logits, all[i])
  BY <1>4, <1>5 DEF Weighed
<1>6. PICK k \in 0 .. n : /\ TopK(c, all) = SubSeq(all, 1, k)
                          /\ c.topk > 0 => k <= c.topk
                          /\ n > 0 => k > 0
  BY <1>4, TopKIs
<1>7. PICK ts : ts = SubSeq(all, 1, k)
  OBVIOUS
<1>8. /\ ts \in Seq(0 .. n - 1) /\ Len(ts) = k /\ \A i \in 1 .. k : ts[i] = all[i]
      /\ \A m \in 0 .. k : SubSeq(ts, 1, m) = SubSeq(all, 1, m)
  BY <1>4, <1>7, PrefixIs
<1>9. Falling(logits, ts, n)
  <2>1. \A i \in 1 .. k : i \in 1 .. n /\ ts[i] \in 0 .. n - 1
    BY <1>4, <1>8
  <2> QED BY <1>3, <1>5, <1>8, <2>1 DEF Falling
<1>10. PICK p \in 0 .. k :
         /\ MinP(c, logits, ts) = SubSeq(ts, 1, p)
         /\ c.minp <= 100 => p > 0
         /\ \A i \in 1 .. p : ProbOf(logits, ts[i]) * 100 >= c.minp * ProbOf(logits, ts[1])
  <2>1. ts # <<>>
    BY <1>6, <1>8
  <2> QED BY <1>3, <1>8, <1>9, <2>1, MinPIs, ZenonT(30)
<1>11. PICK us : us = SubSeq(all, 1, p)
  OBVIOUS
<1>12. MinP(c, logits, TopK(c, all)) = us
  BY <1>6, <1>7, <1>8, <1>10, <1>11
<1>13. PICK m \in 0 .. p :
         /\ TopP(c, logits, C[n], us) = SubSeq(all, 1, m)
         /\ p > 0 => m > 0
         /\ c.topp > 0 => \A i \in 1 .. m : C[i - 1] < C[i] => C[i - 1] * 100 < c.topp * C[n]
  <2>1. p \in 0 .. Len(all)
    BY <1>4
  <2>2. PICK m \in 0 .. p : Nucleus(c, logits, all, C, us, m)
    <3>1. Likely(logits, 0 .. n - 1)
      BY <1>3 DEF Likely
    <3> QED BY <1>2, <1>4, <1>11, <2>1, <3>1, TopPIs
  <2>3. Len(us) = p
    BY <1>4, <1>11, <2>1, PrefixIs
  <2> QED BY <1>4, <2>2, <2>3 DEF Nucleus
<1>14. Filtered(c, logits) = SubSeq(all, 1, m)
  BY <1>1, <1>2, <1>4, <1>12, <1>13 DEF Filtered, ProbSum
<1>15. m \in 0 .. n /\ (c.topk > 0 => m <= c.topk) /\ (c.minp <= 100 => m > 0)
  BY <1>6, <1>10, <1>13
<1>16. ASSUME NEW i \in 1 .. m
       PROVE  ProbOf(logits, all[i]) * 100 >= c.minp * ProbOf(logits, all[1])
  <2>1. i \in 1 .. p /\ i \in 1 .. k /\ 1 \in 1 .. k
    OBVIOUS
  <2>2. ts[i] = all[i] /\ ts[1] = all[1]
    BY <1>8, <2>1
  <2> QED BY <1>10, <2>1, <2>2
<1> QED BY <1>1, <1>2, <1>13, <1>14, <1>15, <1>16 DEF Passing

(* The most likely tokens.                                                 *)
Likeliest(logits, n, t) == t \in 0 .. n - 1 /\ \A u \in 0 .. n - 1 : logits[u] <= logits[t]

LEMMA ArgmaxIs ==
    ASSUME NEW n \in Nat \ {0}, NEW logits \in [0 .. n - 1 -> Int]
    PROVE  Likeliest(logits, n, Argmax(logits))
<1> DEFINE D == 0 .. n - 1
           P(t) == /\ \A u \in D : logits[u] <= logits[t]
                   /\ \A u \in D : u < t => logits[u] < logits[t]
<1>1. PICK t \in D : IsBest(logits, D, t)
  <2>1. D \in SUBSET (0 .. n - 1) /\ D # {}
    OBVIOUS
  <2>2. IsBest(logits, D, BestOf(logits, D))
    BY <2>1, BestExists
  <2> QED BY <2>2 DEF IsBest
<1>2. P(t)
  <2>1. \A u \in D : logits[u] \in Int
    OBVIOUS
  <2>2. ASSUME NEW u \in D, u # t PROVE Before(logits, t, u)
    BY <1>1, <2>2 DEF IsBest
  <2>3. ASSUME NEW u \in D PROVE logits[u] <= logits[t] /\ (u < t => logits[u] < logits[t])
    <3>1. CASE u = t
      BY <2>1, <3>1
    <3>2. CASE u # t
      BY <2>1, <2>2, <3>2 DEF Before
    <3> QED BY <3>1, <3>2
  <2> QED BY <2>3
<1>3. DOMAIN logits = D
  OBVIOUS
<1>4. Argmax(logits) = CHOOSE v \in D : P(v)
  BY <1>3 DEF Argmax
<1>5. Argmax(logits) \in D /\ P(Argmax(logits))
  BY <1>2, <1>4
<1> QED BY <1>5 DEF Likeliest

(* The sampler's logits under a mask.                                      *)
Eligible(logits, mask) ==
  [t \in DOMAIN logits |-> IF mask = {} THEN 0 ELSE IF t \in mask THEN logits[t] ELSE Masked]

(* What is sampled from logits: the most likely, or a token that passes    *)
(* the filters.                                                            *)
Picked(c, logits, n, t) ==
    LET all == Descending(logits)
        C   == Cumulated(logits, all)
    IN  /\ t \in 0 .. n - 1 /\ logits[t] # Masked
        /\ c.temperature <= 0 \/ c.minp > 100 => Likeliest(logits, n, t)
        /\ c.temperature > 0 /\ c.minp <= 100 =>
             \E i \in 1 .. n : /\ all[i] = t
                               /\ c.topk > 0 => i <= c.topk
                               /\ ProbOf(logits, t) * 100 >= c.minp * ProbOf(logits, all[1])
                               /\ c.topp > 0 => C[i - 1] * 100 < c.topp * C[n]

LEMMA SampleIs ==
    ASSUME NEW n \in Nat \ {0}, NEW logits, NEW mask, NEW e, e = Eligible(logits, mask),
           Weighed(e, n), \E t \in 0 .. n - 1 : e[t] # Masked,
           NEW c, c.topk \in Int, c.minp \in Int, c.topp \in Int, c.temperature \in Int,
           \A t \in 0 .. n - 1 : Draw(t) \in 0 .. 100
    PROVE  Picked(c, e, n, Sample(c, logits, mask))
<1>1. PICK all : all = Descending(e)
  OBVIOUS
<1>2. PICK C : C = Cumulated(e, all)
  OBVIOUS
<1>3. e \in [0 .. n - 1 -> Int] /\ \A t \in 0 .. n - 1 : ProbOf(e, t) \in Nat
  BY DEF Weighed
<1>4. /\ all \in Seq(0 .. n - 1) /\ Len(all) = n /\ \A i \in 1 .. n : all[i] \in 0 .. n - 1
      /\ \A u \in 0 .. n - 1 : e[u] <= e[all[1]]
  BY <1>1, FirstIsBest
<1>5. PICK m : Passing(c, e, n, m)
  BY FilteredIs
<1>6. PICK kept : kept = SubSeq(all, 1, m)
  OBVIOUS
<1>7. /\ m \in 0 .. n /\ Filtered(c, e) = kept
      /\ c.topk > 0 => m <= c.topk
      /\ c.minp <= 100 => m > 0
      /\ \A i \in 1 .. m : ProbOf(e, all[i]) * 100 >= c.minp * ProbOf(e, all[1])
      /\ c.topp > 0 => \A i \in 1 .. m : C[i - 1] < C[i] => C[i - 1] * 100 < c.topp * C[n]
  BY <1>1, <1>2, <1>5, <1>6 DEF Passing
<1>8. kept \in Seq(0 .. n - 1) /\ Len(kept) = m /\ \A i \in 1 .. m : kept[i] = all[i]
  BY <1>4, <1>6, <1>7, PrefixIs
<1>9. \A i \in 0 .. m : Cumulated(e, kept)[i] = C[i]
  <2>1. m \in 0 .. Len(all)
    BY <1>4, <1>7
  <2>2. Likely(e, 0 .. n - 1)
    BY <1>3 DEF Likely
  <2>3. SameSums(e, kept, all, m)
    BY <1>4, <1>6, <2>1, <2>2, SumOfPrefix
  <2> QED BY <1>2, <2>3 DEF SameSums
<1>10. IsSum(C, e, all)
  BY <1>2, <1>3, <1>4, SumIs DEF Likely
<1>11. ASSUME NEW t, Likeliest(e, n, t) PROVE t \in 0 .. n - 1 /\ e[t] # Masked
  <2>1. t \in 0 .. n - 1 /\ \A u \in 0 .. n - 1 : e[u] <= e[t]
    BY <1>11 DEF Likeliest
  <2>2. PICK u \in 0 .. n - 1 : e[u] # Masked
    OBVIOUS
  <2>3. e[u] >= Masked /\ e[u] \in Int /\ e[t] \in Int /\ Masked \in Int
    BY <1>3, <2>1 DEF Weighed, Masked
  <2>4. e[u] <= e[t]
    BY <2>1
  <2> QED BY <2>1, <2>2, <2>3, <2>4
<1>12. Likeliest(e, n, all[1]) /\ 1 \in 1 .. n
  BY <1>4 DEF Likeliest
<1>13. ProbOf(e, all[1]) \in Nat \ {0}
  BY <1>3, <1>11, <1>12 DEF Weighed
<1>14. Likeliest(e, n, Argmax(e))
  BY <1>3, ArgmaxIs
<1>15. PICK total : total = ProbSum(e, kept)
  OBVIOUS
<1>16. total = C[m] /\ C[m] \in Nat
  <2>1. m \in 0 .. m /\ m \in 0 .. Len(all)
    BY <1>4, <1>7
  <2> QED BY <1>8, <1>9, <1>10, <1>15, <2>1 DEF ProbSum, IsSum
<1>17. PICK d : d = Draw(kept[1]) * total
  OBVIOUS
<1>18. PICK hit : hit = { i \in 1 .. m : C[i] * 100 >= d }
  OBVIOUS
<1>19. hit = { i \in 1 .. Len(kept) : Cumulated(e, kept)[i] * 100 >= Draw(kept[1]) * total }
  <2>1. \A i \in 1 .. m : Cumulated(e, kept)[i] = C[i]
    BY <1>9
  <2> QED BY <1>8, <1>17, <1>18, <2>1
<1>20. PICK t : t = Sample(c, logits, mask)
  OBVIOUS
<1>21. t = IF c.temperature <= 0 \/ kept = <<>> \/ total = 0 THEN Argmax(e)
           ELSE IF hit = {} THEN Last(kept) ELSE kept[Min(hit)]
  BY <1>7, <1>15, <1>19, <1>20 DEF Sample, Eligible
<1>22. CASE c.temperature <= 0
  BY <1>11, <1>14, <1>20, <1>21, <1>22 DEF Picked
<1>23. CASE c.minp > 100
  <2>1. m = 0
    <3>1. SUFFICES ASSUME m > 0 PROVE FALSE
      BY <1>7
    <3>2. 1 \in 1 .. m
      BY <1>7, <3>1
    <3>3. ProbOf(e, all[1]) * 100 >= c.minp * ProbOf(e, all[1])
      BY <1>7, <3>2
    <3>4. PICK b \in Nat \ {0} : b = ProbOf(e, all[1])
      BY <1>13
    <3>5. PICK k \in Nat \ {0} : c.minp = 100 + k
      <4>1. c.minp - 100 \in Nat \ {0} /\ c.minp = 100 + (c.minp - 100)
        BY <1>23
      <4> QED BY <4>1
    <3>6. c.minp * b = b * 100 + k * b /\ k * b > 0 /\ k * b \in Nat
      BY <3>5
    <3> QED BY <3>3, <3>4, <3>6
  <2>2. kept = <<>>
    BY <1>8, <2>1
  <2>3. t = Argmax(e)
    BY <1>21, <2>2
  <2> QED BY <1>11, <1>14, <1>20, <1>23, <2>3 DEF Picked
<1>24. CASE c.temperature > 0 /\ c.minp <= 100
  <2>1. m > 0 /\ kept # <<>> /\ 1 \in 1 .. m /\ m \in 1 .. m
    BY <1>7, <1>8, <1>24
  <2>2. \A i \in 1 .. m : /\ i \in 1 .. Len(all) /\ C[i] = C[i - 1] + ProbOf(e, all[i])
                          /\ C[i] \in Nat /\ C[i - 1] \in Nat /\ C[i] <= C[m]
    <3>1. \A i \in 1 .. m : i \in 1 .. Len(all) /\ i \in 0 .. Len(all) /\ i - 1 \in 0 .. Len(all)
      BY <1>4, <1>7
    <3>2. m \in 0 .. Len(all)
      BY <1>4, <1>7
    <3> QED BY <1>10, <3>1, <3>2 DEF IsSum
  <2>3. C[1] = ProbOf(e, all[1]) /\ total > 0 /\ C[0] = 0
    <3>1. C[0] = 0 /\ C[1] = C[1 - 1] + ProbOf(e, all[1]) /\ C[1] <= C[m] /\ 1 - 1 = 0
      BY <1>10, <2>1, <2>2 DEF IsSum
    <3>2. C[1] = ProbOf(e, all[1])
      BY <1>13, <3>1
    <3> QED BY <1>13, <1>16, <3>1, <3>2
  <2>4. PICK q \in 0 .. 100 : q = Draw(kept[1])
    <3>1. kept[1] \in 0 .. n - 1
      BY <1>4, <1>8, <2>1
    <3> QED BY <3>1
  <2>5. d = q * total /\ total \in Nat /\ d \in Nat
    BY <1>16, <1>17, <2>4
  <2>6. m \in hit
    <3>1. total * q <= total * 100
      BY <1>16, <2>4, ProductGrows
    <3>2. total * q = q * total
      BY <1>16
    <3> QED BY <1>16, <1>18, <2>1, <2>5, <3>1, <3>2
  <2>7. PICK i : i = Min(hit)
    OBVIOUS
  <2>8. hit \in SUBSET Nat /\ hit # {}
    BY <1>18, <2>6
  <2>9. i \in hit /\ \A x \in hit : i <= x
    BY <2>7, <2>8, MinIs
  <2>10. i \in 1 .. m /\ C[i] * 100 >= d
    BY <1>18, <2>9
  <2>11. t = all[i]
    <3>1. t = kept[i]
      <4>1. ~(c.temperature <= 0) /\ total # 0
        BY <1>16, <1>24, <2>3
      <4> QED BY <1>21, <2>1, <2>7, <2>8, <4>1
    <3> QED BY <1>8, <2>10, <3>1
  <2>12. C[i - 1] < C[i]
    <3>1. CASE i = 1
      BY <1>13, <2>3, <3>1
    <3>2. CASE i # 1
      <4>1. i - 1 \in 1 .. m /\ i - 1 < i
        BY <1>7, <2>10, <3>2
      <4>2. i - 1 \notin hit
        BY <2>9, <2>10, <4>1
      <4>3. C[i - 1] * 100 < d
        <5>1. C[i - 1] \in Nat
          BY <2>2, <2>10
        <5> QED BY <1>18, <2>5, <4>1, <4>2, <5>1
      <4> QED BY <2>2, <2>5, <2>10, <4>3
    <3> QED BY <3>1, <3>2
  <2>13. ProbOf(e, t) # 0 /\ t \in 0 .. n - 1
    <3>1. C[i] = C[i - 1] + ProbOf(e, all[i]) /\ C[i - 1] \in Nat /\ i \in 1 .. n
      BY <1>4, <2>2, <2>10
    <3> QED BY <1>4, <2>11, <2>12, <3>1
  <2>14. e[t] # Masked
    BY <2>13 DEF Weighed
  <2>15. /\ i \in 1 .. n /\ all[i] = t /\ (c.topk > 0 => i <= c.topk)
         /\ ProbOf(e, t) * 100 >= c.minp * ProbOf(e, all[1])
         /\ c.topp > 0 => C[i - 1] * 100 < c.topp * C[n]
    BY <1>4, <1>7, <2>2, <2>10, <2>11, <2>12, SMTT(30)
  <2> QED BY <1>1, <1>2, <1>20, <1>24, <2>13, <2>14, <2>15 DEF Picked
<1> QED BY <1>22, <1>23, <1>24

-----------------------------------------------------------------------------
(* The automaton of a pattern                                              *)

Moves(CS) == [chars : CS, next : Nat]
Automata(CS) == Seq(Seq(Moves(CS))) \ {<<>>}

(* Automaton r is s with w states more, entered on chars; the last one has *)
(* the moves in last.                                                      *)
Extended(s, r, chars, w, last) ==
    /\ Len(r) = Len(s) + w
    /\ \A i \in 1 .. Len(s) - 1 : r[i] = s[i]
    /\ r[Len(s)] = Append(s[Len(s)], To(chars, Len(s)))
    /\ \A i \in Len(s) + 1 .. Len(s) + w - 1 : r[i] = <<To(chars, i)>>
    /\ r[Len(s) + w] = last

(* A move added to the last state.                                         *)
Amended(s, t) == [s EXCEPT ![Len(s)] = Append(@, t)]

LEMMA AmendedIs ==
    ASSUME NEW CS, NEW s \in Automata(CS), NEW t \in Moves(CS)
    PROVE  /\ Amended(s, t) \in Automata(CS) /\ Len(Amended(s, t)) = Len(s)
           /\ Len(s) \in Nat \ {0}
           /\ \A i \in 1 .. Len(s) - 1 : Amended(s, t)[i] = s[i]
           /\ Amended(s, t)[Len(s)] = Append(s[Len(s)], t)
<1>1. PICK T : T = Seq(Moves(CS))
  OBVIOUS
<1>2. s \in Seq(T) /\ s # <<>>
  BY <1>1 DEF Automata
<1>3. Len(s) \in Nat \ {0} /\ Len(s) \in 1 .. Len(s) /\ s[Len(s)] \in T
  BY <1>2
<1>4. Append(s[Len(s)], t) \in T
  BY <1>1, <1>3
<1>5. PICK r : r = [s EXCEPT ![Len(s)] = Append(s[Len(s)], t)]
  OBVIOUS
<1>6. r \in Seq(T) /\ Len(r) = Len(s)
  BY <1>2, <1>4, <1>5
<1>7. /\ \A i \in 1 .. Len(s) - 1 : r[i] = s[i]
      /\ r[Len(s)] = Append(s[Len(s)], t)
  BY <1>2, <1>3, <1>5
<1>8. r # <<>>
  BY <1>3, <1>6
<1>9. Amended(s, t) = r
  BY <1>5 DEF Amended
<1> QED BY <1>1, <1>3, <1>6, <1>7, <1>8, <1>9 DEF Automata

LEMMA ToIs ==
    ASSUME NEW CS, NEW chars \in CS, NEW n \in Nat
    PROVE  To(chars, n) \in Moves(CS) /\ To(chars, n).chars = chars /\ To(chars, n).next = n
  BY DEF To, Moves

(* One state more.                                                         *)
LEMMA ChainedIs ==
    ASSUME NEW CS, NEW s \in Automata(CS), NEW chars \in CS
    PROVE  Chained(s, chars) \in Automata(CS) /\ Extended(s, Chained(s, chars), chars, 1, <<>>)
<1>1. s \in Seq(Seq(Moves(CS))) /\ Len(s) \in Nat
  BY DEF Automata
<1>2. PICK a : a = Amended(s, To(chars, Len(s)))
  OBVIOUS
<1>12. To(chars, Len(s)) \in Moves(CS)
  BY <1>1, ToIs
<1>3. /\ a \in Automata(CS) /\ Len(a) = Len(s) /\ Len(s) \in Nat \ {0}
      /\ \A i \in 1 .. Len(s) - 1 : a[i] = s[i]
      /\ a[Len(s)] = Append(s[Len(s)], To(chars, Len(s)))
  BY <1>2, <1>12, AmendedIs
<1>4. PICK T : T = Seq(Moves(CS))
  OBVIOUS
<1>5. a \in Seq(T) /\ <<>> \in T
  BY <1>3, <1>4 DEF Automata
<1>6. PICK r : r = Append(a, <<>>)
  OBVIOUS
<1>7. /\ r \in Seq(T) /\ Len(r) = Len(a) + 1 /\ r[Len(a) + 1] = <<>>
      /\ \A i \in 1 .. Len(a) : r[i] = a[i]
  BY <1>5, <1>6
<1>8. r # <<>>
  BY <1>3, <1>7
<1>9. Chained(s, chars) = r
  BY <1>2, <1>6 DEF Chained, Amended
<1>10. /\ \A i \in 1 .. Len(s) - 1 : r[i] = s[i]
       /\ r[Len(s)] = Append(s[Len(s)], To(chars, Len(s)))
       /\ Len(s) + 1 .. Len(s) + 1 - 1 = {}
  BY <1>3, <1>7
<1>11. Extended(s, r, chars, 1, <<>>)
  BY <1>3, <1>7, <1>10 DEF Extended
<1> QED BY <1>4, <1>7, <1>8, <1>9, <1>11 DEF Automata

(* And one more behind it.                                                 *)
LEMMA ChainedFurther ==
    ASSUME NEW CS, NEW s \in Automata(CS), NEW chars \in CS,
           NEW r \in Automata(CS), NEW w \in Nat \ {0}, Extended(s, r, chars, w, <<>>)
    PROVE  /\ Chained(r, chars) \in Automata(CS)
           /\ Extended(s, Chained(r, chars), chars, w + 1, <<>>)
<1>1. PICK q : q = Chained(r, chars)
  OBVIOUS
<1>2. q \in Automata(CS) /\ Extended(r, q, chars, 1, <<>>)
  BY <1>1, ChainedIs
<1>3. Len(s) \in Nat \ {0} /\ Len(r) = Len(s) + w
  BY DEF Automata, Extended
<1>4. Len(q) = Len(s) + (w + 1)
  BY <1>2, <1>3 DEF Extended
<1>5. \A i \in 1 .. Len(r) - 1 : q[i] = r[i]
  BY <1>2 DEF Extended
<1>6. \A i \in 1 .. Len(s) : i \in 1 .. Len(r) - 1
  BY <1>3
<1>7. \A i \in 1 .. Len(s) - 1 : q[i] = s[i]
  <2>1. \A i \in 1 .. Len(s) - 1 : i \in 1 .. Len(s) /\ r[i] = s[i]
    BY <1>3 DEF Extended
  <2> QED BY <1>5, <1>6, <2>1
<1>8. q[Len(s)] = Append(s[Len(s)], To(chars, Len(s)))
  <2>1. Len(s) \in 1 .. Len(s)
    BY <1>3
  <2> QED BY <1>5, <1>6, <2>1 DEF Extended
<1>9. ASSUME NEW i \in Len(s) + 1 .. Len(s) + (w + 1) - 1 PROVE q[i] = <<To(chars, i)>>
  <2>1. CASE i = Len(r)
    <3>1. q[i] = Append(<<>>, To(chars, i))
      BY <1>2, <1>3, <2>1 DEF Extended
    <3> QED BY <3>1
  <2>2. CASE i # Len(r)
    <3>1. i \in 1 .. Len(r) - 1 /\ i \in Len(s) + 1 .. Len(s) + w - 1
      BY <1>3, <2>2
    <3> QED BY <1>5, <3>1 DEF Extended
  <2> QED BY <2>1, <2>2
<1>10. q[Len(s) + (w + 1)] = <<>>
  <2>1. Len(r) + 1 = Len(s) + (w + 1)
    BY <1>3
  <2> QED BY <1>2, <2>1 DEF Extended
<1> QED BY <1>1, <1>2, <1>4, <1>7, <1>8, <1>9, <1>10 DEF Extended

(* Another move of the last state.                                         *)
LEMMA AmendedExtends ==
    ASSUME NEW CS, NEW s \in Automata(CS), NEW chars, NEW r \in Automata(CS),
           NEW w \in Nat \ {0}, NEW last, Extended(s, r, chars, w, last),
           NEW t \in Moves(CS)
    PROVE  /\ Amended(r, t) \in Automata(CS)
           /\ Extended(s, Amended(r, t), chars, w, Append(last, t))
<1>1. PICK q : q = Amended(r, t)
  OBVIOUS
<1>2. /\ q \in Automata(CS) /\ Len(q) = Len(r)
      /\ \A i \in 1 .. Len(r) - 1 : q[i] = r[i]
      /\ q[Len(r)] = Append(r[Len(r)], t)
  BY <1>1, AmendedIs
<1>3. Len(s) \in Nat \ {0} /\ Len(r) = Len(s) + w
  BY DEF Automata, Extended
<1>4. \A i \in 1 .. Len(s) + w - 1 : q[i] = r[i]
  BY <1>2, <1>3
<1>5. /\ \A i \in 1 .. Len(s) - 1 : i \in 1 .. Len(s) + w - 1
      /\ Len(s) \in 1 .. Len(s) + w - 1
      /\ \A i \in Len(s) + 1 .. Len(s) + w - 1 : i \in 1 .. Len(s) + w - 1
  BY <1>3
<1>6. \A i \in 1 .. Len(s) - 1 : q[i] = s[i]
  BY <1>4, <1>5 DEF Extended
<1>7. q[Len(s)] = Append(s[Len(s)], To(chars, Len(s)))
  BY <1>4, <1>5 DEF Extended
<1>8. \A i \in Len(s) + 1 .. Len(s) + w - 1 : q[i] = <<To(chars, i)>>
  BY <1>4, <1>5 DEF Extended
<1>9. q[Len(s) + w] = Append(last, t)
  BY <1>2, <1>3 DEF Extended
<1> QED BY <1>1, <1>2, <1>3, <1>6, <1>7, <1>8, <1>9 DEF Extended

(* So many states in a row.                                                *)
LEMMA CopiesIs ==
    ASSUME NEW CS, NEW s \in Automata(CS), NEW chars \in CS, NEW n \in Nat
    PROVE  /\ Copies(s, chars, n) \in Automata(CS)
           /\ Extended(s, Copies(s, chars, n), chars, IF n > 1 THEN n ELSE 1, <<>>)
<1> DEFINE V == Automata(CS)
           F == [iv \in (0 .. n - 1) \X V |-> IF iv[1] = 0 THEN Chained(s, chars)
                                                         ELSE Chained(iv[2], chars)]
           Eqn(h) == h = [k \in 0 .. n |-> IF k <= 1 THEN Chained(s, chars)
                                           ELSE Chained(h[k - 1], chars)]
<1>1. PICK b \in V : b = Chained(s, chars)
  BY ChainedIs
<1>2. ASSUME NEW i \in 0 .. n - 1, NEW v \in V
      PROVE  F[<<i, v>>] = (IF i = 0 THEN b ELSE Chained(v, chars)) /\ F[<<i, v>>] \in V
  <2>1. F[<<i, v>>] = (IF i = 0 THEN b ELSE Chained(v, chars))
    BY <1>1
  <2>2. Chained(v, chars) \in V
    BY ChainedIs
  <2> HIDE DEF F, V
  <2> QED BY <2>1, <2>2
<1> HIDE DEF F, V
<1>3. PICK f : IsRec(f, n, b, F, V)
  BY <1>2, RecUpTo
<1>4. f \in [0 .. n -> V] /\ f[0] = b
  BY <1>3 DEF IsRec
<1>5. ASSUME NEW k \in 0 .. n PROVE f[k] = IF k <= 1 THEN b ELSE Chained(f[k - 1], chars)
  <2>1. CASE k = 0
    BY <1>4, <2>1
  <2>2. CASE k # 0
    <3>1. k - 1 \in 0 .. n - 1 /\ (k - 1) + 1 = k /\ k - 1 \in 0 .. n
      BY <2>2
    <3>2. f[(k - 1) + 1] = F[<<k - 1, f[k - 1]>>] /\ f[k - 1] \in V
      BY <1>3, <1>4, <3>1 DEF IsRec
    <3>3. f[k] = IF k - 1 = 0 THEN b ELSE Chained(f[k - 1], chars)
      BY <1>2, <3>1, <3>2
    <3>4. k - 1 = 0 <=> k <= 1
      BY <2>2
    <3> QED BY <3>3, <3>4
  <2> QED BY <2>1, <2>2
<1>6. Eqn(f)
  BY <1>1, <1>4, <1>5
<1> DEFINE h == CHOOSE h : Eqn(h)
<1>7. Eqn(h)
  BY <1>6
<1>8. Copies(s, chars, n) = h[n]
  BY DEF Copies
<1> HIDE DEF h
<1>9. \A k \in 0 .. n : h[k] = IF k <= 1 THEN b ELSE Chained(h[k - 1], chars)
  BY <1>1, <1>7
<1> DEFINE S == {k \in Nat : k <= n => h[k] \in V /\ Extended(s, h[k], chars, IF k > 1 THEN k ELSE 1, <<>>)}
<1>10. b \in V /\ Extended(s, b, chars, 1, <<>>)
  BY <1>1, ChainedIs
<1>11. 0 \in S
  <2>1. h[0] = b /\ (IF 0 > 1 THEN 0 ELSE 1) = 1
    BY <1>9
  <2> QED BY <1>10, <2>1
<1>12. ASSUME NEW k \in Nat, k \in S PROVE k + 1 \in S
  <2> SUFFICES ASSUME k + 1 <= n
               PROVE  /\ h[k + 1] \in V
                      /\ Extended(s, h[k + 1], chars, IF k + 1 > 1 THEN k + 1 ELSE 1, <<>>)
    OBVIOUS
  <2>1. k + 1 \in 0 .. n /\ (k + 1) - 1 = k
    OBVIOUS
  <2>2. CASE k = 0
    <3>1. h[k + 1] = b /\ (IF k + 1 > 1 THEN k + 1 ELSE 1) = 1
      BY <1>9, <2>1, <2>2
    <3> QED BY <1>10, <3>1
  <2>3. CASE k # 0
    <3>1. h[k] \in V /\ Extended(s, h[k], chars, IF k > 1 THEN k ELSE 1, <<>>)
      BY <1>12
    <3>2. (IF k > 1 THEN k ELSE 1) = k /\ (IF k + 1 > 1 THEN k + 1 ELSE 1) = k + 1
      BY <2>3
    <3>3. h[k + 1] = Chained(h[k], chars)
      BY <1>9, <2>1, <2>3
    <3>4. PICK r \in Automata(CS) : r = h[k]
      BY <3>1 DEF V
    <3>5. Extended(s, r, chars, k, <<>>)
      BY <3>1, <3>2, <3>4
    <3>6. Chained(r, chars) \in Automata(CS) /\ Extended(s, Chained(r, chars), chars, k + 1, <<>>)
      BY <2>3, <3>5, ChainedFurther
    <3> QED BY <3>2, <3>3, <3>4, <3>6 DEF V
  <2> QED BY <2>2, <2>3
<1> HIDE DEF S
<1>13. Nat \subseteq S
  BY <1>11, <1>12, SetInduction
<1>14. h[n] \in V /\ Extended(s, h[n], chars, IF n > 1 THEN n ELSE 1, <<>>)
  BY <1>13 DEF S
<1> QED BY <1>8, <1>14 DEF V

(* How many states an element adds, and the moves of the last of them,     *)
(* number n.                                                               *)
Width(el) == IF el.kind = "class" /\ el.rep = "count" /\ el.count > 1 THEN el.count ELSE 1

Closing(el, n) ==
  IF el.kind = "class" /\ el.rep = "plus" THEN <<To(Keys(el), n)>>
  ELSE IF el.kind = "class" /\ el.rep = "star" THEN <<To(Keys(el), n), To({"."}, n + 1)>>
  ELSE <<>>

LEMMA LoopedIs ==
    ASSUME NEW CS, NEW s \in Automata(CS), NEW chars \in CS
    PROVE  /\ Looped(Chained(s, chars), chars) \in Automata(CS)
           /\ Extended(s, Looped(Chained(s, chars), chars), chars, 1, <<To(chars, Len(s))>>)
<1>1. PICK r : r = Chained(s, chars)
  OBVIOUS
<1>2. r \in Automata(CS) /\ Extended(s, r, chars, 1, <<>>)
  BY <1>1, ChainedIs
<1>3. Len(s) \in Nat /\ Len(r) - 1 = Len(s)
  BY <1>2 DEF Automata, Extended
<1>4. PICK t : t = To(chars, Len(s))
  OBVIOUS
<1>5. t \in Moves(CS)
  BY <1>3, <1>4, ToIs
<1>6. Looped(r, chars) = Amended(r, t)
  BY <1>3, <1>4 DEF Looped, Amended
<1>7. 1 \in Nat \ {0} /\ Append(<<>>, t) = <<t>>
  OBVIOUS
<1>8. Amended(r, t) \in Automata(CS) /\ Extended(s, Amended(r, t), chars, 1, Append(<<>>, t))
  BY <1>2, <1>5, <1>7, AmendedExtends
<1> QED BY <1>1, <1>4, <1>6, <1>7, <1>8

LEMMA AddIs ==
    ASSUME NEW CS, {"."} \in CS, NEW s \in Automata(CS), NEW el, Shaped(el),
           el.kind # "repeat", Keys(el) \in CS
    PROVE  /\ AddElement(s, el) \in Automata(CS)
           /\ Width(el) \in Nat \ {0}
           /\ Extended(s, AddElement(s, el), Keys(el), Width(el),
                       Closing(el, Len(s) + Width(el) - 1))
<1>1. Len(s) \in Nat
  BY DEF Automata
<1>2. PICK K \in CS : K = Keys(el)
  OBVIOUS
<1>3. CASE el.kind \in {"any", "lit"}
  <2>1. el.kind # "class"
    BY <1>3
  <2>2. AddElement(s, el) = Chained(s, K) /\ Width(el) = 1
        /\ Closing(el, Len(s) + Width(el) - 1) = <<>>
    BY <1>2, <1>3, <2>1 DEF AddElement, Width, Closing
  <2> QED BY <1>2, <2>2, ChainedIs
<1>4. CASE el.kind = "class" /\ el.rep = "one"
  <2>1. AddElement(s, el) = Chained(s, K) /\ Width(el) = 1
        /\ Closing(el, Len(s) + Width(el) - 1) = <<>>
    BY <1>2, <1>4 DEF AddElement, Width, Closing
  <2> QED BY <1>2, <2>1, ChainedIs
<1>5. CASE el.kind = "class" /\ el.rep = "count"
  <2>1. PICK n \in Nat : n = el.count
    BY <1>5 DEF Shaped
  <2>2. AddElement(s, el) = Copies(s, K, n) /\ Width(el) = (IF n > 1 THEN n ELSE 1)
        /\ Closing(el, Len(s) + Width(el) - 1) = <<>>
    BY <1>2, <1>5, <2>1 DEF AddElement, Width, Closing
  <2>3. Width(el) \in Nat \ {0}
    BY <2>2
  <2> QED BY <1>2, <2>2, <2>3, CopiesIs
<1>6. PICK r : r = Looped(Chained(s, K), K)
  OBVIOUS
<1>7. r \in Automata(CS) /\ Extended(s, r, K, 1, <<To(K, Len(s))>>)
  BY <1>2, <1>6, LoopedIs
<1>8. CASE el.kind = "class" /\ el.rep = "plus"
  <2>1. AddElement(s, el) = r /\ Width(el) = 1
    BY <1>2, <1>6, <1>8 DEF AddElement, Width
  <2>2. Len(s) + Width(el) - 1 = Len(s)
    BY <1>1, <2>1
  <2>3. Closing(el, Len(s) + Width(el) - 1) = <<To(K, Len(s))>>
    BY <1>2, <1>8, <2>2 DEF Closing
  <2> QED BY <1>2, <1>7, <2>1, <2>3
<1>9. CASE el.kind = "class" /\ el.rep = "star"
  <2>1. PICK t : t = To({"."}, Len(r))
    OBVIOUS
  <2>2. Len(r) = Len(s) + 1 /\ Len(r) \in Nat
    BY <1>1, <1>7 DEF Extended
  <2>3. t \in Moves(CS)
    BY <2>1, <2>2, ToIs
  <2>4. AddElement(s, el) = Amended(r, t) /\ Width(el) = 1
    BY <1>2, <1>6, <1>9, <2>1 DEF AddElement, Width, Amended
  <2>5. Len(s) + Width(el) - 1 = Len(s)
    BY <1>1, <2>4
  <2>6. PICK u : u = To(K, Len(s))
    OBVIOUS
  <2>7. Closing(el, Len(s) + Width(el) - 1) = <<u, t>>
    BY <1>2, <1>9, <2>1, <2>2, <2>5, <2>6 DEF Closing
  <2>8. Append(<<u>>, t) = <<u, t>> /\ 1 \in Nat \ {0}
    <3>1. u \in Moves(CS)
      BY <1>1, <2>6, ToIs
    <3>2. PICK M : M = Moves(CS)
      OBVIOUS
    <3>3. PICK p : p = <<u>>
      OBVIOUS
    <3>4. p \in Seq(M) /\ Len(p) = 1 /\ p[1] = u /\ t \in M
      BY <2>3, <3>1, <3>2, <3>3
    <3>5. PICK q : q = Append(p, t)
      OBVIOUS
    <3>6. q \in Seq(M) /\ Len(q) = 2 /\ q[1] = u /\ q[2] = t
      BY <3>4, <3>5
    <3>7. q = <<u, t>>
      BY <3>6
    <3>8. Append(<<u>>, t) = <<u, t>>
      BY <3>3, <3>5, <3>7, Zenon
    <3> QED BY <3>8
  <2>9. Amended(r, t) \in Automata(CS) /\ Extended(s, Amended(r, t), K, 1, Append(<<u>>, t))
    BY <1>7, <2>3, <2>6, <2>8, AmendedExtends
  <2> QED BY <1>2, <2>4, <2>7, <2>8, <2>9
<1> QED BY <1>3, <1>4, <1>5, <1>8, <1>9 DEF Shaped

-----------------------------------------------------------------------------
(* The patterns the parser makes, and the character sets of their moves.   *)
KeySets(pattern) == {{"."}} \cup { Keys(pattern[i]) : i \in 1 .. Len(pattern) }

(* The automaton after each element.                                       *)
IsBuilt(B, pattern) ==
    /\ B[0] = << <<>> >>
    /\ \A i \in 1 .. Len(pattern) : B[i] = AddElement(B[i - 1], pattern[i])
    /\ \A i \in 0 .. Len(pattern) : B[i] \in Automata(KeySets(pattern))

LEMMA BuiltIs ==
    ASSUME NEW pattern, PatternShaped(pattern)
    PROVE  IsBuilt(Built(pattern), pattern)
<1>1. PICK n \in Nat : n = Len(pattern)
  BY DEF PatternShaped
<1>2. PICK CS : CS = KeySets(pattern)
  OBVIOUS
<1>3. {"."} \in CS /\ \A i \in 1 .. n : Keys(pattern[i]) \in CS
  BY <1>1, <1>2 DEF KeySets
<1> DEFINE V == Automata(CS)
           F == [iv \in (0 .. n - 1) \X V |-> AddElement(iv[2], pattern[iv[1] + 1])]
           Eqn(h) == h = [i \in 0 .. n |-> IF i = 0 THEN << <<>> >>
                                           ELSE AddElement(h[i - 1], pattern[i])]
<1>4. ASSUME NEW i \in 1 .. n, NEW v \in V PROVE AddElement(v, pattern[i]) \in V
  <2>1. Shaped(pattern[i])
    BY <1>1 DEF PatternShaped
  <2>2. CASE pattern[i].kind = "repeat"
    BY <2>2 DEF AddElement
  <2>3. CASE pattern[i].kind # "repeat"
    BY <1>3, <2>1, <2>3, AddIs
  <2> QED BY <2>2, <2>3
<1>5. ASSUME NEW i \in 0 .. n - 1, NEW v \in V
      PROVE  F[<<i, v>>] = AddElement(v, pattern[i + 1]) /\ F[<<i, v>>] \in V
  <2>1. F[<<i, v>>] = AddElement(v, pattern[i + 1]) /\ i + 1 \in 1 .. n
    OBVIOUS
  <2> HIDE DEF F, V
  <2> QED BY <1>4, <2>1
<1>6. << <<>> >> \in V
  <2>1. <<>> \in Seq(Moves(CS))
    OBVIOUS
  <2>2. << <<>> >> \in Seq(Seq(Moves(CS))) /\ << <<>> >> # <<>>
    BY <2>1
  <2> QED BY <2>2 DEF Automata
<1> HIDE DEF F, V
<1>7. PICK f : IsRec(f, n, << <<>> >>, F, V)
  BY <1>5, <1>6, RecUpTo
<1>8. f \in [0 .. n -> V] /\ f[0] = << <<>> >>
  BY <1>7 DEF IsRec
<1>9. ASSUME NEW i \in 0 .. n, i # 0 PROVE f[i] = AddElement(f[i - 1], pattern[i])
  <2>1. i - 1 \in 0 .. n - 1 /\ (i - 1) + 1 = i /\ i - 1 \in 0 .. n
    BY <1>9
  <2>2. f[(i - 1) + 1] = F[<<i - 1, f[i - 1]>>] /\ f[i - 1] \in V
    BY <1>7, <1>8, <2>1 DEF IsRec
  <2>3. F[<<i - 1, f[i - 1]>>] = AddElement(f[i - 1], pattern[(i - 1) + 1])
    BY <1>5, <2>1, <2>2
  <2> QED BY <2>1, <2>2, <2>3
<1>10. Eqn(f)
  BY <1>8, <1>9
<1> DEFINE h == CHOOSE h : Eqn(h)
<1>11. Eqn(h)
  BY <1>10
<1>12. Built(pattern) = h
  BY <1>1 DEF Built
<1> HIDE DEF h
<1>13. h[0] = << <<>> >> /\ \A i \in 1 .. n : h[i] = AddElement(h[i - 1], pattern[i])
  BY <1>11
<1> DEFINE S == {i \in Nat : i <= n => h[i] \in V}
<1>14. 0 \in S
  BY <1>6, <1>13
<1>15. ASSUME NEW i \in Nat, i \in S PROVE i + 1 \in S
  <2> SUFFICES ASSUME i + 1 <= n PROVE h[i + 1] \in V
    OBVIOUS
  <2>1. i + 1 \in 1 .. n /\ (i + 1) - 1 = i /\ h[i] \in V
    BY <1>15
  <2>2. h[i + 1] = AddElement(h[i], pattern[i + 1])
    BY <1>13, <2>1
  <2> QED BY <1>4, <2>1, <2>2
<1> HIDE DEF S
<1>16. Nat \subseteq S
  BY <1>14, <1>15, SetInduction
<1>17. \A i \in 0 .. n : h[i] \in V
  BY <1>16 DEF S
<1> QED BY <1>1, <1>2, <1>12, <1>13, <1>17 DEF IsBuilt, V

(* A move stays in its state, whose number is one less than its index, or  *)
(* goes to the next.                                                       *)
Forward(s) ==
  \A i \in 1 .. Len(s) : \A j \in 1 .. Len(s[i]) : s[i][j].next \in {i - 1, i}

LEMMA ClosingIs ==
    ASSUME NEW CS, {"."} \in CS, NEW el, Keys(el) \in CS, NEW n \in Nat
    PROVE  /\ Closing(el, n) \in Seq(Moves(CS))
           /\ \A j \in 1 .. Len(Closing(el, n)) : Closing(el, n)[j].next \in {n, n + 1}
           /\ el.kind = "class" /\ el.rep = "plus" =>
                /\ Len(Closing(el, n)) = 1
                /\ Closing(el, n)[1].next = n /\ Closing(el, n)[1].chars = Keys(el)
           /\ ~(el.kind = "class" /\ el.rep \in {"plus", "star"}) => Closing(el, n) = <<>>
<1>1. PICK K \in CS : K = Keys(el)
  OBVIOUS
<1>2. PICK t : t = To(K, n)
  OBVIOUS
<1>3. PICK u : u = To({"."}, n + 1)
  OBVIOUS
<1>4. t \in Moves(CS) /\ t.next = n /\ t.chars = K /\ u \in Moves(CS) /\ u.next = n + 1
  BY <1>1, <1>2, <1>3, ToIs
<1>5. CASE el.kind = "class" /\ el.rep = "plus"
  <2>1. Closing(el, n) = <<t>>
    BY <1>1, <1>2, <1>5 DEF Closing
  <2> QED BY <1>1, <1>4, <1>5, <2>1
<1>6. CASE el.kind = "class" /\ el.rep = "star"
  <2>1. Closing(el, n) = <<t, u>>
    BY <1>1, <1>2, <1>3, <1>6 DEF Closing
  <2>2. <<t, u>> \in Seq(Moves(CS)) /\ Len(<<t, u>>) = 2
        /\ <<t, u>>[1] = t /\ <<t, u>>[2] = u
    BY <1>4
  <2>3. \A j \in 1 .. 2 : j = 1 \/ j = 2
    OBVIOUS
  <2> QED BY <1>4, <1>6, <2>1, <2>2, <2>3
<1>7. CASE ~(el.kind = "class" /\ el.rep \in {"plus", "star"})
  <2>1. Closing(el, n) = <<>>
    BY <1>7 DEF Closing
  <2> QED BY <1>7, <2>1
<1> QED BY <1>5, <1>6, <1>7

LEMMA ExtendedForward ==
    ASSUME NEW CS, NEW s \in Automata(CS), Forward(s), NEW chars \in CS,
           NEW r \in Automata(CS), NEW w \in Nat \ {0}, NEW last \in Seq(Moves(CS)),
           Extended(s, r, chars, w, last),
           \A j \in 1 .. Len(last) : last[j].next \in {Len(s) + w - 1, Len(s) + w}
    PROVE  Forward(r)
<1>1. PICK L \in Nat \ {0} : L = Len(s)
  BY DEF Automata
<1>2. /\ Len(r) = L + w /\ \A i \in 1 .. L - 1 : r[i] = s[i]
      /\ r[L] = Append(s[L], To(chars, L))
      /\ \A i \in L + 1 .. L + w - 1 : r[i] = <<To(chars, i)>>
      /\ r[L + w] = last
  BY <1>1 DEF Extended
<1>3. \A i \in 1 .. L : s[i] \in Seq(Moves(CS))
  BY <1>1 DEF Automata
<1>4. \A i \in 1 .. L : \A j \in 1 .. Len(s[i]) : s[i][j].next \in {i - 1, i}
  BY <1>1 DEF Forward
<1>5. SUFFICES ASSUME NEW i \in 1 .. L + w, NEW j \in 1 .. Len(r[i])
               PROVE  r[i][j].next \in {i - 1, i}
  BY <1>2 DEF Forward
<1>6. CASE i \in 1 .. L - 1
  <2>1. i \in 1 .. L /\ r[i] = s[i]
    BY <1>2, <1>6
  <2> QED BY <1>4, <2>1
<1>7. CASE i = L
  <2>1. PICK t \in Moves(CS) : t = To(chars, L) /\ t.next = L
    BY ToIs, ZenonT(30)
  <2>2. r[i] = Append(s[L], t) /\ L \in 1 .. L /\ s[L] \in Seq(Moves(CS))
    BY <1>2, <1>3, <1>7, <2>1
  <2>3. j = Len(s[L]) + 1 \/ j \in 1 .. Len(s[L])
    BY <2>2
  <2>4. CASE j = Len(s[L]) + 1
    BY <1>7, <2>1, <2>2, <2>4
  <2>5. CASE j \in 1 .. Len(s[L])
    <3>1. r[i][j] = s[L][j]
      BY <2>2, <2>5
    <3> QED BY <1>4, <1>7, <2>2, <2>5, <3>1
  <2> QED BY <2>3, <2>4, <2>5
<1>8. CASE i \in L + 1 .. L + w - 1
  <2>1. PICK t \in Moves(CS) : t = To(chars, i) /\ t.next = i
    <3>1. i \in Nat
      OBVIOUS
    <3> QED BY <3>1, ToIs, ZenonT(30)
  <2>2. r[i] = <<t>>
    BY <1>2, <1>8, <2>1
  <2>3. r[i][j] = t
    BY <2>2
  <2> QED BY <2>1, <2>3
<1>9. CASE i = L + w
  BY <1>1, <1>2, <1>9
<1> QED BY <1>6, <1>7, <1>8, <1>9

LEMMA BuiltForward ==
    ASSUME NEW pattern, PatternShaped(pattern)
    PROVE  \A i \in 0 .. Len(pattern) : Forward(Built(pattern)[i])
<1>1. PICK n \in Nat : n = Len(pattern)
  BY DEF PatternShaped
<1>2. PICK CS : CS = KeySets(pattern)
  OBVIOUS
<1>3. {"."} \in CS /\ \A i \in 1 .. n : Keys(pattern[i]) \in CS
  BY <1>1, <1>2 DEF KeySets
<1>4. PICK B : B = Built(pattern)
  OBVIOUS
<1>5. /\ B[0] = << <<>> >>
      /\ \A i \in 1 .. n : B[i] = AddElement(B[i - 1], pattern[i])
      /\ \A i \in 0 .. n : B[i] \in Automata(CS)
  BY <1>1, <1>2, <1>4, BuiltIs DEF IsBuilt
<1> DEFINE S == {i \in Nat : i <= n => Forward(B[i])}
<1>6. 0 \in S
  <2>1. Len(<< <<>> >>) = 1 /\ << <<>> >>[1] = <<>> /\ Len(<<>>) = 0
    OBVIOUS
  <2>2. Forward(B[0])
    BY <1>5, <2>1 DEF Forward
  <2> QED BY <2>2
<1>7. ASSUME NEW i \in Nat, i \in S PROVE i + 1 \in S
  <2> SUFFICES ASSUME i + 1 <= n PROVE Forward(B[i + 1])
    OBVIOUS
  <2>1. i + 1 \in 1 .. n /\ (i + 1) - 1 = i /\ i \in 0 .. n /\ i + 1 \in 0 .. n
    OBVIOUS
  <2>2. PICK s \in Automata(CS) : s = B[i]
    BY <1>5, <2>1
  <2>3. PICK el : el = pattern[i + 1]
    OBVIOUS
  <2>4. PICK r \in Automata(CS) : r = B[i + 1]
    BY <1>5, <2>1
  <2>5. Forward(s) /\ r = AddElement(s, el) /\ Shaped(el) /\ Keys(el) \in CS
    BY <1>1, <1>3, <1>5, <1>7, <2>1, <2>2, <2>3, <2>4 DEF PatternShaped
  <2>6. CASE el.kind = "repeat"
    BY <2>4, <2>5, <2>6 DEF AddElement
  <2>7. CASE el.kind # "repeat"
    <3>1. PICK w \in Nat \ {0} : w = Width(el)
      BY <1>3, <2>5, <2>7, AddIs
    <3>2. Extended(s, r, Keys(el), w, Closing(el, Len(s) + w - 1))
      BY <1>3, <2>5, <2>7, <3>1, AddIs
    <3>3. PICK m \in Nat : m = Len(s) + w - 1 /\ m + 1 = Len(s) + w
      <4>1. Len(s) \in Nat
        BY DEF Automata
      <4>2. Len(s) + w - 1 \in Nat /\ (Len(s) + w - 1) + 1 = Len(s) + w
        BY <4>1
      <4> QED BY <4>2
    <3>4. PICK last \in Seq(Moves(CS)) : last = Closing(el, m)
      BY <1>3, <2>5, ClosingIs
    <3>5. \A j \in 1 .. Len(last) : last[j].next \in {m, m + 1}
      BY <1>3, <2>5, <3>4, ClosingIs
    <3> QED BY <2>4, <2>5, <3>2, <3>3, <3>4, <3>5, ExtendedForward
  <2> QED BY <2>6, <2>7
<1> HIDE DEF S
<1>8. Nat \subseteq S
  BY <1>6, <1>7, SetInduction
<1> QED BY <1>1, <1>4, <1>8 DEF S

-----------------------------------------------------------------------------
(* Steps and walks                                                         *)

(* A state that is not past the end moves on by a transition that matches. *)
Takes(states, s, ch, next) ==
    /\ s \in 0 .. Len(states) - 1
    /\ \E j \in 1 .. Len(states[s + 1]) : Matches(states[s + 1][j], ch) /\ states[s + 1][j].next = next

LEMMA StepFromIs ==
    ASSUME NEW CS, NEW states \in Automata(CS), NEW s, NEW ch
    PROVE  \/ StepFrom(states, s, ch) = Blocked
           \/ Takes(states, s, ch, StepFrom(states, s, ch))
<1>1. CASE s \notin 0 .. Len(states) - 1
  BY <1>1 DEF StepFrom
<1>2. CASE s \in 0 .. Len(states) - 1
  <2>1. PICK ts : ts = states[s + 1]
    OBVIOUS
  <2>2. Len(states) \in Nat
    BY DEF Automata
  <2>3. PICK fits : fits = { i \in 1 .. Len(ts) : Matches(ts[i], ch) }
    OBVIOUS
  <2>4. CASE fits = {}
    BY <1>2, <2>1, <2>3, <2>4 DEF StepFrom
  <2>5. CASE fits # {}
    <3>1. fits \in SUBSET Nat
      BY <2>3
    <3>2. PICK m : m = CHOOSE i \in fits : \A j \in fits : i <= j
      OBVIOUS
    <3>3. m \in fits
      <4>1. Min(fits) \in fits /\ \A j \in fits : Min(fits) <= j
        BY <2>5, <3>1, MinIs
      <4> QED BY <3>2, <4>1
    <3>4. StepFrom(states, s, ch) = ts[m].next
      BY <1>2, <2>1, <2>3, <2>5, <3>2 DEF StepFrom
    <3>5. m \in 1 .. Len(ts) /\ Matches(ts[m], ch)
      BY <2>3, <3>3
    <3> QED BY <1>2, <2>1, <3>4, <3>5 DEF Takes
  <2> QED BY <2>4, <2>5
<1> QED BY <1>1, <1>2

LEMMA MovedForward ==
    ASSUME NEW states, Forward(states), NEW s, NEW ch, NEW next, Takes(states, s, ch, next),
           Len(states) \in Nat
    PROVE  next \in {s, s + 1} /\ s \in Nat /\ next \in Nat
<1>1. s \in 0 .. Len(states) - 1 /\ s \in Nat
  BY DEF Takes
<1>2. s + 1 \in 1 .. Len(states) /\ (s + 1) - 1 = s
  BY <1>1
<1>3. PICK j \in 1 .. Len(states[s + 1]) : states[s + 1][j].next = next
  BY DEF Takes
<1>4. states[s + 1][j].next \in {(s + 1) - 1, s + 1}
  BY <1>2, <1>3 DEF Forward
<1> QED BY <1>1, <1>2, <1>3, <1>4

(* The states on a token's way.                                            *)
IsWalk(a, states, s, tok) ==
    /\ a[0] = s
    /\ \A k \in 1 .. Len(tok) : a[k] = StepFrom(states, a[k - 1], tok[k])

LEMMA WalkIs ==
    ASSUME NEW CS, NEW states \in Automata(CS), NEW s, NEW D, NEW tok \in Seq(D)
    PROVE  IsWalk(Walk(states, s, tok), states, s, tok)
<1>1. PICK n \in Nat : n = Len(tok)
  OBVIOUS
<1> DEFINE V == {s, Blocked} \cup Nat
           F == [iv \in (0 .. n - 1) \X V |-> StepFrom(states, iv[2], tok[iv[1] + 1])]
           Eqn(h) == h = [k \in 0 .. n |-> IF k = 0 THEN s ELSE StepFrom(states, h[k - 1], tok[k])]
<1>2. ASSUME NEW v, NEW ch PROVE StepFrom(states, v, ch) \in Nat \cup {Blocked}
  <2>1. CASE StepFrom(states, v, ch) = Blocked
    BY <2>1
  <2>2. CASE Takes(states, v, ch, StepFrom(states, v, ch))
    <3>1. PICK j \in 1 .. Len(states[v + 1]) : states[v + 1][j].next = StepFrom(states, v, ch)
      BY <2>2 DEF Takes
    <3>2. v + 1 \in 1 .. Len(states)
      <4>1. v \in 0 .. Len(states) - 1 /\ Len(states) \in Nat
        BY <2>2 DEF Takes, Automata
      <4> QED BY <4>1
    <3>3. states[v + 1] \in Seq(Moves(CS))
      BY <3>2 DEF Automata
    <3>4. states[v + 1][j] \in Moves(CS)
      BY <3>1, <3>3
    <3> QED BY <3>1, <3>4 DEF Moves
  <2> QED BY <2>1, <2>2, StepFromIs
<1>3. ASSUME NEW i \in 0 .. n - 1, NEW v \in V
      PROVE  F[<<i, v>>] = StepFrom(states, v, tok[i + 1]) /\ F[<<i, v>>] \in V
  <2>1. F[<<i, v>>] = StepFrom(states, v, tok[i + 1])
    OBVIOUS
  <2>2. StepFrom(states, v, tok[i + 1]) \in V
    BY <1>2
  <2> HIDE DEF F, V
  <2> QED BY <2>1, <2>2
<1>4. s \in V
  OBVIOUS
<1> HIDE DEF F, V
<1>5. PICK f : IsRec(f, n, s, F, V)
  BY <1>3, <1>4, RecUpTo
<1>6. f \in [0 .. n -> V] /\ f[0] = s
  BY <1>5 DEF IsRec
<1>7. ASSUME NEW k \in 0 .. n, k # 0 PROVE f[k] = StepFrom(states, f[k - 1], tok[k])
  <2>1. k - 1 \in 0 .. n - 1 /\ (k - 1) + 1 = k /\ k - 1 \in 0 .. n
    BY <1>7
  <2>2. f[(k - 1) + 1] = F[<<k - 1, f[k - 1]>>] /\ f[k - 1] \in V
    BY <1>5, <1>6, <2>1 DEF IsRec
  <2>3. F[<<k - 1, f[k - 1]>>] = StepFrom(states, f[k - 1], tok[(k - 1) + 1])
    BY <1>3, <2>1, <2>2
  <2> QED BY <2>1, <2>2, <2>3
<1>8. Eqn(f)
  BY <1>6, <1>7
<1> DEFINE h == CHOOSE h : Eqn(h)
<1>9. Eqn(h)
  BY <1>8
<1>10. Walk(states, s, tok) = h
  BY <1>1 DEF Walk
<1> HIDE DEF h
<1>11. h[0] = s /\ \A k \in 1 .. n : h[k] = StepFrom(states, h[k - 1], tok[k])
  BY <1>9
<1> QED BY <1>1, <1>10, <1>11 DEF IsWalk

(* A walk that arrives went on at every character.                         *)
LEMMA WalkMoves ==
    ASSUME NEW CS, NEW states \in Automata(CS), NEW s, NEW D, NEW tok \in Seq(D),
           NEW a, IsWalk(a, states, s, tok), a[Len(tok)] # Blocked
    PROVE  \A k \in 1 .. Len(tok) : Takes(states, a[k - 1], tok[k], a[k])
<1>1. PICK n \in Nat : n = Len(tok)
  OBVIOUS
<1> DEFINE S == {k \in Nat : k <= n => a[n - k] # Blocked}
<1>2. 0 \in S
  BY <1>1
<1>3. ASSUME NEW k \in Nat, k \in S PROVE k + 1 \in S
  <2> SUFFICES ASSUME k + 1 <= n, a[n - (k + 1)] = Blocked PROVE FALSE
    OBVIOUS
  <2>1. a[n - k] # Blocked /\ n - k \in 1 .. n /\ (n - k) - 1 = n - (k + 1)
    BY <1>3
  <2>2. a[n - k] = StepFrom(states, a[(n - k) - 1], tok[n - k])
    BY <1>1, <2>1 DEF IsWalk
  <2>3. Blocked \notin 0 .. Len(states) - 1
    BY DEF Blocked
  <2>4. StepFrom(states, Blocked, tok[n - k]) = Blocked
    BY <2>3 DEF StepFrom
  <2> QED BY <2>1, <2>2, <2>4
<1> HIDE DEF S
<1>4. Nat \subseteq S
  BY <1>2, <1>3, SetInduction
<1>5. ASSUME NEW k \in 1 .. n PROVE Takes(states, a[k - 1], tok[k], a[k])
  <2>1. n - k \in Nat /\ n - (n - k) = k /\ n - k <= n
    OBVIOUS
  <2>2. a[k] # Blocked
    BY <1>4, <2>1 DEF S
  <2>3. a[k] = StepFrom(states, a[k - 1], tok[k])
    BY <1>1, <1>5 DEF IsWalk
  <2> QED BY <2>2, <2>3, StepFromIs
<1> QED BY <1>1, <1>5

-----------------------------------------------------------------------------
(* The states that whole tokens complete                                   *)

LEMMA RoundsIs ==
    ASSUME NEW states, Len(states) \in Nat
    PROVE  /\ Rounds(states)[0] = {Len(states) - 1}
           /\ \A k \in 1 .. Len(states) :
                Rounds(states)[k] = Closer(states, Rounds(states)[k - 1])
<1>1. PICK n \in Nat : n = Len(states)
  OBVIOUS
<1> DEFINE V == SUBSET Int
           F == [iv \in (0 .. n - 1) \X V |-> Closer(states, iv[2])]
           Eqn(h) == h = [k \in 0 .. n |-> IF k = 0 THEN {Len(states) - 1}
                                           ELSE Closer(states, h[k - 1])]
<1>2. ASSUME NEW v \in V PROVE Closer(states, v) \in V
  <2>1. \A u \in Closer(states, v) : u \in v \/ u \in 0 .. Len(states) - 2
    BY DEF Closer
  <2>2. \A u \in v : u \in Int
    OBVIOUS
  <2>3. \A u \in 0 .. Len(states) - 2 : u \in Int
    BY <1>1
  <2>4. \A u \in Closer(states, v) : u \in Int
    BY <2>1, <2>2, <2>3
  <2> QED BY <2>4
<1>3. ASSUME NEW i \in 0 .. n - 1, NEW v \in V
      PROVE  F[<<i, v>>] = Closer(states, v) /\ F[<<i, v>>] \in V
  BY <1>2
<1>4. {Len(states) - 1} \in V
  BY <1>1
<1> HIDE DEF F, V
<1>5. PICK f : IsRec(f, n, {Len(states) - 1}, F, V)
  BY <1>3, <1>4, RecUpTo
<1>6. f \in [0 .. n -> V] /\ f[0] = {Len(states) - 1}
  BY <1>5 DEF IsRec
<1>7. ASSUME NEW k \in 0 .. n, k # 0 PROVE f[k] = Closer(states, f[k - 1])
  <2>1. k - 1 \in 0 .. n - 1 /\ (k - 1) + 1 = k /\ k - 1 \in 0 .. n
    BY <1>7
  <2>2. f[(k - 1) + 1] = F[<<k - 1, f[k - 1]>>] /\ f[k - 1] \in V
    BY <1>5, <1>6, <2>1 DEF IsRec
  <2> QED BY <1>3, <2>1, <2>2
<1>8. Eqn(f)
  BY <1>6, <1>7
<1> DEFINE h == CHOOSE h : Eqn(h)
<1>9. Eqn(h)
  BY <1>8
<1>10. Rounds(states) = h
  BY <1>1 DEF Rounds
<1> HIDE DEF h
<1>11. h[0] = {Len(states) - 1} /\ \A k \in 1 .. n : h[k] = Closer(states, h[k - 1])
  <2>1. \A k \in 0 .. n : h[k] = IF k = 0 THEN {Len(states) - 1} ELSE Closer(states, h[k - 1])
    BY <1>9
  <2>2. 0 \in 0 .. n /\ \A k \in 1 .. n : k \in 0 .. n /\ k # 0
    OBVIOUS
  <2> QED BY <2>1, <2>2
<1> QED BY <1>1, <1>10, <1>11

(* A state that can be completed is short of the end, and then some token  *)
(* keeps it so.                                                            *)
Helped(states, s) ==
    /\ s \in 0 .. Len(states) - 2
    /\ \E id \in DOMAIN FsmVocab : Fits(states, Completable(states), s, FsmVocab[id])

LEMMA CompletableIs ==
    ASSUME NEW states, Len(states) \in Nat, NEW s \in Completable(states)
    PROVE  s = Len(states) - 1 \/ Helped(states, s)
<1>1. PICK n \in Nat : n = Len(states)
  OBVIOUS
<1>2. PICK R : R = Rounds(states)
  OBVIOUS
<1>3. R[0] = {n - 1} /\ \A k \in 1 .. n : R[k] = Closer(states, R[k - 1])
  BY <1>1, <1>2, RoundsIs
<1>4. PICK C : C = Completable(states)
  OBVIOUS
<1>5. C = R[n]
  BY <1>1, <1>2, <1>4 DEF Completable
<1> DEFINE S == {k \in Nat : k <= n => R[n - k] \subseteq C}
<1>6. 0 \in S
  BY <1>5
<1>7. ASSUME NEW k \in Nat, k \in S PROVE k + 1 \in S
  <2> SUFFICES ASSUME k + 1 <= n PROVE R[n - (k + 1)] \subseteq C
    OBVIOUS
  <2>1. R[n - k] \subseteq C /\ n - k \in 1 .. n /\ (n - k) - 1 = n - (k + 1)
    BY <1>7
  <2>2. R[n - k] = Closer(states, R[n - (k + 1)])
    BY <1>3, <2>1
  <2> QED BY <2>1, <2>2 DEF Closer
<1>8. \A k \in 0 .. n : R[k] \subseteq C
  <2> SUFFICES ASSUME NEW k \in 0 .. n PROVE R[k] \subseteq C
    OBVIOUS
  <2> HIDE DEF S
  <2>1. Nat \subseteq S
    BY <1>6, <1>7, SetInduction
  <2>2. n - k \in Nat /\ n - k <= n /\ n - (n - k) = k
    OBVIOUS
  <2> QED BY <2>1, <2>2 DEF S
<1>9. ASSUME NEW P, P \subseteq C, NEW u \in Closer(states, P)
      PROVE  u \in P \/ Helped(states, u)
  <2>1. CASE u \in P
    BY <2>1
  <2>2. CASE u \notin P
    <3>1. u \in 0 .. Len(states) - 2 /\ \E id \in DOMAIN FsmVocab : Fits(states, P, u, FsmVocab[id])
      BY <1>9, <2>2 DEF Closer
    <3>2. PICK id \in DOMAIN FsmVocab : Fits(states, P, u, FsmVocab[id])
      BY <3>1
    <3>3. Fits(states, C, u, FsmVocab[id])
      BY <1>9, <3>2 DEF Fits
    <3> QED BY <1>4, <3>1, <3>3 DEF Helped
  <2> QED BY <2>1, <2>2
<1> DEFINE U == {k \in Nat : k <= n => \A u \in R[k] : u = n - 1 \/ Helped(states, u)}
<1>10. 0 \in U
  BY <1>3
<1>11. ASSUME NEW k \in Nat, k \in U PROVE k + 1 \in U
  <2> SUFFICES ASSUME k + 1 <= n, NEW u \in R[k + 1] PROVE u = n - 1 \/ Helped(states, u)
    OBVIOUS
  <2>1. k + 1 \in 1 .. n /\ (k + 1) - 1 = k /\ k \in 0 .. n
    OBVIOUS
  <2>2. R[k + 1] = Closer(states, R[k]) /\ R[k] \subseteq C
    BY <1>3, <1>8, <2>1
  <2>3. u \in R[k] \/ Helped(states, u)
    BY <1>9, <2>2
  <2> QED BY <1>11, <2>1, <2>3
<1> HIDE DEF U
<1>12. Nat \subseteq U
  BY <1>10, <1>11, SetInduction
<1> QED BY <1>1, <1>4, <1>5, <1>12 DEF U

(* The automaton of a structured call that is on its way: at state s.      *)
FsmAt(states, s) ==
  [states |-> states, current |-> s, complete |-> Accepting(states, s), broken |-> FALSE]

(* The mask of eligible tokens keeps to those that can be completed.       *)
LEMMA MaskIs ==
    ASSUME NEW states, states # <<>>, Len(states) \in Nat,
           NEW s \in Completable(states), ~Accepting(states, s), NEW f, f = FsmAt(states, s)
    PROVE  /\ TokenMask(f) # {} /\ TokenMask(f) \subseteq DOMAIN FsmVocab
           /\ \A id \in TokenMask(f) : Fits(states, Completable(states), s, FsmVocab[id])
<1>1. f.states = states /\ f.current = s /\ f.complete = FALSE
  BY DEF FsmAt
<1>2. PICK good : good = { id \in DOMAIN FsmVocab :
                             Fits(f.states, Completable(f.states), f.current, FsmVocab[id]) }
  OBVIOUS
<1>3. s # Len(states) - 1
  BY DEF Accepting
<1>4. PICK id \in DOMAIN FsmVocab : Fits(states, Completable(states), s, FsmVocab[id])
  BY <1>3, CompletableIs DEF Helped
<1>5. id \in good
  BY <1>1, <1>2, <1>4
<1>6. TokenMask(f) = good
  BY <1>1, <1>2, <1>5 DEF TokenMask
<1> QED BY <1>1, <1>2, <1>5, <1>6

(* One character on.                                                       *)
LEMMA AdvanceIs ==
    ASSUME NEW CS, NEW states \in Automata(CS), Forward(states), NEW s, NEW ch,
           NEW next, Takes(states, s, ch, next), next = StepFrom(states, s, ch)
    PROVE  Advance(FsmAt(states, s), ch) = FsmAt(states, next)
<1>1. Len(states) \in Nat
  BY DEF Automata
<1>2. s \in 0 .. Len(states) - 1 /\ s \in Nat /\ next \in {s, s + 1} /\ next \in Nat
  BY <1>1, MovedForward DEF Takes
<1>3. PICK f : f = FsmAt(states, s)
  OBVIOUS
<1>4. /\ f.states = states /\ f.current = s /\ f.complete = Accepting(states, s)
      /\ f = [states |-> states, current |-> s, complete |-> Accepting(states, s), broken |-> FALSE]
  BY <1>3 DEF FsmAt
<1>5. next # Blocked /\ ~(s >= Len(states))
  BY <1>1, <1>2 DEF Blocked
<1>6. Advance(f, ch) = [f EXCEPT !.current = next,
                                 !.complete = f.complete \/ Accepting(states, next)]
  BY <1>4, <1>5 DEF Advance
<1>7. (Accepting(states, s) \/ Accepting(states, next)) = Accepting(states, next)
  BY <1>1, <1>2 DEF Accepting
<1>8. [f EXCEPT !.current = next, !.complete = Accepting(states, next)] = FsmAt(states, next)
  <2>1. PICK b : b = Accepting(states, next)
    OBVIOUS
  <2>2. PICK c : c = Accepting(states, s)
    OBVIOUS
  <2>3. PICK d : d = FALSE
    OBVIOUS
  <2>4. f = [states |-> states, current |-> s, complete |-> c, broken |-> d]
    BY <1>4, <2>2, <2>3
  <2>5. PICK g : g = [f EXCEPT !.current = next]
    OBVIOUS
  <2>6. g = [states |-> states, current |-> next, complete |-> c, broken |-> d]
    BY <2>4, <2>5
  <2>7. [f EXCEPT !.current = next, !.complete = b] = [g EXCEPT !.complete = b]
    BY <2>5, Zenon
  <2>8. [g EXCEPT !.complete = b]
          = [states |-> states, current |-> next, complete |-> b, broken |-> d]
    BY <2>6
  <2> QED BY <2>1, <2>3, <2>7, <2>8 DEF FsmAt
<1> QED BY <1>3, <1>4, <1>6, <1>7, <1>8

(* A token that fits leaves the automaton where it was walked to.          *)
LEMMA AdvanceTokenIs ==
    ASSUME NEW CS, NEW states \in Automata(CS), Forward(states), NEW s,
           NEW D, NEW id, FsmVocab[id] \in Seq(D),
           NEW e, e = WalkFrom(states, s, FsmVocab[id]), e # Blocked
    PROVE  AdvanceToken(FsmAt(states, s), id) = FsmAt(states, e)
<1>1. PICK tok \in Seq(D) : tok = FsmVocab[id]
  OBVIOUS
<1>2. PICK n \in Nat : n = Len(tok)
  OBVIOUS
<1>3. PICK a : a = Walk(states, s, tok)
  OBVIOUS
<1>4. IsWalk(a, states, s, tok) /\ e = a[n]
  BY <1>1, <1>2, <1>3, WalkIs DEF WalkFrom
<1>5. \A k \in 1 .. n : Takes(states, a[k - 1], tok[k], a[k])
  BY <1>2, <1>4, WalkMoves
<1> DEFINE G == [k \in 0 .. n |-> FsmAt(states, a[k])]
           Eqn(h) == h = [k \in 0 .. n |-> IF k = 0 THEN FsmAt(states, s)
                                           ELSE Advance(h[k - 1], tok[k])]
<1>6. ASSUME NEW k \in 0 .. n, k # 0 PROVE G[k] = Advance(G[k - 1], tok[k])
  <2>1. k \in 1 .. n /\ k - 1 \in 0 .. n
    BY <1>6
  <2>2. a[k] = StepFrom(states, a[k - 1], tok[k])
    BY <1>2, <1>4, <2>1 DEF IsWalk
  <2>3. Advance(FsmAt(states, a[k - 1]), tok[k]) = FsmAt(states, a[k])
    BY <1>5, <2>1, <2>2, AdvanceIs
  <2> QED BY <2>1, <2>3
<1>7. G[0] = FsmAt(states, s)
  BY <1>4 DEF IsWalk
<1>8. Eqn(G)
  <2>1. \A k \in 0 .. n : G[k] = IF k = 0 THEN FsmAt(states, s) ELSE Advance(G[k - 1], tok[k])
    BY <1>6, <1>7
  <2>2. G = [k \in 0 .. n |-> G[k]]
    OBVIOUS
  <2> HIDE DEF G
  <2> QED BY <2>1, <2>2
<1> DEFINE h == CHOOSE h : Eqn(h)
<1>9. Eqn(h)
  BY <1>8
<1>10. AdvanceToken(FsmAt(states, s), id) = h[n]
  BY <1>1, <1>2 DEF AdvanceToken, Advances
<1> HIDE DEF h
<1>11. h[0] = FsmAt(states, s) /\ \A k \in 1 .. n : h[k] = Advance(h[k - 1], tok[k])
  BY <1>9
<1> DEFINE S == {k \in Nat : k <= n => h[k] = G[k]}
<1>12. 0 \in S
  BY <1>7, <1>11
<1>13. ASSUME NEW k \in Nat, k \in S PROVE k + 1 \in S
  <2> HIDE DEF G
  <2> SUFFICES ASSUME k + 1 <= n PROVE h[k + 1] = G[k + 1]
    OBVIOUS
  <2>1. k + 1 \in 1 .. n /\ (k + 1) - 1 = k /\ k + 1 \in 0 .. n
    OBVIOUS
  <2>2. h[k] = G[k]
    BY <1>13
  <2>3. h[k + 1] = Advance(h[k], tok[k + 1]) /\ G[k + 1] = Advance(G[k], tok[k + 1])
    BY <1>6, <1>11, <2>1
  <2> QED BY <2>2, <2>3
<1>14. n \in S
  <2> HIDE DEF S
  <2> QED BY <1>12, <1>13, SetInduction
<1>15. h[n] = FsmAt(states, a[n])
  BY <1>14
<1> QED BY <1>4, <1>10, <1>15

-----------------------------------------------------------------------------
(* Regular patterns                                                        *)

IsPlus(el) == el.kind = "class" /\ el.rep = "plus"

(* The move t of the state at index i is element e's: to the next of the   *)
(* states the element added, or the loop on the last of them.              *)
OwnedBy(pattern, B, e, i, t) ==
    /\ t.chars = Keys(pattern[e])
    /\ \/ t.next = i /\ Len(B[e - 1]) <= i /\ i < Len(B[e])
       \/ t.next = i - 1 /\ i = Len(B[e]) /\ IsPlus(pattern[e])

Owned(pattern, B, k) ==
  \A i \in 1 .. Len(B[k]) : \A j \in 1 .. Len(B[k][i]) :
    \E e \in 1 .. k : OwnedBy(pattern, B, e, i, B[k][i][j])

(* How the states add up.                                                  *)
Lengths(pattern, B) ==
    /\ Len(B[0]) = 1
    /\ \A k \in 1 .. Len(pattern) : /\ Len(B[k]) = Len(B[k - 1]) + Width(pattern[k])
                                    /\ Width(pattern[k]) \in Nat \ {0}
    /\ \A k \in 0 .. Len(pattern) : Len(B[k]) \in Nat \ {0}
    /\ \A k \in 0 .. Len(pattern), m \in 0 .. Len(pattern) : k <= m => Len(B[k]) <= Len(B[m])

LEMMA LengthsAre ==
    ASSUME NEW pattern, PatternShaped(pattern), Regular(pattern), NEW B, IsBuilt(B, pattern)
    PROVE  /\ Lengths(pattern, B)
           /\ \A k \in 1 .. Len(pattern) :
                Extended(B[k - 1], B[k], Keys(pattern[k]), Width(pattern[k]),
                         Closing(pattern[k], Len(B[k - 1]) + Width(pattern[k]) - 1))
<1>1. PICK n \in Nat : n = Len(pattern)
  BY DEF PatternShaped
<1>2. PICK CS : CS = KeySets(pattern)
  OBVIOUS
<1>3. /\ B[0] = << <<>> >>
      /\ \A i \in 1 .. n : B[i] = AddElement(B[i - 1], pattern[i])
      /\ \A i \in 0 .. n : B[i] \in Automata(CS)
  BY <1>1, <1>2 DEF IsBuilt
<1>4. {"."} \in CS /\ \A i \in 1 .. n : Keys(pattern[i]) \in CS
  BY <1>1, <1>2 DEF KeySets
<1>5. ASSUME NEW k \in 1 .. n
      PROVE  /\ Extended(B[k - 1], B[k], Keys(pattern[k]), Width(pattern[k]),
                         Closing(pattern[k], Len(B[k - 1]) + Width(pattern[k]) - 1))
             /\ Width(pattern[k]) \in Nat \ {0}
  <2>1. PICK el : el = pattern[k]
    OBVIOUS
  <2>2. Shaped(el) /\ el.kind # "repeat" /\ Keys(el) \in CS
    BY <1>1, <1>4, <2>1 DEF PatternShaped, Regular
  <2>3. k - 1 \in 0 .. n
    OBVIOUS
  <2>4. PICK s \in Automata(CS) : s = B[k - 1]
    BY <1>3, <2>3
  <2>5. B[k] = AddElement(s, el)
    BY <1>3, <2>1, <2>4
  <2> QED BY <1>4, <2>1, <2>2, <2>4, <2>5, AddIs
<1>6. \A k \in 1 .. n : Len(B[k]) = Len(B[k - 1]) + Width(pattern[k])
  BY <1>5 DEF Extended
<1>7. \A k \in 0 .. n : Len(B[k]) \in Nat \ {0}
  BY <1>3 DEF Automata
<1>8. Len(B[0]) = 1
  BY <1>3
<1> DEFINE S == {m \in Nat : m <= n => \A k \in 0 .. m : Len(B[k]) <= Len(B[m])}
<1>9. 0 \in S
  BY <1>7
<1>10. ASSUME NEW m \in Nat, m \in S PROVE m + 1 \in S
  <2> SUFFICES ASSUME m + 1 <= n, NEW k \in 0 .. m + 1 PROVE Len(B[k]) <= Len(B[m + 1])
    OBVIOUS
  <2>1. m + 1 \in 1 .. n /\ (m + 1) - 1 = m /\ m \in 0 .. n /\ k \in 0 .. n
    OBVIOUS
  <2>2. Len(B[m]) <= Len(B[m + 1])
    <3>1. PICK w \in Nat : w = Width(pattern[m + 1])
      BY <1>5, <2>1
    <3> QED BY <1>6, <1>7, <2>1, <3>1
  <2>3. CASE k = m + 1
    BY <1>7, <2>1, <2>3
  <2>4. CASE k # m + 1
    <3>1. k \in 0 .. m /\ m + 1 \in 0 .. n
      BY <2>1, <2>4
    <3>2. Len(B[k]) <= Len(B[m])
      BY <1>10, <2>1, <3>1
    <3> QED BY <1>7, <2>1, <2>2, <3>1, <3>2
  <2> QED BY <2>3, <2>4
<1> HIDE DEF S
<1>11. Nat \subseteq S
  BY <1>9, <1>10, SetInduction
<1>12. \A k \in 0 .. n, m \in 0 .. n : k <= m => Len(B[k]) <= Len(B[m])
  BY <1>11 DEF S
<1> QED BY <1>1, <1>5, <1>6, <1>7, <1>8, <1>12 DEF Lengths

LEMMA OwnedIs ==
    ASSUME NEW pattern, PatternShaped(pattern), Regular(pattern), NEW B, IsBuilt(B, pattern)
    PROVE  \A k \in 0 .. Len(pattern) : Owned(pattern, B, k)
<1>1. PICK n \in Nat : n = Len(pattern)
  BY DEF PatternShaped
<1>2. PICK CS : CS = KeySets(pattern)
  OBVIOUS
<1>3. B[0] = << <<>> >> /\ \A i \in 0 .. n : B[i] \in Automata(CS)
  BY <1>1, <1>2 DEF IsBuilt
<1>4. {"."} \in CS /\ \A i \in 1 .. n : Keys(pattern[i]) \in CS
  BY <1>1, <1>2 DEF KeySets
<1>5. Lengths(pattern, B)
  BY LengthsAre
<1> DEFINE S == {k \in Nat : k <= n => Owned(pattern, B, k)}
<1>6. 0 \in S
  <2>1. Len(<< <<>> >>) = 1 /\ << <<>> >>[1] = <<>> /\ Len(<<>>) = 0
    OBVIOUS
  <2>2. Owned(pattern, B, 0)
    BY <1>3, <2>1 DEF Owned
  <2> QED BY <2>2
<1>7. ASSUME NEW p \in Nat, p \in S PROVE p + 1 \in S
  <2> SUFFICES ASSUME p + 1 <= n PROVE Owned(pattern, B, p + 1)
    OBVIOUS
  <2>1. PICK k \in 1 .. n : k = p + 1 /\ k - 1 = p /\ p \in 0 .. n /\ k \in 0 .. n
    OBVIOUS
  <2>2. PICK s \in Automata(CS) : s = B[p]
    BY <1>3, <2>1
  <2>3. PICK r \in Automata(CS) : r = B[k]
    BY <1>3, <2>1
  <2>4. PICK el : el = pattern[k]
    OBVIOUS
  <2>5. PICK K \in CS : K = Keys(el)
    BY <1>4, <2>4
  <2>6. PICK w \in Nat \ {0} : w = Width(el)
    BY <1>1, <1>5, <2>4 DEF Lengths
  <2>7. PICK L \in Nat \ {0} : L = Len(s)
    BY <1>1, <1>5, <2>1, <2>2 DEF Lengths
  <2>8. PICK last : last = Closing(el, L + w - 1)
    OBVIOUS
  <2>9. Extended(s, r, K, w, last)
    BY <1>1, <2>1, <2>2, <2>3, <2>4, <2>5, <2>6, <2>7, <2>8, LengthsAre
  <2>10. /\ Len(r) = L + w /\ \A i \in 1 .. L - 1 : r[i] = s[i]
         /\ r[L] = Append(s[L], To(K, L))
         /\ \A i \in L + 1 .. L + w - 1 : r[i] = <<To(K, i)>>
         /\ r[L + w] = last
    BY <2>7, <2>9 DEF Extended
  <2>11. Owned(pattern, B, p)
    BY <1>7
  <2>12. ASSUME NEW i \in 1 .. L, NEW j \in 1 .. Len(s[i])
         PROVE  \E e \in 1 .. k : OwnedBy(pattern, B, e, i, s[i][j])
    <3>1. PICK e \in 1 .. p : OwnedBy(pattern, B, e, i, s[i][j])
      BY <2>2, <2>7, <2>11 DEF Owned
    <3> QED BY <2>1, <3>1
  <2>13. ASSUME NEW i \in L .. L + w - 1, NEW t, t = To(K, i)
         PROVE  \E e \in 1 .. k : OwnedBy(pattern, B, e, i, t)
    <3>1. t.next = i /\ t.chars = K
      <4>1. i \in Nat
        OBVIOUS
      <4> QED BY <2>13, <4>1, ToIs
    <3>2. Len(B[k - 1]) = L /\ Len(B[k]) = L + w /\ i < L + w /\ L <= i
      BY <2>1, <2>2, <2>3, <2>7, <2>10
    <3>3. OwnedBy(pattern, B, k, i, t)
      BY <2>4, <2>5, <3>1, <3>2 DEF OwnedBy
    <3> QED BY <2>1, <3>3
  <2>14. ASSUME NEW i \in 1 .. L + w, NEW j \in 1 .. Len(r[i])
         PROVE  \E e \in 1 .. k : OwnedBy(pattern, B, e, i, r[i][j])
    <3>1. CASE i \in 1 .. L - 1
      <4>1. r[i] = s[i] /\ i \in 1 .. L
        BY <2>10, <3>1
      <4> QED BY <2>12, <4>1
    <3>2. CASE i = L
      <4>1. PICK t \in Moves(CS) : t = To(K, L)
        BY ToIs
      <4>2. s[L] \in Seq(Moves(CS)) /\ L \in 1 .. L /\ r[i] = Append(s[L], t)
        BY <2>7, <2>10, <3>2, <4>1 DEF Automata
      <4>3. j = Len(s[L]) + 1 \/ j \in 1 .. Len(s[L])
        BY <4>2
      <4>4. CASE j = Len(s[L]) + 1
        <5>1. r[i][j] = t /\ i \in L .. L + w - 1
          BY <3>2, <4>2, <4>4
        <5> QED BY <2>13, <3>2, <4>1, <5>1
      <4>5. CASE j \in 1 .. Len(s[L])
        <5>1. r[i][j] = s[L][j]
          BY <4>2, <4>5
        <5> QED BY <2>12, <3>2, <4>2, <4>5, <5>1
      <4> QED BY <4>3, <4>4, <4>5
    <3>3. CASE i \in L + 1 .. L + w - 1
      <4>1. PICK t : t = To(K, i)
        OBVIOUS
      <4>2. r[i] = <<t>>
        BY <2>10, <3>3, <4>1
      <4>3. r[i][j] = t /\ i \in L .. L + w - 1
        BY <3>3, <4>2
      <4> QED BY <2>13, <4>1, <4>3
    <3>4. CASE i = L + w
      <4>1. r[i] = last /\ L + w - 1 \in Nat
        BY <2>10, <3>4
      <4>2. el.kind = "class" => el.rep # "star"
        BY <1>1, <2>1, <2>4 DEF Regular
      <4>3. CASE ~IsPlus(el)
        <5>1. last = <<>>
          BY <1>4, <2>5, <2>8, <4>1, <4>2, <4>3, ClosingIs DEF IsPlus
        <5> QED BY <4>1, <5>1
      <4>4. CASE IsPlus(el)
        <5>1. w = 1
          BY <2>6, <4>4 DEF Width, IsPlus
        <5>2. Len(last) = 1 /\ last[1].next = L + w - 1 /\ last[1].chars = K
          BY <1>4, <2>5, <2>8, <4>1, <4>4, ClosingIs DEF IsPlus
        <5>3. j = 1 /\ last[1].next = i - 1 /\ i = Len(B[k])
          <6>1. Len(r[i]) = 1
            BY <4>1, <5>2
          <6>2. j = 1
            BY <6>1
          <6>3. i = Len(B[k]) /\ L + w - 1 = i - 1
            BY <2>3, <2>10, <3>4
          <6> QED BY <5>2, <6>2, <6>3
        <5>4. OwnedBy(pattern, B, k, i, last[1])
          BY <2>4, <2>5, <4>4, <5>2, <5>3 DEF OwnedBy
        <5> QED BY <2>1, <4>1, <5>3, <5>4
      <4> QED BY <4>3, <4>4
    <3> QED BY <3>1, <3>2, <3>3, <3>4
  <2> QED BY <2>1, <2>3, <2>10, <2>14 DEF Owned
<1> HIDE DEF S
<1>8. Nat \subseteq S
  BY <1>6, <1>7, SetInduction
<1> QED BY <1>1, <1>8 DEF S

(* A climb by at most one at a time.                                       *)
Climbs(a, N) == \A k \in 0 .. N : a[k] \in Nat /\ (k > 0 => a[k] \in {a[k - 1], a[k - 1] + 1})

LEMMA ClimbNeverFalls ==
    ASSUME NEW N \in Nat, NEW a, Climbs(a, N), NEW k \in 0 .. N, NEW m \in k .. N
    PROVE  a[k] <= a[m]
<1> DEFINE S == {d \in Nat : k + d <= N => a[k] <= a[k + d]}
<1>1. \A i \in 0 .. N : a[i] \in Nat /\ (i > 0 => a[i] \in {a[i - 1], a[i - 1] + 1})
  BY DEF Climbs
<1>2. 0 \in S
  BY <1>1
<1>3. ASSUME NEW d \in Nat, d \in S PROVE d + 1 \in S
  <2> SUFFICES ASSUME k + (d + 1) <= N PROVE a[k] <= a[k + (d + 1)]
    OBVIOUS
  <2>1. k + (d + 1) \in 0 .. N /\ (k + (d + 1)) - 1 = k + d /\ k + (d + 1) > 0 /\ k + d \in 0 .. N
    OBVIOUS
  <2>2. a[k + (d + 1)] \in {a[k + d], a[k + d] + 1} /\ a[k + d] \in Nat
    BY <1>1, <2>1
  <2>3. a[k] <= a[k + d] /\ a[k] \in Nat
    BY <1>1, <1>3, <2>1
  <2> QED BY <2>2, <2>3
<1> HIDE DEF S
<1>4. Nat \subseteq S
  BY <1>2, <1>3, SetInduction
<1>5. m - k \in Nat /\ k + (m - k) = m /\ m <= N
  OBVIOUS
<1> QED BY <1>4, <1>5 DEF S

(* The last time that a climb is at a height it does not end below.        *)
LastAt(a, N, m, v) == a[m] = v /\ (m < N => a[m + 1] = v + 1)

LEMMA LastIs ==
    ASSUME NEW N \in Nat, NEW a, Climbs(a, N), NEW k \in 0 .. N, NEW v \in Nat,
           a[k] <= v, v <= a[N]
    PROVE  \E m \in k .. N : LastAt(a, N, m, v)
<1> DEFINE S == {d \in Nat : k + d <= N => (v <= a[k + d] => \E m \in k .. k + d : LastAt(a, k + d, m, v))}
<1>1. \A i \in 0 .. N : a[i] \in Nat /\ (i > 0 => a[i] \in {a[i - 1], a[i - 1] + 1})
  BY DEF Climbs
<1>2. 0 \in S
  <2>1. v <= a[k] => LastAt(a, k, k, v)
    BY <1>1 DEF LastAt
  <2>2. k \in k .. k /\ k + 0 = k
    OBVIOUS
  <2> QED BY <2>1, <2>2
<1>3. ASSUME NEW d \in Nat, d \in S PROVE d + 1 \in S
  <2> SUFFICES ASSUME k + (d + 1) <= N, v <= a[k + (d + 1)]
               PROVE  \E m \in k .. k + (d + 1) : LastAt(a, k + (d + 1), m, v)
    OBVIOUS
  <2>1. PICK K \in 0 .. N : K = k + d /\ K + 1 = k + (d + 1) /\ K + 1 \in 0 .. N /\ k <= K
    OBVIOUS
  <2>2. a[K + 1] \in {a[K], a[K] + 1} /\ a[K] \in Nat /\ a[K + 1] \in Nat
    <3>1. K + 1 > 0 /\ (K + 1) - 1 = K
      OBVIOUS
    <3> QED BY <1>1, <2>1, <3>1
  <2>3. SUFFICES \E m \in k .. K + 1 : LastAt(a, K + 1, m, v)
    BY <2>1
  <2>4. CASE a[K + 1] = v
    <3>1. LastAt(a, K + 1, K + 1, v) /\ K + 1 \in k .. K + 1
      BY <2>1, <2>4 DEF LastAt
    <3> QED BY <3>1
  <2>5. CASE a[K + 1] # v
    <3>1. v <= a[K] /\ (a[K] = v => a[K + 1] = v + 1)
      BY <2>1, <2>2, <2>5
    <3>2. PICK m \in k .. K : LastAt(a, K, m, v)
      BY <1>3, <2>1, <3>1
    <3>3. m \in k .. K + 1 /\ (m < K + 1 => m < K \/ m = K)
      OBVIOUS
    <3>4. LastAt(a, K + 1, m, v)
      BY <3>1, <3>2, <3>3 DEF LastAt
    <3> QED BY <3>3, <3>4
  <2> QED BY <2>4, <2>5
<1> HIDE DEF S
<1>4. Nat \subseteq S
  BY <1>2, <1>3, SetInduction
<1>5. N - k \in Nat /\ k + (N - k) = N
  OBVIOUS
<1>6. N - k \in S
  BY <1>4, <1>5
<1> QED BY <1>5, <1>6 DEF S

(* A climb that never rests rises by one at a time.                        *)
LEMMA ClimbWithoutRest ==
    ASSUME NEW N \in Nat, NEW a, Climbs(a, N), NEW k \in 0 .. N, NEW m \in k .. N,
           \A q \in k + 1 .. m : a[q] = a[q - 1] + 1
    PROVE  a[m] = a[k] + (m - k)
<1> DEFINE S == {d \in Nat : k + d <= m => a[k + d] = a[k] + d}
<1>1. a[k] \in Nat
  BY DEF Climbs
<1>2. 0 \in S
  BY <1>1
<1>3. ASSUME NEW d \in Nat, d \in S PROVE d + 1 \in S
  <2> SUFFICES ASSUME k + (d + 1) <= m PROVE a[k + (d + 1)] = a[k] + (d + 1)
    OBVIOUS
  <2>1. k + (d + 1) \in k + 1 .. m /\ (k + (d + 1)) - 1 = k + d
    OBVIOUS
  <2>2. a[k + d] = a[k] + d
    BY <1>3
  <2> QED BY <1>1, <2>1, <2>2
<1> HIDE DEF S
<1>4. Nat \subseteq S
  BY <1>2, <1>3, SetInduction
<1>5. m - k \in Nat /\ k + (m - k) = m
  OBVIOUS
<1>6. m - k \in S
  BY <1>4, <1>5
<1> QED BY <1>5, <1>6 DEF S

-----------------------------------------------------------------------------
(* The reference definition                                                *)

(* Where the text from a position on is one of the last elements.          *)
IsStart(m, pattern, text) ==
    /\ m[0] = {Len(text) + 1}
    /\ \A i \in 1 .. Len(pattern) : m[i] = Starts(pattern[Len(pattern) + 1 - i], text, m[i - 1])

LEMMA DenotesIs ==
    ASSUME NEW pattern, NEW text, Len(pattern) \in Nat, Len(text) \in Nat
    PROVE  \E m : /\ IsStart(m, pattern, text)
                  /\ 1 \in m[Len(pattern)] => Denotes(pattern, text)
<1>1. PICK P \in Nat : P = Len(pattern)
  OBVIOUS
<1>2. PICK N \in Nat : N = Len(text)
  OBVIOUS
<1> DEFINE V == SUBSET Nat
           F == [iv \in (0 .. P - 1) \X V |-> Starts(pattern[P - iv[1]], text, iv[2])]
           Eqn(h) == h = [i \in 0 .. P |-> IF i = 0 THEN {N + 1}
                                           ELSE Starts(pattern[P + 1 - i], text, h[i - 1])]
<1>3. ASSUME NEW el, NEW v PROVE Starts(el, text, v) \in V
  <2>1. \A j \in Starts(el, text, v) : j \in 1 .. N + 1
    BY <1>2 DEF Starts
  <2> QED BY <2>1
<1>4. ASSUME NEW i \in 0 .. P - 1, NEW v \in V
      PROVE  F[<<i, v>>] = Starts(pattern[P - i], text, v) /\ F[<<i, v>>] \in V
  <2>1. F[<<i, v>>] = Starts(pattern[P - i], text, v)
    OBVIOUS
  <2> HIDE DEF F, V
  <2> QED BY <1>3, <2>1
<1>5. {N + 1} \in V
  OBVIOUS
<1> HIDE DEF F, V
<1>6. PICK f : IsRec(f, P, {N + 1}, F, V)
  BY <1>4, <1>5, RecUpTo
<1>7. f \in [0 .. P -> V] /\ f[0] = {N + 1}
  BY <1>6 DEF IsRec
<1>8. ASSUME NEW i \in 0 .. P, i # 0 PROVE f[i] = Starts(pattern[P + 1 - i], text, f[i - 1])
  <2>1. i - 1 \in 0 .. P - 1 /\ (i - 1) + 1 = i /\ i - 1 \in 0 .. P /\ P - (i - 1) = P + 1 - i
    BY <1>8
  <2>2. f[(i - 1) + 1] = F[<<i - 1, f[i - 1]>>] /\ f[i - 1] \in V
    BY <1>6, <1>7, <2>1 DEF IsRec
  <2>3. F[<<i - 1, f[i - 1]>>] = Starts(pattern[P - (i - 1)], text, f[i - 1])
    BY <1>4, <2>1, <2>2
  <2> QED BY <2>1, <2>2, <2>3
<1>9. Eqn(f)
  BY <1>7, <1>8
<1> DEFINE h == CHOOSE h : Eqn(h)
<1>10. Eqn(h)
  BY <1>9
<1>11. 1 \in h[P] => Denotes(pattern, text)
  BY <1>1, <1>2 DEF Denotes
<1> HIDE DEF h
<1>12. h[0] = {N + 1} /\ \A i \in 1 .. P : h[i] = Starts(pattern[P + 1 - i], text, h[i - 1])
  <2>1. \A i \in 0 .. P : h[i] = IF i = 0 THEN {N + 1}
                                 ELSE Starts(pattern[P + 1 - i], text, h[i - 1])
    BY <1>10
  <2>2. 0 \in 0 .. P /\ \A i \in 1 .. P : i \in 0 .. P /\ i # 0
    OBVIOUS
  <2> QED BY <2>1, <2>2
<1> QED BY <1>1, <1>2, <1>11, <1>12 DEF IsStart

(* A text cut into what the elements take, one after the other.            *)
IsCut(at, pattern, text) ==
    /\ at[0] = 1 /\ at[Len(pattern)] = Len(text) + 1
    /\ \A e \in 0 .. Len(pattern) : at[e] \in 1 .. Len(text) + 1
    /\ \A e \in 1 .. Len(pattern) :
         /\ at[e - 1] <= at[e]
         /\ Repeats(pattern[e], at[e] - at[e - 1])
         /\ \A k \in at[e - 1] .. at[e] - 1 : InClass(pattern[e], text[k])

LEMMA CutDenotes ==
    ASSUME NEW pattern, NEW text, Len(pattern) \in Nat, Len(text) \in Nat,
           NEW at, IsCut(at, pattern, text)
    PROVE  Denotes(pattern, text)
<1>1. PICK P \in Nat : P = Len(pattern)
  OBVIOUS
<1>2. PICK N \in Nat : N = Len(text)
  OBVIOUS
<1>3. PICK m : IsStart(m, pattern, text) /\ (1 \in m[P] => Denotes(pattern, text))
  BY <1>1, DenotesIs
<1> DEFINE S == {i \in Nat : i <= P => at[P - i] \in m[i]}
<1>4. 0 \in S
  BY <1>1, <1>2, <1>3 DEF IsCut, IsStart
<1>5. ASSUME NEW i \in Nat, i \in S PROVE i + 1 \in S
  <2> SUFFICES ASSUME i + 1 <= P PROVE at[P - (i + 1)] \in m[i + 1]
    OBVIOUS
  <2>1. PICK e \in 1 .. P : e = P - i
    OBVIOUS
  <2>2. i + 1 \in 1 .. P /\ (i + 1) - 1 = i /\ P + 1 - (i + 1) = e /\ P - (i + 1) = e - 1
    BY <2>1
  <2>3. at[e] \in m[i]
    BY <1>5, <2>1
  <2>4. m[i + 1] = Starts(pattern[e], text, m[i])
    BY <1>1, <1>3, <2>2 DEF IsStart
  <2>5. e - 1 \in 0 .. P /\ e \in 0 .. P
    OBVIOUS
  <2>6. PICK j \in 1 .. N + 1 : j = at[e - 1]
    BY <1>1, <1>2, <2>5 DEF IsCut
  <2>7. PICK q \in 1 .. N + 1 : q = at[e]
    BY <1>1, <1>2, <2>5 DEF IsCut
  <2>8. j <= q /\ Repeats(pattern[e], q - j) /\ \A k \in j .. q - 1 : InClass(pattern[e], text[k])
    BY <1>1, <2>6, <2>7 DEF IsCut
  <2>9. PICK n \in 0 .. N + 1 - j : n = q - j /\ j + n = q
    BY <2>8
  <2>10. j \in Starts(pattern[e], text, m[i])
    <3>1. j + n - 1 = q - 1
      BY <2>9
    <3>2. \A k \in j .. j + n - 1 : InClass(pattern[e], text[k])
      BY <2>8, <3>1
    <3>3. Repeats(pattern[e], n) /\ j + n \in m[i]
      BY <2>3, <2>7, <2>8, <2>9
    <3> QED BY <1>2, <3>2, <3>3 DEF Starts
  <2> QED BY <2>2, <2>4, <2>6, <2>10
<1> HIDE DEF S
<1>6. Nat \subseteq S
  BY <1>4, <1>5, SetInduction
<1>7. at[P - P] \in m[P]
  BY <1>6 DEF S
<1>8. at[0] = 1 /\ P - P = 0
  BY DEF IsCut
<1> QED BY <1>3, <1>7, <1>8

-----------------------------------------------------------------------------
(* What a regular pattern's automaton accepts                              *)

(* A step of a walk is one of the element's whose states it is among, and  *)
(* the element takes the character.                                        *)
StepOf(pattern, B, e, s, next, ch) ==
    /\ Len(B[e - 1]) <= next /\ next <= Len(B[e]) - 1
    /\ \/ next = s + 1
       \/ next = s /\ IsPlus(pattern[e])
    /\ InClass(pattern[e], ch)

LEMMA StepIs ==
    ASSUME NEW pattern, PatternShaped(pattern), Regular(pattern), NEW B, IsBuilt(B, pattern),
           NEW s, NEW ch, NEW next, Takes(B[Len(pattern)], s, ch, next)
    PROVE  \E e \in 1 .. Len(pattern) : StepOf(pattern, B, e, s, next, ch)
<1>1. PICK n \in Nat : n = Len(pattern)
  BY DEF PatternShaped
<1>2. PICK states : states = B[n]
  OBVIOUS
<1>3. Lengths(pattern, B) /\ Owned(pattern, B, n)
  BY <1>1, LengthsAre, OwnedIs
<1>4. PICK L \in Nat \ {0} : L = Len(states)
  BY <1>1, <1>2, <1>3 DEF Lengths
<1>5. PICK i \in 1 .. L : i = s + 1 /\ s \in Nat /\ i - 1 = s
  BY <1>1, <1>2, <1>4 DEF Takes
<1>6. PICK j \in 1 .. Len(states[i]) : Matches(states[i][j], ch) /\ states[i][j].next = next
  BY <1>1, <1>2, <1>5 DEF Takes
<1>7. PICK e \in 1 .. n : OwnedBy(pattern, B, e, i, states[i][j])
  BY <1>2, <1>3, <1>4, <1>6 DEF Owned
<1>8. PICK el : el = pattern[e]
  OBVIOUS
<1>9. PICK K : K = Keys(el) /\ ("." \in K \/ ch \in K)
  BY <1>6, <1>7, <1>8 DEF OwnedBy, Matches
<1>10. Shaped(el)
  BY <1>1, <1>8 DEF PatternShaped
<1>11. InClass(el, ch)
  <2>1. CASE el.kind = "any"
    BY <2>1 DEF InClass
  <2>2. CASE el.kind = "lit"
    <3>1. K = {el.char} /\ el.char # "."
      BY <1>9, <1>10, <2>2 DEF Keys, Shaped
    <3> QED BY <1>9, <2>2, <3>1 DEF InClass
  <2>3. CASE el.kind = "class"
    <3>1. ~el.negate /\ "." \notin el.chars
      BY <1>1, <1>8, <2>3 DEF Regular
    <3>2. K = el.chars
      BY <1>9, <2>3, <3>1 DEF Keys
    <3>3. ch \in el.chars
      BY <1>9, <3>1, <3>2
    <3>4. InClass(el, ch) = ((ch \in el.chars) # el.negate)
      BY <2>3 DEF InClass
    <3> QED BY <3>1, <3>3, <3>4
  <2>4. el.kind # "repeat"
    BY <1>1, <1>8 DEF Regular
  <2> QED BY <1>10, <2>1, <2>2, <2>3, <2>4 DEF Shaped
<1>12. PICK v \in Nat : v = Len(B[e]) /\ e \in 0 .. n
  BY <1>1, <1>3 DEF Lengths
<1>13. PICK u \in Nat : u = Len(B[e - 1]) /\ e - 1 \in 0 .. n /\ u < v
  <2>1. e - 1 \in 0 .. n
    OBVIOUS
  <2>2. PICK w \in Nat \ {0} : w = Width(pattern[e])
    BY <1>1, <1>3 DEF Lengths
  <2>3. Len(B[e - 1]) \in Nat /\ Len(B[e]) = Len(B[e - 1]) + w
    BY <1>1, <1>3, <2>1, <2>2 DEF Lengths
  <2> QED BY <1>12, <2>1, <2>3
<1>14. \/ next = i /\ u <= i /\ i < v
       \/ next = i - 1 /\ i = v /\ IsPlus(pattern[e])
  BY <1>6, <1>7, <1>12, <1>13 DEF OwnedBy
<1>15. StepOf(pattern, B, e, s, next, ch)
  <2>1. u <= next /\ next <= v - 1
    BY <1>5, <1>12, <1>13, <1>14
  <2>2. \/ next = s + 1
        \/ next = s /\ IsPlus(pattern[e])
    BY <1>5, <1>14
  <2> QED BY <1>8, <1>11, <1>12, <1>13, <2>1, <2>2 DEF StepOf
<1> QED BY <1>1, <1>15

(* An accepted text is one the pattern denotes.                            *)
LEMMA RegularAccepts ==
    ASSUME NEW pattern, PatternShaped(pattern), Regular(pattern),
           NEW B, IsBuilt(B, pattern), NEW D, NEW text \in Seq(D),
           NEW a, IsWalk(a, B[Len(pattern)], 0, text), a[Len(text)] = Len(B[Len(pattern)]) - 1
    PROVE  Denotes(pattern, text)
<1>1. PICK n \in Nat : n = Len(pattern)
  BY DEF PatternShaped
<1>2. PICK N \in Nat : N = Len(text)
  OBVIOUS
<1>3. PICK states : states = B[n]
  OBVIOUS
<1>4. PICK CS : CS = KeySets(pattern)
  OBVIOUS
<1>5. states \in Automata(CS)
  BY <1>1, <1>3, <1>4 DEF IsBuilt
<1>6. Lengths(pattern, B)
  BY LengthsAre
<1>7. PICK v : v = [e \in 0 .. n |-> Len(B[e]) - 1]
  OBVIOUS
<1>8. /\ \A e \in 0 .. n : v[e] \in Nat /\ Len(B[e]) = v[e] + 1
      /\ v[0] = 0
      /\ \A e \in 0 .. n, g \in 0 .. n : e <= g => v[e] <= v[g]
      /\ \A e \in 1 .. n : v[e] = v[e - 1] + Width(pattern[e]) /\ Width(pattern[e]) \in Nat \ {0}
  <2>1. \A e \in 0 .. n : Len(B[e]) \in Nat \ {0} /\ v[e] = Len(B[e]) - 1
    BY <1>1, <1>6, <1>7 DEF Lengths
  <2>2. \A e \in 0 .. n : v[e] \in Nat /\ Len(B[e]) = v[e] + 1
    BY <2>1
  <2>3. v[0] = 0
    <3>1. Len(B[0]) = 1
      BY <1>6 DEF Lengths
    <3>2. 0 \in 0 .. n
      OBVIOUS
    <3>3. v[0] = Len(B[0]) - 1
      BY <2>1, <3>2
    <3> QED BY <3>1, <3>3
  <2>4. ASSUME NEW e \in 0 .. n, NEW g \in 0 .. n, e <= g PROVE v[e] <= v[g]
    <3>1. Len(B[e]) <= Len(B[g])
      BY <1>1, <1>6, <2>4 DEF Lengths
    <3> QED BY <2>1, <3>1
  <2>5. ASSUME NEW e \in 1 .. n
        PROVE  v[e] = v[e - 1] + Width(pattern[e]) /\ Width(pattern[e]) \in Nat \ {0}
    <3>1. PICK w \in Nat \ {0} : w = Width(pattern[e])
      BY <1>1, <1>6 DEF Lengths
    <3>2. Len(B[e]) = Len(B[e - 1]) + w
      BY <1>1, <1>6, <3>1 DEF Lengths
    <3>3. e \in 0 .. n /\ e - 1 \in 0 .. n
      OBVIOUS
    <3>4. v[e] = Len(B[e]) - 1 /\ v[e - 1] = Len(B[e - 1]) - 1 /\ Len(B[e - 1]) \in Nat
      BY <2>1, <3>3
    <3> QED BY <3>1, <3>2, <3>4
  <2> QED BY <2>2, <2>3, <2>4, <2>5
<1>9. a[0] = 0 /\ a[N] = v[n] /\ n \in 0 .. n
  BY <1>1, <1>2, <1>3, <1>7 DEF IsWalk
<1>10. \A q \in 1 .. N : Takes(states, a[q - 1], text[q], a[q])
  <2>1. a[N] # Blocked
    BY <1>8, <1>9 DEF Blocked
  <2> QED BY <1>1, <1>2, <1>3, <1>5, <2>1, WalkMoves
<1>11. ASSUME NEW q \in 1 .. N
       PROVE  \E e \in 1 .. n : StepOf(pattern, B, e, a[q - 1], a[q], text[q])
  BY <1>1, <1>3, <1>10, StepIs
<1>12. Climbs(a, N)
  <2> DEFINE S == {k \in Nat : k <= N => a[k] \in Nat}
  <2>1. \A q \in 1 .. N : a[q] \in {a[q - 1], a[q - 1] + 1}
    BY <1>11 DEF StepOf
  <2>2. 0 \in S
    BY <1>9
  <2>3. ASSUME NEW k \in Nat, k \in S PROVE k + 1 \in S
    <3> SUFFICES ASSUME k + 1 <= N PROVE a[k + 1] \in Nat
      OBVIOUS
    <3>1. k + 1 \in 1 .. N /\ (k + 1) - 1 = k /\ a[k] \in Nat
      BY <2>3
    <3>2. a[k + 1] \in {a[k], a[k] + 1}
      BY <2>1, <3>1
    <3> QED BY <3>1, <3>2
  <2> HIDE DEF S
  <2>4. Nat \subseteq S
    BY <2>2, <2>3, SetInduction
  <2>5. \A k \in 0 .. N : a[k] \in Nat
    BY <2>4 DEF S
  <2> QED BY <2>1, <2>5 DEF Climbs
<1>13. \A k \in 0 .. N : a[k] \in Nat
  BY <1>12 DEF Climbs
(* The last time that the walk is at the end of an element.                *)
<1> DEFINE Ends(e, k) == LastAt(a, N, k, v[e])
<1>14. PICK last : last = [e \in 0 .. n |-> CHOOSE k \in 0 .. N : Ends(e, k)]
  OBVIOUS
<1>15. ASSUME NEW e \in 0 .. n PROVE last[e] \in 0 .. N /\ Ends(e, last[e])
  <2>1. 0 \in 0 .. N /\ a[0] <= v[e] /\ v[e] <= a[N] /\ v[e] \in Nat
    BY <1>8, <1>9
  <2>2. \E k \in 0 .. N : Ends(e, k)
    BY <1>12, <2>1, LastIs
  <2> HIDE DEF Ends
  <2> QED BY <1>14, <2>2
<1>16. last[n] = N
  <2>1. PICK k \in 0 .. N : k = last[n]
    BY <1>9, <1>15
  <2>2. a[k] = v[n] /\ (k < N => a[k + 1] = v[n] + 1)
    BY <1>9, <1>15, <2>1 DEF LastAt
  <2>3. CASE k < N
    <3>1. k + 1 \in 0 .. N /\ N \in k + 1 .. N
      BY <2>3
    <3>2. a[k + 1] <= a[N]
      BY <1>12, <3>1, ClimbNeverFalls
    <3> QED BY <1>8, <1>9, <2>2, <2>3, <3>2
  <2> QED BY <2>1, <2>3
<1>17. last[0] = 0
  <2>1. PICK k \in 0 .. N : k = last[0] /\ 0 \in 0 .. n
    BY <1>15
  <2>2. a[k] = 0
    BY <1>8, <1>15, <2>1 DEF LastAt
  <2>3. CASE k > 0
    <3>1. k \in 1 .. N
      BY <2>3
    <3>2. PICK e \in 1 .. n : StepOf(pattern, B, e, a[k - 1], a[k], text[k])
      BY <1>11, <3>1
    <3>3. Len(B[e - 1]) <= 0 /\ e - 1 \in 0 .. n
      BY <2>2, <3>2 DEF StepOf
    <3>4. Len(B[e - 1]) = v[e - 1] + 1 /\ v[e - 1] \in Nat
      BY <1>8, <3>3
    <3> QED BY <3>3, <3>4
  <2> QED BY <2>1, <2>3
<1>18. ASSUME NEW e \in 1 .. n
       PROVE  /\ last[e - 1] <= last[e]
              /\ Repeats(pattern[e], last[e] - last[e - 1])
              /\ \A q \in last[e - 1] + 1 .. last[e] : InClass(pattern[e], text[q])
  <2>1. e \in 0 .. n /\ e - 1 \in 0 .. n
    OBVIOUS
  <2>2. PICK w \in Nat \ {0} : w = Width(pattern[e])
    BY <1>8
  <2>3. PICK x \in Nat : x = v[e - 1]
    BY <1>8, <2>1
  <2>4. PICK y \in Nat : y = v[e] /\ y = x + w
    BY <1>8, <2>1, <2>2, <2>3
  <2>5. PICK k \in 0 .. N : k = last[e - 1]
    BY <1>15, <2>1
  <2>6. PICK m \in 0 .. N : m = last[e]
    BY <1>15, <2>1
  <2>7. a[k] = x /\ (k < N => a[k + 1] = x + 1)
    BY <1>15, <2>1, <2>3, <2>5 DEF LastAt
  <2>8. a[m] = y /\ (m < N => a[m + 1] = y + 1)
    BY <1>15, <2>1, <2>4, <2>6 DEF LastAt
  <2>9. k < m
    <3>1. CASE m < k
      <4>1. m \in 0 .. N /\ k \in m .. N
        BY <3>1
      <4>2. a[m] <= a[k]
        BY <1>12, <4>1, ClimbNeverFalls
      <4> QED BY <2>4, <2>7, <2>8, <4>2
    <3>2. k # m
      BY <2>4, <2>7, <2>8
    <3> QED BY <3>1, <3>2
  <2>10. ASSUME NEW q \in k + 1 .. m
         PROVE  StepOf(pattern, B, e, a[q - 1], a[q], text[q])
    <3>1. q \in 1 .. N /\ k + 1 \in 0 .. N /\ q \in k + 1 .. N /\ q \in 0 .. N /\ m \in q .. N
      BY <2>9
    <3>2. x + 1 <= a[q]
      BY <1>12, <2>7, <2>9, <3>1, ClimbNeverFalls
    <3>3. a[q] <= y
      BY <1>12, <2>8, <3>1, ClimbNeverFalls
    <3>4. PICK g \in 1 .. n : StepOf(pattern, B, g, a[q - 1], a[q], text[q])
      BY <1>11, <3>1
    <3>5. g \in 0 .. n /\ g - 1 \in 0 .. n /\ a[q] \in Nat
      BY <1>13, <3>1
    <3>6. v[g - 1] + 1 <= a[q] /\ a[q] <= v[g]
      <4>1. Len(B[g - 1]) = v[g - 1] + 1 /\ Len(B[g]) = v[g] + 1 /\ v[g] \in Nat
        BY <1>8, <3>5
      <4>2. Len(B[g - 1]) <= a[q] /\ a[q] <= Len(B[g]) - 1
        BY <3>4 DEF StepOf
      <4> QED BY <4>1, <4>2
    <3>7. ~(g < e)
      <4> SUFFICES ASSUME g < e PROVE FALSE
        OBVIOUS
      <4>1. v[g] <= v[e - 1]
        BY <1>8, <2>1, <3>5
      <4>2. PICK z \in Nat : z = v[g]
        BY <1>8, <3>5
      <4> QED BY <2>3, <3>2, <3>5, <3>6, <4>1, <4>2, SMTT(30)
    <3>8. ~(e < g)
      <4> SUFFICES ASSUME e < g PROVE FALSE
        OBVIOUS
      <4>1. v[e] <= v[g - 1]
        BY <1>8, <2>1, <3>5
      <4>2. PICK z \in Nat : z = v[g - 1]
        BY <1>8, <3>5
      <4> QED BY <2>4, <3>3, <3>5, <3>6, <4>1, <4>2
    <3> QED BY <3>4, <3>7, <3>8
  <2>11. \A q \in k + 1 .. m : InClass(pattern[e], text[q])
    BY <2>10 DEF StepOf
  <2>12. PICK el : el = pattern[e]
    OBVIOUS
  <2>13. CASE IsPlus(el)
    <3>1. Repeats(el, m - k)
      BY <2>9, <2>13 DEF Repeats, IsPlus
    <3> QED BY <2>5, <2>6, <2>9, <2>11, <2>12, <3>1
  <2>14. CASE ~IsPlus(el)
    <3>1. \A q \in k + 1 .. m : a[q] = a[q - 1] + 1
      BY <2>10, <2>12, <2>14 DEF StepOf
    <3>2. m \in k .. N
      BY <2>9
    <3>3. a[m] = a[k] + (m - k)
      BY <1>12, <3>1, <3>2, ClimbWithoutRest
    <3>4. m - k = w
      BY <2>4, <2>7, <2>8, <3>3
    <3>5. Repeats(el, w)
      <4>1. w = Width(el) /\ Shaped(el)
        BY <1>1, <2>2, <2>12 DEF PatternShaped
      <4>2. el.kind = "class" => el.rep # "star" /\ (el.rep = "count" => el.count > 0)
        BY <1>1, <2>12 DEF Regular
      <4>3. CASE el.kind # "class"
        BY <4>1, <4>3 DEF Width, Repeats
      <4>4. CASE el.kind = "class" /\ el.rep = "one"
        BY <4>1, <4>4 DEF Width, Repeats
      <4>5. CASE el.kind = "class" /\ el.rep = "count"
        <5>1. PICK c \in Nat \ {0} : c = el.count
          BY <4>1, <4>2, <4>5 DEF Shaped
        <5>2. w = c
          BY <4>1, <4>5, <5>1 DEF Width
        <5> QED BY <4>5, <5>1, <5>2 DEF Repeats
      <4> QED BY <2>14, <4>1, <4>2, <4>3, <4>4, <4>5 DEF Shaped, IsPlus
    <3> QED BY <2>5, <2>6, <2>9, <2>11, <2>12, <3>4, <3>5
  <2> QED BY <2>13, <2>14
<1> HIDE DEF Ends
<1>19. PICK at : at = [e \in 0 .. n |-> last[e] + 1]
  OBVIOUS
<1>20. \A e \in 0 .. n : at[e] = last[e] + 1 /\ last[e] \in 0 .. N /\ at[e] \in 1 .. N + 1
  <2> SUFFICES ASSUME NEW e \in 0 .. n
               PROVE  at[e] = last[e] + 1 /\ last[e] \in 0 .. N /\ at[e] \in 1 .. N + 1
    OBVIOUS
  <2>1. at[e] = last[e] + 1 /\ last[e] \in 0 .. N
    BY <1>15, <1>19
  <2> QED BY <2>1
<1>21. ASSUME NEW e \in 1 .. n
       PROVE  /\ at[e - 1] <= at[e]
              /\ Repeats(pattern[e], at[e] - at[e - 1])
              /\ \A k \in at[e - 1] .. at[e] - 1 : InClass(pattern[e], text[k])
  <2>1. e \in 0 .. n /\ e - 1 \in 0 .. n
    OBVIOUS
  <2>2. PICK k \in 0 .. N : k = last[e - 1] /\ at[e - 1] = k + 1
    BY <1>20, <2>1
  <2>3. PICK m \in 0 .. N : m = last[e] /\ at[e] = m + 1
    BY <1>20, <2>1
  <2>4. k <= m /\ Repeats(pattern[e], m - k) /\ \A q \in k + 1 .. m : InClass(pattern[e], text[q])
    BY <1>18, <2>2, <2>3
  <2>5. (m + 1) - (k + 1) = m - k /\ (m + 1) - 1 = m /\ k + 1 <= m + 1
    BY <2>4
  <2> QED BY <2>2, <2>3, <2>4, <2>5
<1>22. at[0] = 1 /\ at[n] = N + 1
  BY <1>9, <1>16, <1>17, <1>20
<1>23. IsCut(at, pattern, text)
  BY <1>1, <1>2, <1>20, <1>21, <1>22 DEF IsCut
<1> QED BY <1>1, <1>2, <1>23, CutDenotes

-----------------------------------------------------------------------------
(* Walks and texts that go on                                              *)

LEMMA WalkOn ==
    ASSUME NEW CS, NEW states \in Automata(CS), NEW s, NEW D, NEW t \in Seq(D), NEW u \in Seq(D),
           NEW e, e = WalkFrom(states, s, t)
    PROVE  WalkFrom(states, s, t \o u) = WalkFrom(states, e, u)
<1>1. PICK n \in Nat : n = Len(t)
  OBVIOUS
<1>2. PICK m \in Nat : m = Len(u)
  OBVIOUS
<1>3. PICK x \in Seq(D) : x = t \o u
  <2>1. t \o u \in Seq(D)
    OBVIOUS
  <2> QED BY <2>1, Zenon
<1>4. Len(x) = n + m /\ (\A k \in 1 .. n : x[k] = t[k]) /\ (\A k \in 1 .. m : x[n + k] = u[k])
  BY <1>1, <1>2, <1>3
<1>5. PICK a : a = Walk(states, s, x)
  OBVIOUS
<1>6. PICK b : b = Walk(states, s, t)
  OBVIOUS
<1>7. PICK c : c = Walk(states, e, u)
  OBVIOUS
<1>8. a[0] = s /\ \A k \in 1 .. n + m : a[k] = StepFrom(states, a[k - 1], x[k])
  BY <1>4, <1>5, WalkIs, SMTT(30) DEF IsWalk
<1>9. b[0] = s /\ \A k \in 1 .. n : b[k] = StepFrom(states, b[k - 1], t[k])
  BY <1>1, <1>6, WalkIs DEF IsWalk
<1>10. c[0] = e /\ \A k \in 1 .. m : c[k] = StepFrom(states, c[k - 1], u[k])
  BY <1>2, <1>7, WalkIs DEF IsWalk
<1> DEFINE S == {k \in Nat : k <= n => a[k] = b[k]}
<1>11. 0 \in S
  BY <1>8, <1>9
<1>12. ASSUME NEW k \in Nat, k \in S PROVE k + 1 \in S
  <2> SUFFICES ASSUME k + 1 <= n PROVE a[k + 1] = b[k + 1]
    OBVIOUS
  <2>1. k + 1 \in 1 .. n + m /\ k + 1 \in 1 .. n /\ (k + 1) - 1 = k /\ a[k] = b[k]
    BY <1>12
  <2>2. x[k + 1] = t[k + 1]
    BY <1>4, <2>1
  <2>3. a[k + 1] = StepFrom(states, a[k], x[k + 1]) /\ b[k + 1] = StepFrom(states, b[k], t[k + 1])
    BY <1>8, <1>9, <2>1
  <2> QED BY <2>1, <2>2, <2>3
<1> HIDE DEF S
<1>13. Nat \subseteq S
  BY <1>11, <1>12, SetInduction
<1>14. a[n] = e
  <2>1. a[n] = b[n]
    BY <1>13 DEF S
  <2> QED BY <1>1, <1>6, <2>1 DEF WalkFrom
<1> DEFINE U == {k \in Nat : k <= m => a[n + k] = c[k]}
<1>15. 0 \in U
  BY <1>10, <1>14
<1>16. ASSUME NEW k \in Nat, k \in U PROVE k + 1 \in U
  <2> SUFFICES ASSUME k + 1 <= m PROVE a[n + (k + 1)] = c[k + 1]
    OBVIOUS
  <2>1. /\ n + (k + 1) \in 1 .. n + m /\ k + 1 \in 1 .. m /\ (k + 1) - 1 = k
        /\ (n + (k + 1)) - 1 = n + k /\ a[n + k] = c[k]
    BY <1>16
  <2>2. x[n + (k + 1)] = u[k + 1]
    BY <1>4, <2>1
  <2>3. /\ a[n + (k + 1)] = StepFrom(states, a[n + k], x[n + (k + 1)])
        /\ c[k + 1] = StepFrom(states, c[k], u[k + 1])
    BY <1>8, <1>10, <2>1
  <2> QED BY <2>1, <2>2, <2>3
<1> HIDE DEF U
<1>17. Nat \subseteq U
  BY <1>15, <1>16, SetInduction
<1>18. a[n + m] = c[m]
  BY <1>17 DEF U
<1> QED BY <1>2, <1>3, <1>4, <1>5, <1>7, <1>18 DEF WalkFrom

(* The characters of the vocabulary.                                       *)
Letters == UNION { ToSet(FsmVocab[id]) : id \in DOMAIN FsmVocab }

LEMMA TextIs ==
    ASSUME NEW out \in Seq(DOMAIN FsmVocab), NEW t \in DOMAIN FsmVocab
    PROVE  /\ StructuredText(out) \in Seq(Letters)
           /\ StructuredText(Append(out, t)) = StructuredText(out) \o FsmVocab[t]
<1>1. PICK n \in Nat : n = Len(out)
  OBVIOUS
<1>2. PICK D : D = Letters
  OBVIOUS
<1>3. \A id \in DOMAIN FsmVocab : FsmVocab[id] \in Seq(D)
  BY <1>2, VocabAssumption DEF Letters
<1>4. PICK p : p = [i \in 1 .. n |-> FsmVocab[out[i]]]
  OBVIOUS
<1>5. PICK longer \in Seq(DOMAIN FsmVocab) : longer = Append(out, t)
  <2>1. Append(out, t) \in Seq(DOMAIN FsmVocab)
    OBVIOUS
  <2> QED BY <2>1, Zenon
<1>6. Len(longer) = n + 1 /\ longer[n + 1] = t /\ \A i \in 1 .. n : longer[i] = out[i]
  BY <1>1, <1>5
<1>7. PICK r : r = [i \in 1 .. n + 1 |-> FsmVocab[longer[i]]]
  OBVIOUS
<1>8. p \in [1 .. n -> Seq(D)]
  BY <1>1, <1>3, <1>4
<1>9. r \in [1 .. n + 1 -> Seq(D)]
  BY <1>3, <1>6, <1>7
<1>10. r[n + 1] = FsmVocab[t] /\ \A i \in 1 .. n : r[i] = p[i]
  BY <1>4, <1>6, <1>7
<1>11. StructuredText(out) = FlattenSeq(p) /\ StructuredText(longer) = FlattenSeq(r)
  BY <1>1, <1>4, <1>6, <1>7 DEF StructuredText
<1>12. PICK g : IsFlatten(g, p, n, D)
  BY <1>8, FlattenPrefixes
<1>13. PICK h : IsFlatten(h, r, n + 1, D)
  <2>1. n + 1 \in Nat
    OBVIOUS
  <2> QED BY <1>9, <2>1, FlattenPrefixes
<1>14. /\ g[0] = <<>> /\ h[0] = <<>> /\ FlattenSeq(p) = g[n] /\ FlattenSeq(r) = h[n + 1]
       /\ g \in [0 .. n -> Seq(D)]
  BY <1>12, <1>13 DEF IsFlatten
<1>15. (\A i \in 1 .. n : Longer(g, p, i)) /\ \A i \in 1 .. n + 1 : Longer(h, r, i)
  BY <1>12, <1>13, FlattenLonger
<1> DEFINE S == {i \in Nat : i <= n => h[i] = g[i]}
<1>16. 0 \in S
  BY <1>14
<1>17. ASSUME NEW i \in Nat, i \in S PROVE i + 1 \in S
  <2> SUFFICES ASSUME i + 1 <= n PROVE h[i + 1] = g[i + 1]
    OBVIOUS
  <2>1. i + 1 \in 1 .. n /\ i + 1 \in 1 .. n + 1 /\ (i + 1) - 1 = i /\ h[i] = g[i]
    BY <1>17
  <2>2. Longer(g, p, i + 1) /\ Longer(h, r, i + 1) /\ r[i + 1] = p[i + 1]
    BY <1>10, <1>15, <2>1
  <2> QED BY <2>1, <2>2, Zenon DEF Longer
<1> HIDE DEF S
<1>18. Nat \subseteq S
  BY <1>16, <1>17, SetInduction
<1>19. h[n] = g[n]
  BY <1>18 DEF S
<1>20. h[n + 1] = g[n] \o FsmVocab[t]
  <2>1. n + 1 \in 1 .. n + 1 /\ (n + 1) - 1 = n
    OBVIOUS
  <2>2. Longer(h, r, n + 1)
    BY <1>15, <2>1
  <2> QED BY <1>10, <1>19, <2>1, <2>2, Zenon DEF Longer
<1>21. g[n] \in Seq(D)
  BY <1>14
<1> QED BY <1>2, <1>5, <1>11, <1>14, <1>20, <1>21, Zenon

LEMMA NoText == StructuredText(<<>>) = <<>>
<1>1. PICK p : p = [i \in 1 .. 0 |-> FsmVocab[<<>>[i]]]
  OBVIOUS
<1>2. StructuredText(<<>>) = FlattenSeq(p)
  BY <1>1 DEF StructuredText
<1>3. p \in [1 .. 0 -> Seq({})] /\ 0 \in Nat
  BY <1>1
<1>4. PICK g : IsFlatten(g, p, 0, {})
  BY <1>3, FlattenPrefixes
<1> QED BY <1>2, <1>4 DEF IsFlatten

(* A token cannot take the automaton to another pattern.                   *)
LEMMA AdvanceKeepsStates ==
    ASSUME NEW CS, NEW states \in Automata(CS) \cup {<<>>}, NEW f,
           f \in [states : {states}, current : Int, complete : BOOLEAN, broken : BOOLEAN],
           NEW id \in DOMAIN FsmVocab
    PROVE  AdvanceToken(f, id) \in [states : {states}, current : Int,
                                    complete : BOOLEAN, broken : BOOLEAN]
<1>1. PICK tok : tok = FsmVocab[id]
  OBVIOUS
<1>2. tok \in Seq(Letters)
  BY <1>1, VocabAssumption DEF Letters
<1>3. PICK n \in Nat : n = Len(tok)
  BY <1>2
<1> DEFINE V == [states : {states}, current : Int, complete : BOOLEAN, broken : BOOLEAN]
           F == [iv \in (0 .. n - 1) \X V |-> Advance(iv[2], tok[iv[1] + 1])]
           Eqn(h) == h = [k \in 0 .. n |-> IF k = 0 THEN f ELSE Advance(h[k - 1], tok[k])]
<1>4. ASSUME NEW v \in V, NEW ch PROVE Advance(v, ch) \in V
  <2>1. v.states = states /\ v.current \in Int /\ v.complete \in BOOLEAN
    OBVIOUS
  <2>2. PICK next : next = StepFrom(v.states, v.current, ch)
    OBVIOUS
  <2>3. next \in Int
    <3>1. CASE states = <<>>
      <4>1. v.current \notin 0 .. Len(states) - 1
        BY <3>1
      <4> QED BY <2>1, <2>2, <4>1 DEF StepFrom, Blocked
    <3>2. CASE states \in Automata(CS)
      <4>1. CASE next = Blocked
        BY <4>1 DEF Blocked
      <4>2. CASE Takes(states, v.current, ch, next)
        <5>1. PICK s \in 0 .. Len(states) - 1 : s = v.current
          BY <4>2 DEF Takes
        <5>2. PICK j \in 1 .. Len(states[s + 1]) : states[s + 1][j].next = next
          BY <4>2, <5>1 DEF Takes
        <5>3. s + 1 \in 1 .. Len(states) /\ states \in Seq(Seq(Moves(CS)))
          BY <3>2, <5>1 DEF Automata
        <5>4. states[s + 1][j] \in Moves(CS)
          BY <5>2, <5>3
        <5> QED BY <5>2, <5>4 DEF Moves
      <4> QED BY <2>1, <2>2, <3>2, <4>1, <4>2, StepFromIs
    <3> QED BY <3>1, <3>2
  <2>4. PICK b \in BOOLEAN : b = (v.complete \/ Accepting(v.states, next))
    OBVIOUS
  <2>5. [v EXCEPT !.current = next, !.complete = b] \in V
    BY <2>3, <2>4
  <2>6. [v EXCEPT !.complete = TRUE] \in V /\ [v EXCEPT !.complete = TRUE, !.broken = TRUE] \in V
    OBVIOUS
  <2> HIDE DEF V
  <2>7. CASE v.current >= Len(v.states)
    BY <2>6, <2>7 DEF Advance
  <2>8. CASE ~(v.current >= Len(v.states)) /\ next = Blocked
    BY <2>2, <2>6, <2>8 DEF Advance
  <2>9. CASE ~(v.current >= Len(v.states)) /\ next # Blocked
    <3>1. Advance(v, ch) = [v EXCEPT !.current = next, !.complete = b]
      BY <2>2, <2>4, <2>9 DEF Advance
    <3> QED BY <2>5, <3>1
  <2> QED BY <2>7, <2>8, <2>9
<1>5. ASSUME NEW i \in 0 .. n - 1, NEW v \in V
      PROVE  F[<<i, v>>] = Advance(v, tok[i + 1]) /\ F[<<i, v>>] \in V
  <2>1. Advance(v, tok[i + 1]) \in V
    BY <1>4
  <2> HIDE DEF V
  <2> QED BY <2>1
<1>6. f \in V
  OBVIOUS
<1> HIDE DEF F, V
<1>7. PICK g : IsRec(g, n, f, F, V)
  BY <1>5, <1>6, RecUpTo
<1>8. g \in [0 .. n -> V] /\ g[0] = f
  BY <1>7 DEF IsRec
<1>9. ASSUME NEW k \in 0 .. n, k # 0 PROVE g[k] = Advance(g[k - 1], tok[k])
  <2>1. k - 1 \in 0 .. n - 1 /\ (k - 1) + 1 = k /\ k - 1 \in 0 .. n
    BY <1>9
  <2>2. g[(k - 1) + 1] = F[<<k - 1, g[k - 1]>>] /\ g[k - 1] \in V
    BY <1>7, <1>8, <2>1 DEF IsRec
  <2>3. F[<<k - 1, g[k - 1]>>] = Advance(g[k - 1], tok[(k - 1) + 1])
    BY <1>5, <2>1, <2>2
  <2> QED BY <2>1, <2>2, <2>3
<1>10. Eqn(g)
  BY <1>8, <1>9
<1> DEFINE h == CHOOSE h : Eqn(h)
<1>11. Eqn(h)
  BY <1>10
<1>12. AdvanceToken(f, id) = h[n]
  BY <1>1, <1>3 DEF AdvanceToken, Advances
<1> HIDE DEF h
<1>13. h[0] = f /\ \A k \in 1 .. n : h[k] = Advance(h[k - 1], tok[k])
  <2>1. \A k \in 0 .. n : h[k] = IF k = 0 THEN f ELSE Advance(h[k - 1], tok[k])
    BY <1>11
  <2>2. 0 \in 0 .. n /\ \A k \in 1 .. n : k \in 0 .. n /\ k # 0
    OBVIOUS
  <2> QED BY <2>1, <2>2
<1> DEFINE S == {k \in Nat : k <= n => h[k] \in V}
<1>14. 0 \in S
  BY <1>6, <1>13
<1>15. ASSUME NEW k \in Nat, k \in S PROVE k + 1 \in S
  <2> SUFFICES ASSUME k + 1 <= n PROVE h[k + 1] \in V
    OBVIOUS
  <2>1. k + 1 \in 1 .. n /\ (k + 1) - 1 = k /\ h[k] \in V
    BY <1>15
  <2>2. h[k + 1] = Advance(h[k], tok[k + 1])
    BY <1>13, <2>1
  <2> QED BY <1>4, <2>1, <2>2
<1> HIDE DEF S
<1>16. Nat \subseteq S
  BY <1>14, <1>15, SetInduction
<1>17. h[n] \in V
  BY <1>16 DEF S
<1> QED BY <1>12, <1>17 DEF V
-----------------------------------------------------------------------------
(* The logits of a client                                                  *)

Vocab(s) == 0 .. s.model.vocab - 1

(* The client at work is the one built from s.                             *)
Client(s) == /\ s \in LLMSetups /\ cfg = s.config
             /\ "m" \in DOMAIN chassis /\ chassis.m = s.model

LEMMA LogitsAre ==
    ASSUME NEW s, Client(s), NEW prompt \in Seq(Vocab(s)), prompt # <<>>,
           NEW out \in Seq(Vocab(s)), Len(out) <= cfg.max
    PROVE  LogitsOf(prompt, out) \in [Vocab(s) -> LogitsMet(s)]
<1>1. s \in LLMSetups /\ cfg = s.config /\ chassis.m.vocab = s.model.vocab
  BY DEF Client
<1>2. PICK prev : prev = LastOf(prompt, out)
  OBVIOUS
<1>3. prev \in Vocab(s)
  <2>1. CASE out = <<>>
    <3>1. Len(prompt) \in 1 .. Len(prompt)
      OBVIOUS
    <3> QED BY <1>2, <2>1, <3>1 DEF LastOf, Last
  <2>2. CASE out # <<>>
    <3>1. Len(out) \in 1 .. Len(out)
      BY <2>2
    <3> QED BY <1>2, <2>2, <3>1 DEF LastOf, Last
  <2> QED BY <2>1, <2>2
<1>4. s.config.max \in Nat /\ Len(out) \in 0 .. s.config.max
  <2>1. s.config.max \in Nat
    BY <1>1, ClientAssumption
  <2>2. Len(out) \in Nat
    OBVIOUS
  <2> QED BY <1>1, <2>1, <2>2
<1>5. ASSUME NEW t PROVE Occurrences(out, t) \in 0 .. s.config.max
  <2>1. PICK I : I = { i \in 1 .. Len(out) : out[i] = t }
    OBVIOUS
  <2>2. PICK n \in Nat : n = Len(out)
    OBVIOUS
  <2>3. IsFiniteSet(1 .. n) /\ Cardinality(1 .. n) = n
    BY FS_Interval
  <2>4. I \subseteq 1 .. n
    BY <2>1, <2>2
  <2>5. IsFiniteSet(I) /\ Cardinality(I) <= n
    BY <2>3, <2>4, FS_Subset
  <2>6. Cardinality(I) \in Nat
    BY <2>5, FS_CardinalityType
  <2>7. Occurrences(out, t) = Cardinality(I)
    BY <2>1 DEF Occurrences
  <2> QED BY <1>4, <2>2, <2>5, <2>6, <2>7
<1>6. ASSUME NEW t \in Vocab(s)
      PROVE  Penalised(cfg, Logit(prev, Len(out), t), Occurrences(out, t)) \in LogitsMet(s)
  <2>1. PICK n \in 0 .. s.config.max : n = Occurrences(out, t)
    BY <1>5
  <2>2. PICK step \in 0 .. s.config.max : step = Len(out)
    BY <1>4
  <2> QED BY <1>1, <1>3, <2>1, <2>2 DEF LogitsMet, Vocab
<1>7. LogitsOf(prompt, out)
        = [t \in Vocab(s) |-> Penalised(cfg, Logit(prev, Len(out), t), Occurrences(out, t))]
  BY <1>1, <1>2 DEF LogitsOf, SimulateLogits, Vocab
<1> QED BY <1>6, <1>7

LEMMA WeighedIs ==
    ASSUME NEW s \in LLMSetups, NEW logits \in [Vocab(s) -> LogitsMet(s)],
           NEW mask, mask \subseteq Vocab(s), mask # {}
    PROVE  /\ s.model.vocab \in Nat \ {0}
           /\ Weighed(Eligible(logits, mask), s.model.vocab)
           /\ \A t \in Vocab(s) : Eligible(logits, mask)[t] # Masked <=> t \in mask
<1>1. PICK n \in Nat \ {0} : n = s.model.vocab
  BY ClientAssumption
<1>2. PICK e : e = Eligible(logits, mask)
  OBVIOUS
<1>3. PICK M : M = LogitsMet(s)
  OBVIOUS
<1>4. /\ \A l \in M : l \in Int /\ Masked < l /\ Weight(l) \in Nat \ {0}
      /\ \A k \in M : \A l \in M : k <= l => Weight(k) <= Weight(l)
  <2>1. M \subseteq Int /\ \A l \in M : Masked < l
    BY <1>3, ClientAssumption
  <2>2. \A k \in M : /\ Weight(k) \in Nat \ {0}
                     /\ \A l \in M : k <= l => Weight(k) <= Weight(l)
    BY <1>3, ClientAssumption
  <2> QED BY <2>1, <2>2
<1>5. e = [t \in 0 .. n - 1 |-> IF t \in mask THEN logits[t] ELSE Masked]
  <2>1. DOMAIN logits = 0 .. n - 1
    BY <1>1 DEF Vocab
  <2> QED BY <1>2, <2>1 DEF Eligible
<1>6. \A t \in 0 .. n - 1 : logits[t] \in M
  BY <1>1, <1>3 DEF Vocab
<1>7. \A t \in 0 .. n - 1 : \/ t \in mask /\ e[t] = logits[t] /\ e[t] \in M
                            \/ t \notin mask /\ e[t] = Masked
  BY <1>5, <1>6
<1>8. Masked \in Int
  BY DEF Masked
<1>9. ASSUME NEW t \in 0 .. n - 1
      PROVE  \/ t \in mask /\ e[t] \in M /\ ProbOf(e, t) = Weight(e[t]) /\ e[t] # Masked
             \/ t \notin mask /\ e[t] = Masked /\ ProbOf(e, t) = 0
  <2>1. CASE t \in mask
    <3>1. e[t] \in M
      BY <1>7, <2>1
    <3>2. e[t] # Masked
      BY <1>4, <1>8, <3>1
    <3> QED BY <2>1, <3>1, <3>2 DEF ProbOf
  <2>2. CASE t \notin mask
    BY <1>7, <2>2 DEF ProbOf
  <2> QED BY <2>1, <2>2
<1>10. ASSUME NEW t \in 0 .. n - 1
       PROVE  /\ e[t] \in Int /\ ProbOf(e, t) \in Nat /\ Masked <= e[t]
              /\ ProbOf(e, t) = 0 <=> e[t] = Masked
  <2>1. CASE t \in mask
    <3>1. PICK l \in M : l = e[t] /\ ProbOf(e, t) = Weight(l) /\ l # Masked
      BY <1>9, <2>1
    <3>2. PICK w \in Nat \ {0} : w = Weight(l)
      BY <1>4
    <3>3. l \in Int /\ Masked < l
      BY <1>4
    <3> QED BY <1>8, <3>1, <3>2, <3>3
  <2>2. CASE t \notin mask
    BY <1>8, <1>9, <2>2
  <2> QED BY <2>1, <2>2
<1>11. ASSUME NEW t \in 0 .. n - 1, NEW u \in 0 .. n - 1, e[t] <= e[u]
       PROVE  ProbOf(e, t) <= ProbOf(e, u)
  <2>1. CASE t \notin mask
    BY <1>9, <1>10, <2>1
  <2>2. CASE t \in mask /\ u \in mask
    <3>1. PICK k \in M : k = e[t] /\ ProbOf(e, t) = Weight(k)
      BY <1>9, <2>2
    <3>2. PICK l \in M : l = e[u] /\ ProbOf(e, u) = Weight(l)
      BY <1>9, <2>2
    <3> QED BY <1>4, <1>11, <3>1, <3>2
  <2>3. CASE t \in mask /\ u \notin mask
    <3>1. PICK k \in M : k = e[t]
      BY <1>9, <2>3
    <3>2. e[u] = Masked /\ Masked < k /\ k \in Int
      BY <1>4, <1>9, <2>3, <3>1
    <3> QED BY <1>8, <1>11, <3>1, <3>2
  <2> QED BY <2>1, <2>2, <2>3
<1>12. e \in [0 .. n - 1 -> Int]
  BY <1>5, <1>10
<1>13. Weighed(e, n)
  BY <1>10, <1>11, <1>12 DEF Weighed
<1>14. \A t \in 0 .. n - 1 : e[t] # Masked <=> t \in mask
  BY <1>9
<1> QED BY <1>1, <1>2, <1>13, <1>14 DEF Vocab

(* What is sampled is eligible, and as the configuration has it.           *)
LEMMA DecodeIs ==
    ASSUME NEW s, Client(s), NEW prompt \in Seq(Vocab(s)), prompt # <<>>,
           NEW out \in Seq(Vocab(s)), Len(out) <= cfg.max,
           NEW mask, mask \subseteq Vocab(s), mask # {}
    PROVE  /\ Decode(prompt, out, mask) \in mask
           /\ Weighed(Eligible(LogitsOf(prompt, out), mask), s.model.vocab)
           /\ Picked(cfg, Eligible(LogitsOf(prompt, out), mask), s.model.vocab,
                     Decode(prompt, out, mask))
<1>1. s \in LLMSetups /\ cfg = s.config
  BY DEF Client
<1>2. PICK logits \in [Vocab(s) -> LogitsMet(s)] : logits = LogitsOf(prompt, out)
  BY LogitsAre
<1>3. PICK n : n = s.model.vocab
  OBVIOUS
<1>4. PICK e : e = Eligible(logits, mask)
  OBVIOUS
<1>5. n \in Nat \ {0} /\ Weighed(e, n) /\ \A t \in 0 .. n - 1 : e[t] # Masked <=> t \in mask
  <2>1. /\ s.model.vocab \in Nat \ {0} /\ Weighed(e, s.model.vocab)
        /\ \A t \in Vocab(s) : e[t] # Masked <=> t \in mask
    BY <1>1, <1>2, <1>4, WeighedIs
  <2> QED BY <1>3, <2>1 DEF Vocab
<1>6. \E t \in 0 .. n - 1 : e[t] # Masked
  BY <1>3, <1>5 DEF Vocab
<1>7. /\ cfg.topk \in Int /\ cfg.minp \in Int /\ cfg.topp \in Int /\ cfg.temperature \in Int
      /\ \A t \in 0 .. n - 1 : Draw(t) \in 0 .. 100
  <2>1. {s.config.temperature, s.config.topk, s.config.minp, s.config.topp} \subseteq Int
    BY <1>1, ClientAssumption
  <2>2. \A t \in 0 .. s.model.vocab - 1 : Draw(t) \in 0 .. 100
    BY <1>1, ClientAssumption
  <2> QED BY <1>1, <1>3, <2>1, <2>2
<1>8. PICK t : t = Sample(cfg, logits, mask)
  OBVIOUS
<1>9. Picked(cfg, e, n, t)
  BY <1>4, <1>5, <1>6, <1>7, <1>8, SampleIs
<1>10. t \in mask
  BY <1>5, <1>9 DEF Picked
<1>11. Decode(prompt, out, mask) = t
  BY <1>2, <1>8 DEF Decode
<1> QED BY <1>2, <1>3, <1>4, <1>5, <1>9, <1>10, <1>11
-----------------------------------------------------------------------------
(* What the filters let through                                            *)

LEMMA PassesFilters ==
    ASSUME NEW c, c.topk \in Int, c.minp \in Int, c.topp \in Int, c.temperature \in Int,
           NEW n \in Nat \ {0}, NEW logits, Weighed(logits, n), NEW t, Picked(c, logits, n, t)
    PROVE  LET all   == Descending(logits)
               above == Among(all, { u \in 0 .. n - 1 : logits[u] > logits[t] })
           IN  IF c.temperature <= 0 \/ c.minp > 100 THEN above = <<>>
               ELSE /\ c.topk > 0 => Len(above) < c.topk
                    /\ ProbOf(logits, t) * 100 >= c.minp * ProbOf(logits, all[1])
                    /\ c.topp > 0 => ProbSum(logits, above) * 100 < c.topp * ProbSum(logits, all)
<1>1. PICK all : all = Descending(logits)
  OBVIOUS
<1>2. PICK set : set = { u \in 0 .. n - 1 : logits[u] > logits[t] }
  OBVIOUS
<1>3. PICK above : above = Among(all, set)
  OBVIOUS
<1>4. PICK C : C = Cumulated(logits, all)
  OBVIOUS
<1>5. t \in 0 .. n - 1 /\ \A u \in 0 .. n - 1 : logits[u] \in Int /\ ProbOf(logits, u) \in Nat
  BY DEF Weighed, Picked
<1>6. /\ all \in Seq(0 .. n - 1) /\ Len(all) = n
      /\ \A i \in 1 .. n, j \in 1 .. n : i < j => logits[all[j]] <= logits[all[i]]
  BY <1>1, FirstIsBest
<1>7. \A i \in 1 .. n : all[i] \in 0 .. n - 1
  BY <1>6
<1>8. PICK m : Leading(all, set, m)
  <2>1. ASSUME NEW i \in 1 .. Len(all), NEW j \in 1 .. Len(all), i < j, all[j] \in set
        PROVE  all[i] \in set
    <3>1. logits[all[j]] > logits[t] /\ logits[all[j]] <= logits[all[i]]
      BY <1>2, <1>6, <2>1
    <3>2. all[i] \in 0 .. n - 1 /\ all[j] \in 0 .. n - 1
      BY <1>6, <1>7
    <3>3. logits[all[i]] > logits[t]
      <4>1. PICK x \in Int : x = logits[all[i]]
        BY <1>5, <3>2
      <4>2. PICK y \in Int : y = logits[all[j]]
        BY <1>5, <3>2
      <4>3. PICK z \in Int : z = logits[t]
        BY <1>5
      <4> QED BY <3>1, <4>1, <4>2, <4>3
    <3> QED BY <1>2, <3>2, <3>3
  <2> QED BY <1>6, <2>1, AmongIsPrefix
<1>9. /\ m \in 0 .. n /\ above = SubSeq(all, 1, m)
      /\ \A i \in 1 .. n : all[i] \in set <=> i <= m
  BY <1>3, <1>6, <1>8 DEF Leading
<1>10. Len(above) = m
  BY <1>6, <1>9
<1>11. CASE c.temperature <= 0 \/ c.minp > 100
  <2>1. \A u \in 0 .. n - 1 : logits[u] <= logits[t]
    BY <1>11 DEF Picked, Likeliest
  <2>2. set = {}
    BY <1>2, <1>5, <2>1
  <2>3. m = 0
    <3>1. CASE m > 0
      <4>1. 1 \in 1 .. n /\ 1 <= m
        BY <1>9, <3>1
      <4> QED BY <1>9, <2>2, <4>1
    <3> QED BY <1>9, <3>1
  <2>4. above = <<>>
    BY <1>6, <1>9, <2>3
  <2> QED BY <1>1, <1>2, <1>3, <1>11, <2>4
<1>12. CASE ~(c.temperature <= 0 \/ c.minp > 100)
  <2>1. c.temperature > 0 /\ c.minp <= 100
    BY <1>12
  <2>2. PICK i \in 1 .. n : /\ all[i] = t
                            /\ c.topk > 0 => i <= c.topk
                            /\ ProbOf(logits, t) * 100 >= c.minp * ProbOf(logits, all[1])
                            /\ c.topp > 0 => C[i - 1] * 100 < c.topp * C[n]
    BY <1>1, <1>4, <2>1 DEF Picked
  <2>3. t \notin set
    BY <1>2, <1>5
  <2>4. m <= i - 1
    <3>1. ~(i <= m)
      BY <1>9, <2>2, <2>3
    <3> QED BY <1>9, <3>1
  <2>5. c.topk > 0 => Len(above) < c.topk
    <3>1. PICK k \in Int : k = c.topk
      OBVIOUS
    <3> QED BY <1>9, <1>10, <2>2, <2>4, <3>1
  <2>6. c.topp > 0 => ProbSum(logits, above) * 100 < c.topp * ProbSum(logits, all)
    <3>1. Likely(logits, 0 .. n - 1)
      BY <1>5 DEF Likely
    <3>2. IsSum(C, logits, all)
      BY <1>4, <1>6, <3>1, SumIs
    <3>3. SameSums(logits, above, all, m)
      BY <1>6, <1>9, <3>1, SumOfPrefix
    <3>4. ProbSum(logits, all) = C[n]
      BY <1>4, <1>6 DEF ProbSum
    <3>5. ProbSum(logits, above) = C[m]
      BY <1>4, <1>9, <1>10, <3>3 DEF ProbSum, SameSums
    <3>6. C[m] <= C[i - 1] /\ C[m] \in Nat /\ C[i - 1] \in Nat
      <4>1. i - 1 \in 0 .. n /\ m \in 0 .. n
        BY <1>9
      <4> QED BY <1>6, <2>4, <3>2, <4>1 DEF IsSum
    <3>7. PICK x \in Nat : x = C[m]
      BY <3>6
    <3>8. PICK y \in Nat : y = C[i - 1]
      BY <3>6
    <3>9. x * 100 <= y * 100
      BY <3>6, <3>7, <3>8
    <3>10. PICK z : z = c.topp * C[n]
      OBVIOUS
    <3>11. c.topp > 0 => y * 100 < z
      BY <2>2, <3>8, <3>10
    <3>12. z \in Int
      <4>1. PICK q \in Int : q = c.topp
        OBVIOUS
      <4>2. n \in 0 .. n
        OBVIOUS
      <4>3. PICK w \in Nat : w = C[n]
        BY <1>6, <3>2, <4>2 DEF IsSum
      <4> QED BY <3>10, <4>1, <4>3
    <3>13. c.topp > 0 => x * 100 < z
      BY <3>9, <3>11, <3>12
    <3> QED BY <3>4, <3>5, <3>7, <3>10, <3>13
  <2> QED BY <1>1, <1>2, <1>3, <1>12, <2>2, <2>5, <2>6
<1> QED BY <1>11, <1>12

(* A call that samples: its prompt, and what it has answered so far.       *)
Sampling(s) ==
    /\ call.prompt \in Seq(Vocab(s)) /\ call.prompt # <<>>
    /\ call.out \in Seq(Vocab(s)) /\ Len(call.out) < cfg.max

LEMMA SamplingFiltered ==
    ASSUME NEW s, Client(s), call.kind \in {"generate", "logprobs"} => Sampling(s)
    PROVE  SamplesFromFilter
<1> SUFFICES ASSUME call.kind \in {"generate", "logprobs"} PROVE SamplesFromFilter
  BY DEF SamplesFromFilter
<1>1. s \in LLMSetups /\ cfg = s.config /\ Tokens = Vocab(s)
  BY DEF Client, Tokens, Vocab
<1>2. PICK prompt \in Seq(Vocab(s)) : prompt = call.prompt /\ prompt # <<>>
  BY DEF Sampling
<1>3. PICK out \in Seq(Vocab(s)) : out = call.out
  BY DEF Sampling
<1>4. Len(out) <= cfg.max
  <2>1. cfg.max \in Nat
    BY <1>1, ClientAssumption
  <2>2. Len(out) < cfg.max /\ Len(out) \in Nat
    BY <1>3 DEF Sampling
  <2> QED BY <2>1, <2>2
<1>5. PICK n : n = s.model.vocab
  OBVIOUS
<1>6. n \in Nat \ {0} /\ Vocab(s) = 0 .. n - 1 /\ Vocab(s) # {}
  <2>1. n \in Nat \ {0}
    BY <1>1, <1>5, ClientAssumption
  <2>2. 0 \in 0 .. n - 1
    BY <2>1
  <2> QED BY <1>5, <2>1, <2>2 DEF Vocab
<1>7. PICK logits \in [Vocab(s) -> LogitsMet(s)] : logits = LogitsOf(prompt, out)
  BY <1>2, <1>4, LogitsAre
<1>8. Eligible(logits, Tokens) = logits
  <2>1. Eligible(logits, Tokens) = [t \in Vocab(s) |-> logits[t]]
    BY <1>1, <1>6 DEF Eligible
  <2> QED BY <2>1
<1>9. PICK t : t = Decode(prompt, out, Tokens)
  OBVIOUS
<1>10. Weighed(logits, n) /\ Picked(cfg, logits, n, t)
  BY <1>1, <1>2, <1>4, <1>5, <1>6, <1>7, <1>8, <1>9, DecodeIs
<1>11. {cfg.temperature, cfg.topk, cfg.minp, cfg.topp} \subseteq Int
  BY <1>1, ClientAssumption
<1>12. cfg.topk \in Int /\ cfg.minp \in Int /\ cfg.topp \in Int /\ cfg.temperature \in Int
  BY <1>11
<1>13. PICK all : all = Descending(logits)
  OBVIOUS
<1>14. PICK above : above = Among(all, { u \in Tokens : logits[u] > logits[t] })
  OBVIOUS
<1>15. IF cfg.temperature <= 0 \/ cfg.minp > 100 THEN above = <<>>
       ELSE /\ cfg.topk > 0 => Len(above) < cfg.topk
            /\ ProbOf(logits, t) * 100 >= cfg.minp * ProbOf(logits, all[1])
            /\ cfg.topp > 0 => ProbSum(logits, above) * 100 < cfg.topp * ProbSum(logits, all)
  BY <1>1, <1>6, <1>10, <1>12, <1>13, <1>14, PassesFilters, ZenonT(30)
<1> QED BY <1>2, <1>3, <1>7, <1>9, <1>13, <1>14, <1>15 DEF SamplesFromFilter
-----------------------------------------------------------------------------
(* Generation that a pattern constrains                                    *)

FsmStates(states) ==
  [states : {states}, current : Int, complete : BOOLEAN, broken : BOOLEAN]

LEMMA CompiledIs ==
    ASSUME NEW pattern, PatternShaped(pattern), NEW states, states = Compile(pattern).states
    PROVE  /\ states \in Automata(KeySets(pattern)) \cup {<<>>}
           /\ Compile(pattern) \in FsmStates(states)
           /\ 0 \in Completable(states) => states # <<>>
           /\ states # <<>> => /\ states = Built(pattern)[Len(pattern)] /\ Len(states) > 1
                               /\ states \in Automata(KeySets(pattern)) /\ Forward(states)
                               /\ Compile(pattern) = FsmAt(states, 0)
<1>1. PICK n \in Nat : n = Len(pattern)
  BY DEF PatternShaped
<1>2. PICK all : all = Built(pattern)[n]
  OBVIOUS
<1>3. all \in Automata(KeySets(pattern)) /\ Forward(all) /\ n \in 0 .. n
  BY <1>1, <1>2, BuiltIs, BuiltForward DEF IsBuilt
<1>4. PICK d \in BOOLEAN : d = FALSE
  OBVIOUS
<1>5. PICK e \in BOOLEAN : e = (pattern = <<>>)
  OBVIOUS
<1>6. /\ states = IF Len(all) > 1 THEN all ELSE <<>>
      /\ Compile(pattern) = [states |-> states, current |-> 0, complete |-> e, broken |-> d]
  BY <1>1, <1>2, <1>4, <1>5 DEF Compile
<1>7. Compile(pattern) \in FsmStates(states)
  BY <1>6 DEF FsmStates
<1>8. Completable(<<>>) = {-1}
  <2>1. Len(<<>>) = 0
    OBVIOUS
  <2>2. Rounds(<<>>)[0] = {0 - 1}
    BY <2>1, RoundsIs
  <2> QED BY <2>1, <2>2 DEF Completable
<1>9. 0 \in Completable(states) => states # <<>>
  BY <1>8
<1>10. ASSUME states # <<>>
       PROVE  /\ states = all /\ Len(states) > 1
              /\ Compile(pattern) = FsmAt(states, 0)
  <2>1. states = all /\ Len(states) > 1
    BY <1>6, <1>10
  <2>2. pattern # <<>>
    <3> SUFFICES ASSUME pattern = <<>> PROVE FALSE
      OBVIOUS
    <3>1. n = 0
      BY <1>1
    <3>2. all = << <<>> >>
      BY <1>1, <1>2, <3>1, BuiltIs DEF IsBuilt
    <3>3. Len(<< <<>> >>) = 1
      OBVIOUS
    <3>4. Len(states) = 1
      BY <2>1, <3>2, <3>3
    <3>5. ~(1 > 1)
      OBVIOUS
    <3> QED BY <2>1, <3>4, <3>5, Zenon
  <2>3. Accepting(states, 0) = d
    <3>1. Len(states) \in Nat
      BY <1>3, <2>1 DEF Automata
    <3> QED BY <1>4, <2>1, <3>1 DEF Accepting
  <2>4. e = d
    BY <1>4, <1>5, <2>2
  <2>5. FsmAt(states, 0) = [states |-> states, current |-> 0, complete |-> d, broken |-> d]
    BY <1>4, <2>3 DEF FsmAt
  <2> QED BY <1>6, <2>1, <2>4, <2>5
<1> QED BY <1>1, <1>2, <1>3, <1>6, <1>7, <1>9, <1>10

(* The automaton is where the text so far takes it, and can be completed.  *)
OnItsWay(states, out, f, cur) ==
    /\ cur # Blocked /\ (cur \in Completable(states) \/ Accepting(states, cur))
    /\ f = FsmAt(states, cur)
    /\ out \in Seq(DOMAIN FsmVocab)
    /\ WalkFrom(states, 0, StructuredText(out)) = cur

Guided(pattern, out, f) ==
  LET states == Compile(pattern).states
  IN  /\ f \in FsmStates(states)
      /\ 0 \in Completable(states) => \E cur : OnItsWay(states, out, f, cur)

LEMMA GuidedFirst ==
    ASSUME NEW pattern, PatternShaped(pattern)
    PROVE  Guided(pattern, <<>>, Compile(pattern))
<1>1. PICK states : states = Compile(pattern).states
  OBVIOUS
<1>2. Compile(pattern) \in FsmStates(states)
  BY <1>1, CompiledIs
<1>3. ASSUME 0 \in Completable(states) PROVE OnItsWay(states, <<>>, Compile(pattern), 0)
  <2>1. states \in Automata(KeySets(pattern)) /\ Compile(pattern) = FsmAt(states, 0)
    BY <1>1, <1>3, CompiledIs
  <2>2. <<>> \in Seq(Letters) /\ Len(<<>>) = 0 /\ <<>> \in Seq(DOMAIN FsmVocab)
    OBVIOUS
  <2>3. Walk(states, 0, <<>>)[0] = 0
    <3>1. PICK w \in Seq(Letters) : w = <<>>
      BY <2>2
    <3>2. IsWalk(Walk(states, 0, w), states, 0, w)
      BY <2>1, WalkIs
    <3> QED BY <3>1, <3>2 DEF IsWalk
  <2>4. WalkFrom(states, 0, <<>>) = 0
    BY <2>2, <2>3 DEF WalkFrom
  <2> QED BY <1>3, <2>1, <2>2, <2>4, NoText DEF OnItsWay, Blocked
<1> QED BY <1>1, <1>2, <1>3 DEF Guided

LEMMA GuidedMask ==
    ASSUME NEW pattern, PatternShaped(pattern), NEW states, states = Compile(pattern).states,
           NEW out, NEW f, NEW cur, OnItsWay(states, out, f, cur), ~f.complete,
           0 \in Completable(states)
    PROVE  /\ cur \in Completable(states) /\ ~Accepting(states, cur)
           /\ TokenMask(f) # {} /\ TokenMask(f) \subseteq DOMAIN FsmVocab
           /\ \A id \in TokenMask(f) : Fits(states, Completable(states), cur, FsmVocab[id])
<1>1. states \in Automata(KeySets(pattern)) /\ states # <<>> /\ Len(states) \in Nat
  BY CompiledIs DEF Automata
<1>2. f = FsmAt(states, cur) /\ f.complete = Accepting(states, cur)
  BY DEF OnItsWay, FsmAt
<1>3. ~Accepting(states, cur) /\ cur \in Completable(states)
  BY <1>2 DEF OnItsWay
<1> QED BY <1>1, <1>2, <1>3, MaskIs

LEMMA GuidedNext ==
    ASSUME NEW pattern, PatternShaped(pattern), NEW out, NEW f, Guided(pattern, out, f),
           ~f.complete, NEW t,
           0 \in Completable(Compile(pattern).states) => t \in TokenMask(f)
    PROVE  Guided(pattern, Append(out, t), IF t \in DOMAIN FsmVocab THEN AdvanceToken(f, t) ELSE f)
<1>1. PICK states : states = Compile(pattern).states
  OBVIOUS
<1>2. PICK g : g = IF t \in DOMAIN FsmVocab THEN AdvanceToken(f, t) ELSE f
  OBVIOUS
<1>3. g \in FsmStates(states)
  <2>1. f \in FsmStates(states) /\ states \in Automata(KeySets(pattern)) \cup {<<>>}
    BY <1>1, CompiledIs DEF Guided
  <2>2. CASE t \in DOMAIN FsmVocab
    BY <1>2, <2>1, <2>2, AdvanceKeepsStates DEF FsmStates
  <2> QED BY <1>2, <2>1, <2>2
<1>4. ASSUME 0 \in Completable(states)
      PROVE  \E cur : OnItsWay(states, Append(out, t), g, cur)
  <2>1. PICK cur : OnItsWay(states, out, f, cur)
    BY <1>1, <1>4 DEF Guided
  <2>2. t \in DOMAIN FsmVocab /\ Fits(states, Completable(states), cur, FsmVocab[t])
    BY <1>1, <1>4, <2>1, GuidedMask
  <2>3. PICK tok \in Seq(Letters) : tok = FsmVocab[t]
    BY <2>2, VocabAssumption DEF Letters
  <2>4. PICK e : e = WalkFrom(states, cur, tok)
    OBVIOUS
  <2>5. e # Blocked /\ (Accepting(states, e) \/ e \in Completable(states))
    BY <2>2, <2>3, <2>4 DEF Fits
  <2>6. states \in Automata(KeySets(pattern)) /\ Forward(states)
    BY <1>1, <1>4, CompiledIs
  <2>7. g = FsmAt(states, e)
    <3>1. AdvanceToken(FsmAt(states, cur), t) = FsmAt(states, e)
      BY <2>3, <2>4, <2>5, <2>6, AdvanceTokenIs
    <3> QED BY <1>2, <2>1, <2>2, <3>1 DEF OnItsWay
  <2>8. out \in Seq(DOMAIN FsmVocab)
    BY <2>1 DEF OnItsWay
  <2>9. PICK text \in Seq(Letters) : text = StructuredText(out)
    BY <2>2, <2>8, TextIs
  <2>10. StructuredText(Append(out, t)) = text \o tok
    BY <2>2, <2>3, <2>8, <2>9, TextIs
  <2>11. WalkFrom(states, 0, text \o tok) = e
    <3>1. cur = WalkFrom(states, 0, text)
      BY <2>1, <2>9 DEF OnItsWay
    <3> QED BY <2>4, <2>6, <3>1, WalkOn
  <2>12. Append(out, t) \in Seq(DOMAIN FsmVocab)
    BY <2>2, <2>8
  <2>13. OnItsWay(states, Append(out, t), g, e)
    BY <2>5, <2>7, <2>10, <2>11, <2>12 DEF OnItsWay
  <2> QED BY <2>13
<1> QED BY <1>1, <1>2, <1>3, <1>4 DEF Guided

LEMMA GuidedText ==
    ASSUME NEW pattern, PatternShaped(pattern), NEW out, NEW f, Guided(pattern, out, f),
           0 \in Completable(f.states)
    PROVE  ~f.broken /\ (f.complete /\ Regular(pattern) => Denotes(pattern, StructuredText(out)))
<1>1. PICK states : states = Compile(pattern).states
  OBVIOUS
<1>2. f.states = states
  BY <1>1 DEF Guided, FsmStates
<1>3. PICK cur : OnItsWay(states, out, f, cur)
  BY <1>1, <1>2 DEF Guided
<1>4. f = FsmAt(states, cur) /\ f.broken = FALSE /\ f.complete = Accepting(states, cur)
  BY <1>3 DEF OnItsWay, FsmAt
<1>5. SUFFICES ASSUME Accepting(states, cur), Regular(pattern)
               PROVE  Denotes(pattern, StructuredText(out))
  BY <1>4
<1>6. PICK n \in Nat : n = Len(pattern)
  BY DEF PatternShaped
<1>7. PICK B : B = Built(pattern)
  OBVIOUS
<1>8. states = B[n] /\ Len(states) > 1 /\ states \in Automata(KeySets(pattern)) /\ IsBuilt(B, pattern)
  BY <1>1, <1>2, <1>6, <1>7, CompiledIs, BuiltIs
<1>9. PICK text : text = StructuredText(out)
  OBVIOUS
<1>10. text \in Seq(Letters)
  <2>1. out \in Seq(DOMAIN FsmVocab)
    BY <1>3 DEF OnItsWay
  <2>2. CASE out = <<>>
    <3>1. <<>> \in Seq(Letters)
      OBVIOUS
    <3> QED BY <1>9, <2>2, <3>1, NoText
  <2>3. CASE out # <<>>
    <3>1. out[1] \in DOMAIN FsmVocab
      BY <2>1, <2>3
    <3> QED BY <1>9, <2>1, <3>1, TextIs
  <2> QED BY <2>2, <2>3
<1>11. PICK N \in Nat : N = Len(text)
  BY <1>10
<1>12. PICK a : a = Walk(states, 0, text)
  OBVIOUS
<1>13. IsWalk(a, states, 0, text) /\ a[N] = cur /\ a[0] = 0
  <2>1. IsWalk(a, states, 0, text)
    BY <1>8, <1>10, <1>12, WalkIs
  <2>2. a[N] = cur
    BY <1>3, <1>9, <1>11, <1>12 DEF OnItsWay, WalkFrom
  <2> QED BY <2>1, <2>2 DEF IsWalk
<1>14. Len(states) \in Nat /\ cur >= Len(states) - 1 /\ cur # Blocked
  BY <1>3, <1>5, <1>8 DEF Automata, Accepting, OnItsWay
<1>15. N # 0
  BY <1>8, <1>13, <1>14
<1>16. cur <= Len(states) - 1 /\ cur \in Int
  <2>1. N \in 1 .. N
    BY <1>15
  <2>2. Takes(states, a[N - 1], text[N], a[N])
    BY <1>8, <1>10, <1>11, <1>13, <1>14, <2>1, WalkMoves
  <2>3. PICK e \in 1 .. n : StepOf(pattern, B, e, a[N - 1], a[N], text[N])
    BY <1>5, <1>6, <1>8, <2>2, StepIs
  <2>4. Lengths(pattern, B) /\ e \in 0 .. n /\ n \in 0 .. n
    BY <1>5, <1>8, LengthsAre
  <2>5. Len(B[e]) <= Len(states) /\ Len(B[e]) \in Nat
    BY <1>6, <1>8, <2>4 DEF Lengths
  <2>6. cur <= Len(B[e]) - 1
    BY <1>13, <2>3 DEF StepOf
  <2>7. cur \in Nat
    <3>1. Forward(states)
      BY <1>1, <1>2, <1>8, CompiledIs
    <3> QED BY <1>13, <1>14, <2>2, <3>1, MovedForward
  <2> QED BY <1>14, <2>5, <2>6, <2>7
<1>17. a[N] = Len(states) - 1
  BY <1>13, <1>14, <1>16
<1> QED BY <1>5, <1>6, <1>8, <1>9, <1>10, <1>11, <1>13, <1>17, RegularAccepts
-----------------------------------------------------------------------------
(* Which patterns the compiler does not survive                            *)

(* Only a starred class leaves a move behind the last state.               *)
LEMMA ClosingOverhangs ==
    ASSUME NEW el, NEW n \in Nat
    PROVE  (\E j \in 1 .. Len(Closing(el, n)) : Closing(el, n)[j].next >= n + 1)
             <=> el.kind = "class" /\ el.rep = "star"
<1> DEFINE K == Keys(el)
<1>1. PICK t : t = To(K, n) /\ t.next = n
  <2> HIDE DEF K
  <2>1. To(K, n).next = n
    BY DEF To
  <2> QED BY <2>1
<1>2. PICK u : u = To({"."}, n + 1) /\ u.next = n + 1
  <2>1. To({"."}, n + 1).next = n + 1
    BY DEF To
  <2> QED BY <2>1
<1>3. CASE el.kind = "class" /\ el.rep = "star"
  <2>1. PICK c : c = Closing(el, n) /\ c = <<t, u>>
    BY <1>1, <1>2, <1>3 DEF Closing
  <2>2. Len(c) = 2 /\ c[2] = u /\ 2 \in 1 .. 2 /\ n + 1 >= n + 1
    BY <2>1
  <2> QED BY <1>2, <1>3, <2>1, <2>2
<1>4. CASE el.kind = "class" /\ el.rep = "plus"
  <2>1. PICK c : c = Closing(el, n) /\ c = <<t>>
    BY <1>1, <1>4 DEF Closing
  <2>2. Len(c) = 1 /\ c[1] = t /\ ~(n >= n + 1)
    BY <2>1
  <2>3. \A j \in 1 .. Len(c) : j = 1
    BY <2>2
  <2> QED BY <1>1, <1>4, <2>1, <2>2, <2>3
<1>5. CASE ~(el.kind = "class" /\ el.rep \in {"plus", "star"})
  <2>1. PICK c : c = Closing(el, n) /\ c = <<>>
    BY <1>5 DEF Closing
  <2>2. Len(c) = 0
    BY <2>1
  <2> QED BY <1>5, <2>1, <2>2
<1> QED BY <1>3, <1>4, <1>5

(* The last state of what an element has been added to.                    *)
LEMMA AddOverhangs ==
    ASSUME NEW CS, {"."} \in CS, NEW s \in Automata(CS), NEW el, Shaped(el),
           el.kind # "repeat", Keys(el) \in CS
    PROVE  Overhangs(AddElement(s, el)) <=> el.kind = "class" /\ el.rep = "star"
<1>1. PICK r : r = AddElement(s, el)
  OBVIOUS
<1>2. PICK w \in Nat \ {0} : w = Width(el)
  BY AddIs
<1>3. PICK m \in Nat : m = Len(s) + w - 1 /\ m + 1 = Len(s) + w
  <2>1. Len(s) \in Nat
    BY DEF Automata
  <2>2. Len(s) + w - 1 \in Nat /\ (Len(s) + w - 1) + 1 = Len(s) + w
    BY <2>1
  <2> QED BY <2>2
<1>4. Extended(s, r, Keys(el), w, Closing(el, m))
  BY <1>1, <1>2, <1>3, AddIs
<1>5. Len(r) = m + 1 /\ r[Len(r)] = Closing(el, m)
  BY <1>3, <1>4 DEF Extended
<1>6. Overhangs(r) <=> \E j \in 1 .. Len(Closing(el, m)) : Closing(el, m)[j].next >= m + 1
  BY <1>5 DEF Overhangs
<1> QED BY <1>1, <1>6, ClosingOverhangs

LEMMA BuiltOverhangs ==
    ASSUME NEW pattern, PatternShaped(pattern)
    PROVE  \A i \in 0 .. Len(pattern) : Overhangs(Built(pattern)[i]) <=> EndsInStar(pattern, i)
<1>1. PICK n \in Nat : n = Len(pattern)
  BY DEF PatternShaped
<1>2. PICK CS : CS = KeySets(pattern)
  OBVIOUS
<1>3. {"."} \in CS /\ \A i \in 1 .. n : Keys(pattern[i]) \in CS
  BY <1>1, <1>2 DEF KeySets
<1>4. PICK B : B = Built(pattern)
  OBVIOUS
<1>5. /\ B[0] = << <<>> >>
      /\ \A i \in 1 .. n : B[i] = AddElement(B[i - 1], pattern[i])
      /\ \A i \in 0 .. n : B[i] \in Automata(CS)
  BY <1>1, <1>2, <1>4, BuiltIs DEF IsBuilt
<1> DEFINE S == {i \in Nat : i <= n => (Overhangs(B[i]) <=> EndsInStar(pattern, i))}
<1>6. 0 \in S
  <2>1. Len(<< <<>> >>) = 1 /\ << <<>> >>[1] = <<>> /\ Len(<<>>) = 0
    OBVIOUS
  <2>2. ~Overhangs(B[0])
    BY <1>5, <2>1 DEF Overhangs
  <2>3. ~EndsInStar(pattern, 0)
    BY DEF EndsInStar
  <2> QED BY <2>2, <2>3
<1>7. ASSUME NEW i \in Nat, i \in S PROVE i + 1 \in S
  <2> SUFFICES ASSUME i + 1 <= n PROVE Overhangs(B[i + 1]) <=> EndsInStar(pattern, i + 1)
    OBVIOUS
  <2>1. i + 1 \in 1 .. n /\ (i + 1) - 1 = i /\ i \in 0 .. n
    OBVIOUS
  <2>2. PICK s \in Automata(CS) : s = B[i]
    BY <1>5, <2>1
  <2>3. PICK el : el = pattern[i + 1]
    OBVIOUS
  <2>4. B[i + 1] = AddElement(s, el)
    BY <1>5, <2>1, <2>2, <2>3
  <2>5. (Overhangs(s) <=> EndsInStar(pattern, i)) /\ Shaped(el) /\ Keys(el) \in CS
    BY <1>1, <1>3, <1>7, <2>1, <2>2, <2>3 DEF PatternShaped
  <2>6. CASE el.kind = "repeat"
    <3>1. B[i + 1] = s
      BY <2>4, <2>6 DEF AddElement
    <3>2. EndsInStar(pattern, i + 1) <=> EndsInStar(pattern, i)
      <4>1. \A j \in 1 .. i + 1 : j \in 1 .. i \/ j = i + 1
        OBVIOUS
      <4>2. \A j \in 1 .. i : \A k \in j + 1 .. i + 1 : k \in j + 1 .. i \/ k = i + 1
        OBVIOUS
      <4>3. \A j \in 1 .. i : j \in 1 .. i + 1 /\ \A k \in j + 1 .. i : k \in j + 1 .. i + 1
        OBVIOUS
      <4>4. pattern[i + 1].kind = "repeat"
        BY <2>3, <2>6
      <4> QED BY <4>1, <4>2, <4>3, <4>4 DEF EndsInStar
    <3> QED BY <2>5, <3>1, <3>2
  <2>7. CASE el.kind # "repeat"
    <3>1. Overhangs(B[i + 1]) <=> el.kind = "class" /\ el.rep = "star"
      BY <1>3, <2>4, <2>5, <2>7, AddOverhangs
    <3>2. EndsInStar(pattern, i + 1) <=> el.kind = "class" /\ el.rep = "star"
      <4>1. \A j \in 1 .. i + 1 : j = i + 1 \/ i + 1 \in j + 1 .. i + 1
        OBVIOUS
      <4>2. i + 1 \in 1 .. i + 1 /\ \A k \in (i + 1) + 1 .. i + 1 : FALSE
        OBVIOUS
      <4> QED BY <2>3, <2>7, <4>1, <4>2 DEF EndsInStar
    <3> QED BY <3>1, <3>2
  <2> QED BY <2>6, <2>7
<1> HIDE DEF S
<1>8. Nat \subseteq S
  BY <1>6, <1>7, SetInduction
<1> QED BY <1>1, <1>4, <1>8 DEF S

(* The compiler panics on a + behind a starred class and on nothing else.  *)
LEMMA PanicsWhere ==
    ASSUME NEW pattern, PatternShaped(pattern)
    PROVE  CompilePanics(pattern) <=> PlusBehindStar(pattern)
<1>1. PICK n \in Nat : n = Len(pattern)
  BY DEF PatternShaped
<1>2. ASSUME NEW i \in 1 .. n
      PROVE  Panics(Built(pattern)[i - 1], pattern[i])
               <=> /\ pattern[i].kind = "repeat" /\ pattern[i].rep = "plus"
                   /\ EndsInStar(pattern, i - 1)
  <2>1. i - 1 \in 0 .. Len(pattern)
    BY <1>1
  <2>2. Overhangs(Built(pattern)[i - 1]) <=> EndsInStar(pattern, i - 1)
    BY <2>1, BuiltOverhangs
  <2> QED BY <2>2 DEF Panics
<1> QED BY <1>1, <1>2 DEF CompilePanics, PlusBehindStar
=============================================================================
