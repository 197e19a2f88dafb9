----------------------------- MODULE PageTable -----------------------------
(***************************************************************************)
(* The page table of one KV cache layer (kv_cache.go, PageTable): virtual  *)
(* pages to physical SRAM pages, a stack of free physical pages and a      *)
(* reference count per resident page.  A table is a record value, so that  *)
(* the cache keeps one per layer; AllocPage, FreePage and SharePage map a  *)
(* table to the table after the call.  What AllocPage returns is           *)
(* Translate of the virtual page in the table it leaves.  The Dirty bit is *)
(* never written by the code and is left out.                              *)
(***************************************************************************)
EXTENDS Integers, Sequences

NotResident == -1

NewPageTable(virtPages, physPages) ==
  [ phys      |-> [v \in 0 .. virtPages - 1 |-> NotResident],
    refs      |-> [v \in 0 .. virtPages - 1 |-> 0],
    free      |-> [i \in 1 .. physPages |-> physPages - i],
    allocated |-> 0 ]

Resident(pt, v) == v \in DOMAIN pt.phys /\ pt.phys[v] >= 0

Translate(pt, v) == IF v \in DOMAIN pt.phys THEN pt.phys[v] ELSE NotResident

(* AllocPage changes the table only for a virtual page in range that is    *)
(* not resident yet, and only while a free page is left.                   *)
CanAlloc(pt, v) == v \in DOMAIN pt.phys /\ ~Resident(pt, v) /\ pt.free # <<>>

AllocPage(pt, v) ==
  IF CanAlloc(pt, v)
    THEN [ phys      |-> [pt.phys EXCEPT ![v] = pt.free[Len(pt.free)]],
           refs      |-> [pt.refs EXCEPT ![v] = 1],
           free      |-> SubSeq(pt.free, 1, Len(pt.free) - 1),
           allocated |-> pt.allocated + 1 ]
    ELSE pt

(* A mutant: the page comes back although other sequences still share it.  *)
FreePageAtOnce(pt, v) ==
  IF Resident(pt, v)
    THEN [ phys      |-> [pt.phys EXCEPT ![v] = IF pt.refs[v] <= 1 THEN NotResident ELSE @],
           refs      |-> [pt.refs EXCEPT ![v] = @ - 1],
           free      |-> Append(pt.free, pt.phys[v]),
           allocated |-> pt.allocated - 1 ]
    ELSE pt

FreePage(pt, v) ==
  IF ~Resident(pt, v) THEN pt
  ELSE IF pt.refs[v] > 1 THEN [pt EXCEPT !.refs[v] = @ - 1]
  ELSE [ phys      |-> [pt.phys EXCEPT ![v] = NotResident],
         refs      |-> [pt.refs EXCEPT ![v] = 0],
         free      |-> Append(pt.free, pt.phys[v]),
         allocated |-> pt.allocated - 1 ]

SharePage(pt, v) == IF Resident(pt, v) THEN [pt EXCEPT !.refs[v] = @ + 1] ELSE pt
(* The free stack and the mapping split the physical pages between them.   *)
FreeSet(pt) == { pt.free[i] : i \in 1 .. Len(pt.free) }

OwnedOnce(pt, physPages) ==
  /\ \A i, j \in 1 .. Len(pt.free) : i # j => pt.free[i] # pt.free[j]
  /\ \A v \in DOMAIN pt.phys : Resident(pt, v) => pt.phys[v] \notin FreeSet(pt)
  /\ \A v, w \in DOMAIN pt.phys : Resident(pt, v) /\ v # w => pt.phys[v] # pt.phys[w]
  /\ \A p \in 0 .. physPages - 1 : p \in FreeSet(pt) \/ \E v \in DOMAIN pt.phys : pt.phys[v] = p
  /\ pt.allocated + Len(pt.free) = physPages
=============================================================================
