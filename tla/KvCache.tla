------------------------------ MODULE KvCache ------------------------------
(***************************************************************************)
(* The Go model of the KV cache (kv_cache.go) and of the NVMe device its   *)
(* overflow is written to (nvme_device.go): four direction banks per       *)
(* physical layer, each a ring of Depth entries, the page table of each    *)
(* layer, the offload cycle that drains the fullest bank above the         *)
(* threshold into the configured sink, and the prefix cache.               *)
(*                                                                         *)
(* An entry's content is the (virtual) position it was stored for, NoEntry *)
(* is Go's nil.  The caller is the library's user: one sequential caller   *)
(* per cache, which stores positions in order and offers a refused one     *)
(* again ("sequence"), fills the virtual pages of one sequence in order    *)
(* ("paged"), fills pages of several sequences in any order and also frees *)
(* and shares them ("pages"), or uses the prefix cache ("prefix").         *)
(***************************************************************************)
EXTENDS PageTable, SequencesExt

CONSTANTS KvLayers,      \* number of physical layers (dims.Layers)
          Depth,         \* BankDepth
          Thresh,        \* OffloadThresh, percent
          PageSize,      \* entries per page
          MaxPages,      \* physical pages per layer
          MaxVirtPages,  \* virtual pages per layer
          EntryBlocks,   \* NVMe blocks an entry takes
          LBAEnd,        \* end (exclusive) of the NVMe overflow region, which starts at 0
          PrefixMax,     \* PrefixCache.MaxSize
          PrefixKeys,      \* token sequences callers look up
          KvUses,        \* the caches tried: [caller, mode, nvme, window, types]
          MaxPos,        \* bound: positions stored in order per layer
          MaxPaged,      \* bound: positions stored in any page per layer
          MaxErrors,     \* bound: failed offload attempts
          MaxShares,     \* bound: references per page
          MaxHits        \* bound: prefix cache accesses

ASSUME KvAssumption ==
  /\ KvLayers \in Nat \ {0} /\ Depth \in Nat \ {0} /\ PageSize \in Nat \ {0}
  /\ MaxPages \in Nat /\ MaxVirtPages \in Nat /\ MaxShares \in Nat
  /\ Thresh \in 1 .. 100 /\ PrefixMax \in Nat \ {0}
  /\ EntryBlocks \in Nat \ {0} /\ LBAEnd \in Nat \ {0} /\ LBAEnd % EntryBlocks = 0
  /\ MaxPos \in Nat /\ MaxPaged \in Nat
  /\ \A use \in KvUses : /\ use.caller \in {"sequence", "paged", "pages", "prefix"}
                         /\ use.window \in Int /\ use.nvme \in BOOLEAN

VARIABLES kv,      \* banks, sink state and settings of the cache
          pages,   \* the page table of each layer
          prefix,  \* the prefix cache
          stored,  \* per layer, how many positions the caller has stored so far
          caller   \* how the cache is used: the caller of one of KvUses

kvVars == <<kv, pages, prefix, stored, caller>>

NumBanks == 4
BankIds  == 0 .. NumBanks - 1
KvLayerIds == 0 .. KvLayers - 1
NoEntry  == -1

-----------------------------------------------------------------------------
(* KVCacheBank: a ring; Full is occ = Depth and Empty is occ = 0.          *)
NewBank == [ entries |-> [i \in 0 .. Depth - 1 |-> NoEntry],
             seq     |-> [i \in 0 .. Depth - 1 |-> -1],
             wr      |-> 0, rd |-> 0, occ |-> 0 ]

BankFull(b) == b.occ = Depth

(* A mutant: the write pointer wraps one entry past the end of the ring.   *)
BankStorePastEnd(b, entry, pos) ==
  IF BankFull(b) THEN b
  ELSE [b EXCEPT !.entries[b.wr] = entry, !.seq[b.wr] = pos,
                 !.wr = (@ + 1) % (Depth + 1), !.occ = @ + 1]

BankStore(b, entry, pos) ==
  IF BankFull(b) THEN b
  ELSE [b EXCEPT !.entries[b.wr] = entry, !.seq[b.wr] = pos,
                 !.wr = (@ + 1) % Depth, !.occ = @ + 1]

(* A mutant: the stored position is not compared, only the live window.    *)
BankLoadUnchecked(b, pos) ==
  IF b.occ = 0 \/ pos < 0 THEN NoEntry
  ELSE LET idx == pos % Depth
       IN  IF (idx - b.rd + Depth) % Depth >= b.occ THEN NoEntry ELSE b.entries[idx]

BankLoad(b, pos) ==
  IF b.occ = 0 \/ pos < 0 THEN NoEntry
  ELSE LET idx == pos % Depth
       IN  IF \/ (idx - b.rd + Depth) % Depth >= b.occ
              \/ b.seq[idx] # pos
             THEN NoEntry
             ELSE b.entries[idx]

BankEvict(b) ==
  IF b.occ = 0 THEN b
  ELSE [b EXCEPT !.entries[b.rd] = NoEntry, !.rd = (@ + 1) % Depth, !.occ = @ - 1]

PeekOldest(b) == IF b.occ = 0 THEN NoEntry ELSE b.entries[b.rd]

-----------------------------------------------------------------------------
(* KVCacheLayer: splitPos deals the positions over the banks in turn.      *)
BankOf(pos)  == pos % NumBanks
LocalPos(pos) == pos \div NumBanks

LayerStore(banks, pos, entry) ==
  IF pos < 0 THEN banks
  ELSE [banks EXCEPT ![BankOf(pos)] = BankStore(@, entry, LocalPos(pos))]

LayerLoad(banks, pos) ==
  IF pos < 0 THEN NoEntry ELSE BankLoad(banks[BankOf(pos)], LocalPos(pos))

LayerAccepts(banks, pos) == pos >= 0 /\ ~BankFull(banks[BankOf(pos)])

FullestBank(banks) ==
  CHOOSE i \in BankIds : /\ \A j \in BankIds : banks[j].occ <= banks[i].occ
                         /\ \A j \in 0 .. i - 1 : banks[j].occ < banks[i].occ

NeedsOffload(banks) ==
  LET occ == banks[FullestBank(banks)].occ
  IN  occ > 0 /\ occ >= (Depth * Thresh) \div 100

(* Where StorePaged and LoadPaged put virtual page v, offset o, once the   *)
(* page is resident.                                                       *)
PagedIdx(pt, v, o) == Translate(pt, v) * PageSize + o

PagedLoad(banks, pt, v, o) ==
  IF ~Resident(pt, v) THEN NoEntry ELSE LayerLoad(banks, PagedIdx(pt, v, o))

(* LoadWindow: what is loadable of the last `window` positions up to pos,  *)
(* all positions when the layer does not slide (window = 0).               *)
LoadWindow(banks, pos, window) ==
  LET first == IF window <= 0 \/ pos - window + 1 < 0 THEN 0 ELSE pos - window + 1
      loaded(at) == IF LayerLoad(banks, at) = NoEntry THEN <<>> ELSE <<LayerLoad(banks, at)>>
  IN  FlattenSeq([i \in 1 .. pos - first + 1 |-> loaded(first + i - 1)])

(* ConfigureSlidingWindow: model-layer types mapped onto physical layers   *)
(* by ceiling grouping; one sliding model layer makes its layer slide.     *)
WindowOf(setting, l) ==
  LET types == setting.types
      per   == (Len(types) + KvLayers - 1) \div KvLayers
      physOf(ml) == IF ml \div per >= KvLayers THEN KvLayers - 1 ELSE ml \div per
  IN  IF \/ setting.window <= 0
         \/ /\ types # <<>>
            /\ ~ \E ml \in 0 .. Len(types) - 1 :
                    types[ml + 1] = "sliding_attention" /\ physOf(ml) = l
        THEN 0
        ELSE setting.window

KvLoadWindow(s, l, pos) == LoadWindow(s.banks[l], pos, s.window[l])

(* RepeatKV: the entry's heads, an equal share of the frame each, every    *)
(* one repeated for the query heads of its group.                          *)
RepeatHeads(entry, kvHeads, group, share) ==
  LET head(h) == SubSeq(entry, h * share + 1, (h + 1) * share)
      whole   == { h \in 0 .. kvHeads - 1 : (h + 1) * share <= Len(entry) }
  IN  FlattenSeq([i \in 1 .. Cardinality(whole) * group |-> head((i - 1) \div group)])

RepeatKV(entry, attnHeads, kvHeads, headDim, entryBytes) ==
  LET group == IF kvHeads > 0 THEN attnHeads \div kvHeads ELSE 0
      share == entryBytes \div kvHeads
  IN  IF group <= 1 \/ headDim <= 0 \/ kvHeads <= 0 THEN entry
      ELSE IF share <= 0 THEN entry
      ELSE RepeatHeads(entry, kvHeads, group, share)

-----------------------------------------------------------------------------
(* The NVMe device: WriteBlocks of one entry, at the next overflow block.  *)
NvmeWrite(nvme, lba, l, entry) ==
  LET here == lba .. lba + EntryBlocks - 1
  IN  [nvme EXCEPT !.blocks = [b \in DOMAIN @ \cup here |->
                                 IF b \in here THEN <<l, entry>> ELSE @[b]]]

NextLBA(lba) == IF lba + EntryBlocks >= LBAEnd THEN 0 ELSE lba + EntryBlocks

SinkFails(s) == s.mode = "nvme" /\ s.nvme.present /\ ~s.nvme.ready

(* One pass of OffloadCycle's loop: persist the oldest entry of the        *)
(* fullest bank, then drop it.                                             *)
OffloadOne(s, l) ==
  LET i == FullestBank(s.banks[l])
      e == PeekOldest(s.banks[l][i])
      dropped == [s EXCEPT !.banks[l][i] = BankEvict(@)]
  IN  CASE s.mode = "dma_bmc" -> [dropped EXCEPT !.stats.dmaToBMC = @ + 1]
        [] s.mode = "nvme" /\ s.nvme.present ->
             [dropped EXCEPT !.nvme = NvmeWrite(@, s.lba, l, e), !.lba = NextLBA(@),
                             !.stats.nvmeWrites = @ + 1]
        [] OTHER -> [dropped EXCEPT !.stats.discarded = @ + 1]

DrainOne(s, l) == IF NeedsOffload(s.banks[l]) THEN OffloadOne(s, l) ELSE s

OffloadLayer(s, l) ==
  LET after[n \in 0 .. NumBanks * Depth] == IF n = 0 THEN s ELSE DrainOne(after[n - 1], l)
  IN  IF ~NeedsOffload(s.banks[l]) THEN s
      ELSE IF SinkFails(s) THEN [s EXCEPT !.stats.errors = @ + 1]
      ELSE after[NumBanks * Depth]

OffloadCycle(s) ==
  LET after[n \in 0 .. KvLayers] == IF n = 0 THEN s ELSE OffloadLayer(after[n - 1], n - 1)
  IN  after[KvLayers]

-----------------------------------------------------------------------------
NewKVCache(mode, present, setting) ==
  [ mode   |-> mode,
    banks  |-> [l \in KvLayerIds |-> [i \in BankIds |-> NewBank]],
    window |-> [l \in KvLayerIds |-> WindowOf(setting, l)],
    lba    |-> 0,
    stats  |-> [discarded |-> 0, dmaToBMC |-> 0, nvmeWrites |-> 0, errors |-> 0],
    nvme   |-> [present |-> present, ready |-> FALSE, blocks |-> <<>>] ]

NewPrefixCache == [entries |-> <<>>, hits |-> 0, misses |-> 0]

KvInit ==
  /\ \E use \in KvUses : kv = NewKVCache(use.mode, use.nvme, use) /\ caller = use.caller
  /\ pages = [l \in KvLayerIds |-> NewPageTable(MaxVirtPages, MaxPages)]
  /\ prefix = NewPrefixCache
  /\ stored = [l \in KvLayerIds |-> 0]

(* NVMeDev.Init: the probe always succeeds.                                *)
InitNVMe ==
  /\ kv.nvme.present /\ ~kv.nvme.ready
  /\ kv' = [kv EXCEPT !.nvme.ready = TRUE]
  /\ UNCHANGED <<pages, prefix, stored, caller>>

(* KVCache.Store of the next position; a refused one is offered again.     *)
StoreNext(l) ==
  LET pos == stored[l]
  IN  /\ caller = "sequence" /\ pos < MaxPos
      /\ kv' = [kv EXCEPT !.banks[l] = LayerStore(@, pos, pos)]
      /\ stored' = [stored EXCEPT ![l] = IF LayerAccepts(kv.banks[l], pos) THEN @ + 1 ELSE @]
      /\ UNCHANGED <<pages, prefix, caller>>

(* KVCache.StorePaged: translate, allocate when the page is not resident,  *)
(* store at the physical page's entry.  stored counts what was accepted.   *)
StorePagedAt(l, v, o) ==
  LET pt  == IF Resident(pages[l], v) THEN pages[l] ELSE AllocPage(pages[l], v)
      idx == PagedIdx(pt, v, o)
  IN  /\ pages' = [pages EXCEPT ![l] = pt]
      /\ IF Resident(pt, v) /\ LayerAccepts(kv.banks[l], idx)
           THEN /\ kv' = [kv EXCEPT !.banks[l] = LayerStore(@, idx, v * PageSize + o)]
                /\ stored' = [stored EXCEPT ![l] = @ + 1]
           ELSE UNCHANGED <<kv, stored>>
      /\ UNCHANGED <<prefix, caller>>

StorePagedInOrder(l) ==
  /\ caller = "paged" /\ stored[l] < MaxPos
  /\ StorePagedAt(l, stored[l] \div PageSize, stored[l] % PageSize)

StorePaged(l, v, o) ==
  /\ caller = "pages" /\ l = 0 /\ stored[l] < MaxPaged
  /\ StorePagedAt(l, v, o)

PageCall(l, pt) ==
  /\ caller = "pages" /\ l = 0 /\ pages' = [pages EXCEPT ![l] = pt]
  /\ UNCHANGED <<kv, prefix, stored, caller>>

AllocVirt(l, v) == PageCall(l, AllocPage(pages[l], v))
FreeVirt(l, v)  == PageCall(l, FreePage(pages[l], v))
ShareVirt(l, v) == pages[l].refs[v] < MaxShares /\ PageCall(l, SharePage(pages[l], v))

(* OffloadCycle, whenever its caller runs it (Firmware does so when a      *)
(* layer needs it).                                                        *)
Offload ==
  /\ caller \in {"sequence", "paged", "pages"} /\ kv.stats.errors < MaxErrors
  /\ \E l \in KvLayerIds : NeedsOffload(kv.banks[l])
  /\ kv' = OffloadCycle(kv)
  /\ UNCHANGED <<pages, prefix, stored, caller>>

PrefixCalls(p) == p.hits + p.misses

LookupPrefix(tokens) ==
  /\ caller = "prefix" /\ PrefixCalls(prefix) < MaxHits
  /\ prefix' = IF tokens \in DOMAIN prefix.entries
                 THEN [prefix EXCEPT !.hits = @ + 1, !.entries[tokens].hits = @ + 1]
                 ELSE [prefix EXCEPT !.misses = @ + 1]
  /\ UNCHANGED <<kv, pages, stored, caller>>

(* A full prefix cache drops an entry with the fewest hits, never the one  *)
(* just added; map iteration picks among equals.                           *)
AddPrefix(p, tokens, layer, virtPages) ==
  LET old   == DOMAIN p.entries
      added == [t \in old \cup {tokens} |->
                  IF t = tokens THEN [layer |-> layer, pages |-> virtPages, hits |-> 1]
                                ELSE p.entries[t]]
      least == { t \in old : \A u \in old : p.entries[t].hits <= p.entries[u].hits }
  IN  IF Cardinality(DOMAIN added) <= PrefixMax
        THEN { [p EXCEPT !.entries = added] }
        ELSE { [p EXCEPT !.entries = [t \in DOMAIN added \ {gone} |-> added[t]]] : gone \in least }

StorePrefix(tokens, layer, virtPages) ==
  /\ caller = "prefix"
  /\ IF tokens \in DOMAIN prefix.entries
       THEN /\ prefix.entries[tokens].hits < MaxHits
            /\ prefix' = [prefix EXCEPT !.entries[tokens].hits = @ + 1]
       ELSE prefix' \in AddPrefix(prefix, tokens, layer, virtPages)
  /\ UNCHANGED <<kv, pages, stored, caller>>

KvNext ==
  \/ InitNVMe
  \/ Offload
  \/ \E l \in KvLayerIds :
       \/ StoreNext(l)
       \/ StorePagedInOrder(l)
       \/ \E v \in 0 .. MaxVirtPages - 1 :
            \/ AllocVirt(l, v)
            \/ FreeVirt(l, v)
            \/ ShareVirt(l, v)
            \/ \E o \in 0 .. PageSize - 1 : StorePaged(l, v, o)
       \/ \E tokens \in PrefixKeys : StorePrefix(tokens, l, <<0>>)
  \/ \E tokens \in PrefixKeys : LookupPrefix(tokens)

KvSpec == KvInit /\ [][KvNext]_kvVars
-----------------------------------------------------------------------------
(* Type invariant. *)
KvTypeOK ==
  /\ \A l \in KvLayerIds : /\ stored[l] \in (0 .. MaxPos) \cup (0 .. MaxPaged)
                           /\ kv.lba \in 0 .. LBAEnd - 1
                           /\ \A i \in BankIds :
                                /\ kv.banks[l][i].occ \in 0 .. Depth
                                /\ kv.banks[l][i].wr \in 0 .. Depth - 1
                                /\ kv.banks[l][i].rd \in 0 .. Depth - 1
  /\ Cardinality(DOMAIN prefix.entries) <= PrefixMax

(* How many of the first `stored[l]` positions were dealt to bank i.       *)
Dealt(l, i) == (stored[l] + NumBanks - 1 - i) \div NumBanks

(* A caller that stores positions in order, and offers a refused one       *)
(* again, loads every position back until the offload cycle has spilled    *)
(* it, and never another position's entry, whatever the wrap-arounds, the  *)
(* refusals and the drained banks in between (Store, Load, OffloadCycle).  *)
LoadsWhatWasStored ==
  caller = "sequence" =>
    \A l \in KvLayerIds, pos \in 0 .. MaxPos - 1 :
      LET i    == BankOf(pos)
          live == LocalPos(pos) >= Dealt(l, i) - kv.banks[l][i].occ
      IN  LayerLoad(kv.banks[l], pos) = IF pos < stored[l] /\ live THEN pos ELSE NoEntry

(* The sliding window of a layer is the loadable part of its last          *)
(* positions, in order; a layer that does not slide sees them all.         *)
WindowIsRecent ==
  caller = "sequence" =>
    \A l \in KvLayerIds : stored[l] > 0 =>
      LET got == KvLoadWindow(kv, l, stored[l] - 1)
          w   == kv.window[l]
      IN  /\ \A k \in 1 .. Len(got) - 1 : got[k] < got[k + 1]
          /\ \A pos \in 0 .. stored[l] - 1 :
               (\E k \in 1 .. Len(got) : got[k] = pos) <=>
                 (LayerLoad(kv.banks[l], pos) = pos /\ (w > 0 => stored[l] - 1 - pos < w))

(* With an NVMe sink no entry is dropped before it is written: what is not *)
(* in a bank is on the device until the region has gone round, and then    *)
(* the region holds whole entries only, as many as it has room for.        *)
Persisted(l, pos) == \E b \in DOMAIN kv.nvme.blocks : kv.nvme.blocks[b] = <<l, pos>>

SpilledIsPersisted ==
  caller = "sequence" /\ kv.mode = "nvme" /\ kv.nvme.present =>
    LET room  == LBAEnd \div EntryBlocks
        nvme  == kv.nvme.blocks
    IN  /\ DOMAIN nvme \subseteq 0 .. LBAEnd - 1
        /\ kv.stats.nvmeWrites <= room =>
             \A l \in KvLayerIds, pos \in 0 .. MaxPos - 1 :
               pos < stored[l] => Persisted(l, pos) \/ LayerLoad(kv.banks[l], pos) = pos
        /\ kv.stats.nvmeWrites >= room =>
             /\ Cardinality({nvme[b] : b \in DOMAIN nvme}) = room
             /\ \A b \in DOMAIN nvme : nvme[b] = nvme[b - (b % EntryBlocks)]

(* RepeatKV gives query head q the whole of its group's K/V head, for      *)
(* every division of the frame into heads (RepeatKV).                      *)
HeadsRepeated ==
  \A kvHeads \in 1 .. 3, group \in 2 .. 3, share \in 1 .. 2 :
    LET entry    == [i \in 1 .. kvHeads * share |-> i]
        repeated == RepeatKV(entry, kvHeads * group, kvHeads, 1, Len(entry))
    IN  /\ Len(repeated) = Len(entry) * group
        /\ \A q \in 0 .. kvHeads * group - 1, b \in 1 .. share :
             repeated[q * share + b] = entry[(q \div group) * share + b]

(* The cache as its sequential caller sees it.                             *)
KvFaithful == LoadsWhatWasStored /\ WindowIsRecent /\ SpilledIsPersisted /\ HeadsRepeated

(* Every physical page of a layer is free or mapped by exactly one virtual *)
(* page, however allocations, shares and frees alternate.                  *)
PagesOwnedOnce == \A l \in KvLayerIds : OwnedOnce(pages[l], MaxPages)
=============================================================================
