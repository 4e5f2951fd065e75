--------------------------- MODULE TranslationCache ---------------------------
(***************************************************************************)
(* The cache of translated guest code (exec.c, cpu-exec.c, exec-all.h) and *)
(* the soft MMU that keeps it coherent.  A translation block is found by   *)
(* its virtual address in tb_jmp_cache or by its physical address in       *)
(* tb_phys_hash; a write to a page that holds translated code goes through *)
(* notdirty_mem_write, which throws the blocks it overlaps away.  A guest  *)
(* kernel block is one instruction, so a block is what one instruction     *)
(* was translated from; it may span two pages.  One CPU; the guest maps    *)
(* neighbouring virtual pages to different frames.                         *)
(***************************************************************************)
EXTENDS Integers, Sequences, FiniteSets

CONSTANTS
  Pages,                   \* number of guest virtual pages, 0 .. Pages - 1
  Frames,                  \* number of physical pages
  PageSize,                \* bytes of a page
  Byte,                    \* contents of a byte of memory
  InitMem, InitMap,        \* initial memory and page table
  Entry, Data, Transfer,   \* addresses of instructions, addresses they store
                           \* to, offsets a device writes together
  Length,                  \* bytes of the instruction a byte starts, 1 or 2
  MaxBlocks,               \* CODE_GEN_MAX_BLOCKS
  Threshold,               \* SMC_BITMAP_USE_THRESHOLD
  TlbSize,                 \* CPU_TLB_SIZE
  JmpPages,                \* pages tb_jmp_cache tells apart
  MaxMaps, MaxWrites       \* bounds on mapping changes or flushes and device writes

VPage == 0 .. Pages - 1
Frame == 0 .. Frames - 1
Offset == 1 .. PageSize
NONE == -1

\* What the constants are.
ASSUME CacheAssumption ==
  /\ Pages \in Nat \ {0} /\ Frames \in Nat \ {0} /\ PageSize \in Nat \ {0, 1}
  /\ MaxBlocks \in Nat \ {0} /\ Threshold \in Nat \ {0}
  /\ TlbSize \in Nat \ {0, 1} /\ JmpPages \in Nat \ {0, 1}
  /\ MaxMaps \in Nat /\ MaxWrites \in Nat
  /\ Length \in [Byte -> {1, 2}]
  /\ InitMem \in [Frame -> [Offset -> Byte]]
  /\ InitMap \in [VPage -> Frame]
  /\ \A v \in VPage : v + 1 \in VPage => InitMap[v] # InitMap[v + 1]
  /\ Entry \subseteq { a \in VPage \X Offset : a[2] < PageSize \/ a[1] + 1 \in VPage }
  /\ Data \subseteq VPage \X Offset /\ Transfer \subseteq SUBSET Offset

VARIABLES
  mem,                     \* guest memory: frame, offset -> byte
  pt,                      \* guest page table: page -> frame
  seen,                    \* frames a page was mapped to since its last flush
  c,                       \* the cache, the TLB and the dirty bits
  insn,                    \* the instruction to be executed again, or Idle
  tries,                   \* times it was restarted since the last device write
  maps, writes             \* mapping changes or flushes and device writes so far

cacheVars == <<mem, pt, seen, c, insn, tries, maps, writes>>

tb_jmp_cache_hash_func(pc) == <<pc[1] % JmpPages, pc[2]>>

\* c.tbs are the blocks allocated since the last flush (nb_tbs is its length),
\* c.linked those in tb_phys_hash and in the lists of their pages, where the
\* newest comes first, and c.jmp those in tb_jmp_cache, each at the index of its
\* pc.  c.built are the pages with a code_bitmap, c.bitmap its bits, c.writes
\* the writes code_write_count has counted.  c.tlb are the pages in the TLB,
\* c.slow those of them whose stores go to notdirty_mem_write.
EmptyCache ==
  [tbs |-> << >>, linked |-> {}, jmp |-> {}, built |-> {}, bitmap |-> {}, writes |-> {},
   dirty |-> Frame, tlb |-> {}, slow |-> {}]

\* An instruction: where it is and the byte it stores, if it stores one.
Insn == [pc : Entry, op : {"store"}, to : Data, byte : Byte]
        \cup { [pc |-> a, op |-> "other"] : a \in Entry }
Idle == [op |-> "idle"]

-----------------------------------------------------------------------------
\* Bytes of memory that block tb was translated from.
Covered(tb) ==
  { <<tb.page[1], o>> : o \in Offset \cap (tb.pc[2] .. tb.pc[2] + Len(tb.code) - 1) }
  \cup { <<tb.page[2], o>> : o \in 1 .. tb.pc[2] + Len(tb.code) - 1 - PageSize }

PagesOf(tb) == {tb.page[1], tb.page[2]} \ {NONE}
InPage(k, p) == { i \in k.linked : p \in PagesOf(k.tbs[i]) }

\* invalidate_page_bitmap
DropBitmaps(k, ps) ==
  [k EXCEPT !.built = @ \ ps,
            !.bitmap = { b \in @ : b[1] \notin ps },
            !.writes = { w \in @ : w[1] \notin ps }]

tb_flush(k) == DropBitmaps([k EXCEPT !.tbs = << >>, !.linked = {}, !.jmp = {}], Frame)

\* tb_alloc, and the flush when it fails.
tb_alloc(k) == IF Len(k.tbs) < MaxBlocks THEN k ELSE tb_flush(k)

\* Mutated form: a block is unlinked but stays in the jump cache.
InvalidateKeepsJmp(k, is) ==
  DropBitmaps([k EXCEPT !.linked = @ \ is], UNION { PagesOf(k.tbs[i]) : i \in is })

\* tb_phys_invalidate of every block in is.
tb_phys_invalidate(k, is) ==
  DropBitmaps([k EXCEPT !.linked = @ \ is, !.jmp = @ \ is],
              UNION { PagesOf(k.tbs[i]) : i \in is })

TlbFrame(k, v) == CHOOSE p \in Frame : <<v, p>> \in k.tlb

\* tlb_set_page_exec for a page that is not in the TLB.
tlb_fill(k, v) ==
  IF \E p \in Frame : <<v, p>> \in k.tlb THEN k
  ELSE [k EXCEPT
         !.tlb = { e \in @ : e[1] % TlbSize # v % TlbSize } \cup {<<v, pt[v]>>},
         !.slow = { w \in @ : w % TlbSize # v % TlbSize }
                  \cup (IF pt[v] \in k.dirty THEN {} ELSE {v})]

\* cpu_physical_memory_reset_dirty(CODE_DIRTY_FLAG) for the frames ps.
tlb_protect_code(k, ps) ==
  [k EXCEPT !.dirty = @ \ ps, !.slow = @ \cup { e[1] : e \in { t \in k.tlb : t[2] \in ps } }]

\* tb_link_phys with tb_alloc_page: a page is protected when it gets its first
\* block.
tb_link_phys(k, tb) ==
  LET first == { p \in PagesOf(tb) : InPage(k, p) = {} }
      linked == [k EXCEPT !.tbs = Append(@, tb), !.linked = @ \cup {Len(k.tbs) + 1}]
  IN  DropBitmaps(tlb_protect_code(linked, first), PagesOf(tb))

\* cpu_gen_code and tb_link_phys for the instruction at pc as the TLB maps it.
Translate(k, pc, single) ==
  LET one == tlb_fill(tb_alloc(k), pc[1])
      p1 == TlbFrame(one, pc[1])
      end == pc[2] + Length[mem[p1][pc[2]]] - 1
      two == IF end > PageSize THEN tlb_fill(one, pc[1] + 1) ELSE one
      p2 == IF end > PageSize THEN TlbFrame(two, pc[1] + 1) ELSE NONE
      bytes == IF p2 = NONE THEN mem[p1] ELSE mem[p1] \o mem[p2]
  IN  tb_link_phys(two, [pc |-> pc, page |-> <<p1, p2>>,
                         code |-> SubSeq(bytes, pc[2], end), single |-> single])

\* Mutated form: the block is not marked CF_SINGLE_INSN.
GenPlain(k, pc, single) == Translate(k, pc, FALSE)

\* tb_gen_code, and tb_find_slow when there is no block.
tb_gen_code(k, pc, single) == Translate(k, pc, single)

\* The entry of tb_jmp_cache for pc.
JmpEntry(k, pc) ==
  { i \in k.jmp : tb_jmp_cache_hash_func(k.tbs[i].pc) = tb_jmp_cache_hash_func(pc) }

\* The first block of a set on its chain of tb_phys_hash: tb_link_phys adds
\* the newest at the head.
Newest(S) == CHOOSE t \in S : \A u \in S : u <= t

\* tb_find_slow: the block and the cache after the search.
tb_find_slow(k, pc) ==
  LET one == tlb_fill(k, pc[1])
      same == { i \in one.linked : one.tbs[i].pc = pc
                                   /\ one.tbs[i].page[1] = TlbFrame(one, pc[1]) }
      two == IF \E i \in same : one.tbs[i].page[2] # NONE
             THEN tlb_fill(one, pc[1] + 1) ELSE one
      found == { i \in same : two.tbs[i].page[2] # NONE =>
                              two.tbs[i].page[2] = TlbFrame(two, pc[1] + 1) }
      after == IF found # {} THEN two ELSE tb_gen_code(two, pc, FALSE)
      tb == IF found # {} THEN Newest(found) ELSE Len(after.tbs)
  IN  [tb |-> tb, cache |-> [after EXCEPT !.jmp = (@ \ JmpEntry(after, pc)) \cup {tb}]]

\* tb_find_fast
tb_find_fast(k, pc) ==
  LET hit == { i \in JmpEntry(k, pc) : k.tbs[i].pc = pc }
  IN  IF hit # {} THEN [tb |-> Newest(hit), cache |-> k] ELSE tb_find_slow(k, pc)

\* build_page_bitmap, when the page was written to often enough.
CountWrite(k, p, cpu) ==
  LET n == Cardinality({ w \in k.writes : w[1] = p }) + 1
      counted == [k EXCEPT !.writes = @ \cup {<<p, IF n < Threshold THEN n ELSE Threshold>>}]
  IN  IF p \in k.built THEN k
      ELSE IF n >= Threshold /\ cpu
           THEN [counted EXCEPT !.built = @ \cup {p},
                   !.bitmap = @ \cup { b \in UNION { Covered(k.tbs[i]) : i \in k.linked } : b[1] = p }]
           ELSE counted

\* tb_invalidate_phys_page_range for the bytes os of frame p, called by the block
\* cur or, cur = 0, by a device.  modified: cur is one of those removed, so its
\* instruction is translated again, alone, and executed again.
tb_invalidate_phys_page_range(k, p, os, cur) ==
  LET counted == CountWrite(k, p, cur # 0)
      hit == { i \in k.linked : Covered(k.tbs[i]) \cap ({p} \X os) # {} }
      cleared == tb_phys_invalidate(counted, hit)
      left == IF InPage(cleared, p) # {} THEN cleared ELSE DropBitmaps(cleared, {p})
      open == IF InPage(cleared, p) = {} /\ cur # 0 THEN [left EXCEPT !.dirty = @ \cup {p}] ELSE left
      modified == cur \in hit /\ ~k.tbs[cur].single
  IN  [modified |-> modified,
       cache |-> IF modified THEN tb_gen_code(open, k.tbs[cur].pc, TRUE) ELSE open]

\* notdirty_mem_write with tb_invalidate_phys_page_fast.
notdirty_mem_write(k, cur, v, o) ==
  LET p == TlbFrame(k, v)
      r == IF p \in k.dirty \/ (p \in k.built /\ <<p, o>> \notin k.bitmap)
           THEN [modified |-> FALSE, cache |-> k]
           ELSE tb_invalidate_phys_page_range(k, p, {o}, cur)
  IN  IF r.modified \/ p \notin r.cache.dirty THEN r
      ELSE [r EXCEPT !.cache.slow = @ \ {v}]

-----------------------------------------------------------------------------
\* One turn of the loop of cpu_exec: tb_find_fast for the next instruction of
\* the guest, or for the one to be executed again, and gen_func().
Run(i) ==
  /\ insn \in {Idle, i} /\ i.op = "other"
  /\ c' = tb_find_fast(c, i.pc).cache
  /\ insn' = Idle /\ tries' = 0
  /\ UNCHANGED <<mem, pt, seen, maps, writes>>

\* A store goes through the TLB, directly or by notdirty_mem_write.
Store(i) ==
  /\ insn \in {Idle, i} /\ i.op = "store"
  /\ \E f \in {tb_find_fast(c, i.pc)} :
       LET v == i.to[1]
           k == tlb_fill(f.cache, v)
           r == IF v \in k.slow THEN notdirty_mem_write(k, f.tb, v, i.to[2])
                ELSE [modified |-> FALSE, cache |-> k]
       IN  /\ c' = r.cache
           /\ IF r.modified
              THEN insn' = i /\ tries' = tries + 1 /\ UNCHANGED mem
              ELSE /\ mem' = [mem EXCEPT ![TlbFrame(k, v)][i.to[2]] = i.byte]
                   /\ insn' = Idle /\ tries' = 0
  /\ UNCHANGED <<pt, seen, maps, writes>>

\* cpu_physical_memory_rw by a device, between two instructions.
DeviceWrite(p, os, b) ==
  /\ writes < MaxWrites
  /\ mem' = [mem EXCEPT ![p] = [o \in Offset |-> IF o \in os THEN b ELSE @[o]]]
  /\ c' = IF p \in c.dirty THEN c ELSE tb_invalidate_phys_page_range(c, p, os, 0).cache
  /\ writes' = writes + 1 /\ tries' = 0
  /\ UNCHANGED <<pt, seen, insn, maps>>

\* The guest changes a page table entry; the TLB is not told.
MapPage(v, p) ==
  /\ insn = Idle /\ maps < MaxMaps /\ pt[v] # p
  /\ \A w \in VPage \cap {v - 1, v + 1} : p \notin seen[w]
  /\ pt' = [pt EXCEPT ![v] = p]
  /\ seen' = [seen EXCEPT ![v] = @ \cup {p}]
  /\ maps' = maps + 1
  /\ UNCHANGED <<mem, c, insn, tries, writes>>

\* Mutated form: blocks that start on the page before stay in the jump cache.
FlushOnePage(k, v) ==
  [k EXCEPT !.tlb = { e \in @ : e[1] # v }, !.slow = @ \ {v},
            !.jmp = { i \in @ : k.tbs[i].pc[1] % JmpPages # v % JmpPages }]

tlb_flush_page(k, v) ==
  [k EXCEPT !.tlb = { e \in @ : e[1] # v }, !.slow = @ \ {v},
            !.jmp = { i \in @ : k.tbs[i].pc[1] % JmpPages
                                 \notin {v % JmpPages, (v - 1) % JmpPages} }]

Invlpg(v) ==
  /\ insn = Idle /\ maps < MaxMaps
  /\ c' = tlb_flush_page(c, v)
  /\ seen' = [seen EXCEPT ![v] = {pt[v]}]
  /\ maps' = maps + 1
  /\ UNCHANGED <<mem, pt, insn, tries, writes>>

\* tlb_flush, when the guest loads %cr3.
FlushTlb ==
  /\ insn = Idle /\ maps < MaxMaps
  /\ c' = [c EXCEPT !.tlb = {}, !.slow = {}, !.jmp = {}]
  /\ seen' = [v \in VPage |-> {pt[v]}]
  /\ maps' = maps + 1
  /\ UNCHANGED <<mem, pt, insn, tries, writes>>

CacheInit ==
  /\ mem = InitMem
  /\ pt = InitMap
  /\ seen = [v \in VPage |-> {pt[v]}]
  /\ c = EmptyCache
  /\ insn = Idle /\ tries = 0 /\ maps = 0 /\ writes = 0

Guest == FlushTlb \/ \E v \in VPage : Invlpg(v) \/ \E p \in Frame : MapPage(v, p)
Device == \E p \in Frame, os \in Transfer, b \in Byte : DeviceWrite(p, os, b)
Cpu == \E i \in Insn : Run(i) \/ Store(i)
CacheNext == Guest \/ Device \/ Cpu
CacheSpec == CacheInit /\ [][CacheNext]_cacheVars

-----------------------------------------------------------------------------
Contents(tb) ==
  SubSeq(IF tb.page[2] = NONE THEN mem[tb.page[1]] ELSE mem[tb.page[1]] \o mem[tb.page[2]],
         tb.pc[2], tb.pc[2] + Len(tb.code) - 1)

\* Every block that a lookup can return was translated from what memory holds
\* now, whoever wrote it and through whatever mapping, the page bitmap and the
\* jump cache included.
BlocksAreCurrent == \A i \in c.linked \cup c.jmp : c.tbs[i].code = Contents(c.tbs[i])

\* A block the jump cache returns, without a look at the page tables, was
\* translated from the frames its addresses are mapped to, or were mapped to
\* since the guest last flushed them, the second page of the block included.
JumpsToMappedCode ==
  \A i \in c.jmp :
    LET tb == c.tbs[i]
    IN  /\ tb.page[1] \in seen[tb.pc[1]]
        /\ tb.page[2] # NONE => tb.page[2] \in seen[tb.pc[1] + 1]

\* An instruction that overwrites itself completes: it is restarted in a block
\* of its own, and that block is not restarted again.
RestartsOnce == tries <= 1
=============================================================================
