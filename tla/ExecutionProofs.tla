---------------------------- MODULE ExecutionProofs ----------------------------
(***************************************************************************)
(* What runs the guest's instructions, proved for all sizes.               *)
(*                                                                         *)
(* cpu_exec: no kernel instruction is begun without a call of DoAddress,   *)
(* whatever the guest's program, the size of its address space and of its  *)
(* kernel, the longest block and the depth of interrupts.                  *)
(*                                                                         *)
(* The cache of translated code: every block that a lookup can return is   *)
(* the translation of what memory holds, every entry of the jump cache is  *)
(* on frames its pages were mapped to, and an instruction that overwrites  *)
(* itself is restarted once, whatever the sizes of pages, TLB, jump cache  *)
(* and block table, the programs and what devices write.                   *)
(***************************************************************************)
EXTENDS CpuExec, TranslationCache, SequenceTheorems, WellFoundedInduction, TLAPS

(* Inductive: nothing is ever chained, and inside a block the CPU is at an   *)
(* instruction that DoAddress was called for unless it is user code.         *)
WatchInv ==
  /\ T0 = None /\ chained = {}
  /\ ~loop => (pc >= KernelStart => asked)
  /\ KernelIsWatched

(* An instruction that ends a block or not, Execute and Iret: the next one   *)
(* in the same block is never in the kernel (translate.c).                   *)
LEMMA GotoWatches ==
  ASSUME WatchInv, ~loop, Begin, NEW next, Goto(next),
         kind[pc] # "jump" => next = NextPc(pc)
  PROVE  WatchInv'
<1>1. KernelIsWatched'
  BY Zenon DEF WatchInv, KernelIsWatched, Begin
<1>2. CASE Stops(pc, length + 1)
  BY <1>1, <1>2, Zenon DEF WatchInv, Goto, jmp_opt
<1>3. CASE ~Stops(pc, length + 1)
  <2>1. next = NextPc(pc) /\ ~(next >= KernelStart)
    BY <1>3, Zenon DEF Stops
  <2> QED  BY <1>1, <1>3, <2>1, Zenon DEF WatchInv, Goto
<1> QED  BY <1>2, <1>3, Zenon

(* Every step of cpu_exec and of a block keeps WatchInv.                     *)
LEMMA WatchStep == WatchInv /\ [Next]_vars => WatchInv'
<1> SUFFICES ASSUME WatchInv, [Next]_vars PROVE WatchInv'  BY Zenon
<1>1. CASE Interrupt
  BY <1>1, Zenon DEF WatchInv, KernelIsWatched, Interrupt, do_interrupt
<1>2. CASE RunBlock
  BY <1>2, ZenonT(60) DEF WatchInv, KernelIsWatched, RunBlock
<1>3. CASE Execute
  <2>1. CASE kind[pc] = "jump"
    <3>1. PICK a \in Addr : Goto(a)
      BY <1>3, <2>1, Zenon DEF Execute
    <3> QED  BY <1>3, <2>1, <3>1, GotoWatches, Zenon DEF Execute
  <2>2. CASE kind[pc] # "jump"
    BY <1>3, <2>2, GotoWatches, Zenon DEF Execute
  <2> QED  BY <2>1, <2>2, Zenon
<1>4. CASE Iret
  BY <1>4, GotoWatches, Zenon DEF Iret
<1>5. CASE Fault
  <2>1. KernelIsWatched'
    BY <1>5, Zenon DEF WatchInv, KernelIsWatched, Fault, Begin
  <2> QED  BY <1>5, <2>1, Zenon DEF WatchInv, Fault, do_interrupt
<1>6. CASE ResumeFromSignal
  <2>1. KernelIsWatched'
    BY <1>6, Zenon DEF WatchInv, KernelIsWatched, ResumeFromSignal, Begin
  <2> QED  BY <1>6, <2>1, Zenon DEF WatchInv, ResumeFromSignal
<1>7. CASE UNCHANGED vars
  BY <1>7, Zenon DEF WatchInv, KernelIsWatched, vars
<1> QED  BY <1>1, <1>2, <1>3, <1>4, <1>5, <1>6, <1>7, Zenon DEF Next

(* cpu_exec calls DoAddress before every kernel instruction the guest        *)
(* begins: since translation stops before a kernel address and no block is   *)
(* chained to another.                                                       *)
THEOREM CpuExecWatchesKernel == Spec => []KernelIsWatched
<1>1. Init => WatchInv
  BY DEF Init, WatchInv, KernelIsWatched
<1>2. WatchInv => KernelIsWatched
  BY Zenon DEF WatchInv
<1> QED  BY <1>1, <1>2, WatchStep, PTL DEF Spec
-----------------------------------------------------------------------------
(* The translation cache.                                                    *)

(* What a block was translated from is in the memory m.                      *)
ContentsIn(m, tb) ==
  SubSeq(IF tb.page[2] = NONE THEN m[tb.page[1]] ELSE m[tb.page[1]] \o m[tb.page[2]],
         tb.pc[2], tb.pc[2] + Len(tb.code) - 1)

(* A translation block: an instruction on one page, or one that starts at    *)
(* the end of a page and ends on the next.                                   *)
Tb ==
  { tb \in [pc : Entry, page : Frame \X (Frame \cup {NONE}), code : Seq(Byte), single : BOOLEAN] :
      /\ Len(tb.code) \in {1, 2}
      /\ tb.page[2] = NONE => tb.pc[2] + Len(tb.code) - 1 <= PageSize
      /\ tb.page[2] # NONE => /\ tb.pc[2] = PageSize /\ Len(tb.code) = 2
                              /\ tb.pc[1] + 1 \in VPage }

(* The fields of the cache.                                                  *)
IsCache(k) ==
  k \in [tbs : {k.tbs}, linked : {k.linked}, jmp : {k.jmp}, built : {k.built},
         bitmap : {k.bitmap}, writes : {k.writes}, dirty : {k.dirty}, tlb : {k.tlb},
         slow : {k.slow}]

(* The blocks in use are allocated; those of the jump cache are linked, and  *)
(* each is alone at its index.                                               *)
BlocksOK(k) ==
  /\ k.tbs \in Seq(Tb)
  /\ k.linked \subseteq 1 .. Len(k.tbs)
  /\ k.jmp \subseteq k.linked
  /\ \A i, j \in k.jmp :
       tb_jmp_cache_hash_func(k.tbs[i].pc) = tb_jmp_cache_hash_func(k.tbs[j].pc) => i = j

(* A page is in the TLB once, under a frame it was mapped to since its last  *)
(* flush, and a store to a frame that is not dirty takes the slow path.      *)
TlbOK(k) ==
  /\ k.tlb \subseteq VPage \X Frame
  /\ \A e \in k.tlb : e[2] \in seen[e[1]]
  /\ \A e, f \in k.tlb : e[1] = f[1] => e = f
  /\ \A e \in k.tlb : e[2] \notin k.dirty => e[1] \in k.slow

(* A frame that a linked block was translated from is not dirty, and its     *)
(* bitmap, if there is one, has the bytes of the block.                      *)
Guarded(k) ==
  \A i \in k.linked :
    /\ PagesOf(k.tbs[i]) \cap k.dirty = {}
    /\ \A b \in Covered(k.tbs[i]) : b[1] \in k.built => b \in k.bitmap

(* The entries of the jump cache are on frames their pages were mapped to.   *)
JumpsOK(k) ==
  \A i \in k.jmp :
    /\ k.tbs[i].page[1] \in seen[k.tbs[i].pc[1]]
    /\ k.tbs[i].page[2] # NONE => k.tbs[i].page[2] \in seen[k.tbs[i].pc[1] + 1]

(* The linked blocks are translations of what the memory m holds.            *)
Current(k, m) == \A i \in k.linked : k.tbs[i].code = ContentsIn(m, k.tbs[i])

Sound(k) ==
  IsCache(k) /\ BlocksOK(k) /\ TlbOK(k) /\ Guarded(k) /\ JumpsOK(k)

(* Block i is linked, is of the instruction at e and is on the frames the    *)
(* TLB has for its pages.                                                    *)
OnTlb(k, e, i) ==
  /\ i \in k.linked /\ k.tbs[i].pc = e
  /\ <<e[1], k.tbs[i].page[1]>> \in k.tlb
  /\ k.tbs[i].page[2] # NONE => <<e[1] + 1, k.tbs[i].page[2]>> \in k.tlb

(* The next lookup of e finds a block of that instruction alone: it is the   *)
(* newest one and not hidden by an entry of the jump cache.                  *)
Ready(k, e) ==
  /\ OnTlb(k, e, Len(k.tbs)) /\ k.tbs[Len(k.tbs)].single
  /\ \A i \in k.jmp : k.tbs[i].pc # e

(* d is k with the translation of the instruction at e as its newest block,  *)
(* after a flush of the blocks of k or without.                              *)
Translated(k, d, e, single) ==
  /\ Sound(d) /\ Current(d, mem)
  /\ OnTlb(d, e, Len(d.tbs)) /\ d.tbs[Len(d.tbs)].single = single
  /\ d.jmp \subseteq k.jmp
  /\ \A i \in d.jmp : d.tbs[i] = k.tbs[i]

(* Memory and page table.                                                    *)
MemoryOK == mem \in [Frame -> [Offset -> Byte]]
MapOK ==
  /\ pt \in [VPage -> Frame] /\ seen \in [VPage -> SUBSET Frame]
  /\ \A v \in VPage : pt[v] \in seen[v]

(* The inductive invariant.                                                  *)
CacheInv ==
  /\ MemoryOK /\ MapOK /\ Sound(c) /\ Current(c, mem)
  /\ tries \in {0, 1}
  /\ tries = 1 => insn # Idle /\ Ready(c, insn.pc)

(* The greatest element of a bounded set of numbers is in the set.           *)
LEMMA Greatest ==
  ASSUME NEW n \in Nat, NEW S, S \subseteq 1 .. n, S # {}
  PROVE  Newest(S) \in S /\ \A y \in S : y <= Newest(S)
<1> DEFINE T == { t \in Nat : n - t \in S }
           Less == { ss \in Nat \X Nat : ss[1] < ss[2] }
<1>1. IsWellFoundedOn(Less, Nat)
  BY NatLessThanWellFounded, Zenon DEF OpToRel
<1>2. T # {} /\ T \subseteq Nat
  <2>1. PICK s \in S : TRUE
    BY Zenon
  <2>2. n - s \in Nat /\ n - (n - s) = s
    BY <2>1
  <2>3. n - s \in T
    BY <2>1, <2>2, Zenon
  <2> QED  BY <2>3, Zenon
<1>3. PICK x \in T : \A y \in T : ~(<<y, x>> \in Less)
  BY Zenon, <1>1, <1>2, WFMin
<1>4. ASSUME NEW y \in S PROVE y <= n - x
  <2>1. y \in 1 .. n /\ n - y \in Nat /\ n - (n - y) = y
    OBVIOUS
  <2>2. n - y \in T
    BY <2>1, Zenon
  <2>3. n - y < x => <<n - y, x>> \in Less
    BY <1>2, <2>2, Zenon
  <2> QED  BY <1>3, <2>1, <2>2, <2>3
<1>5. n - x \in S
  BY <1>3, Zenon
<1>6. \E z \in S : \A y \in S : y <= z
  BY <1>4, <1>5, Zenon
<1>7. Newest(S) \in S /\ \A y \in S : y <= Newest(S)
  BY <1>6, Zenon DEF Newest
<1> QED  BY <1>7, Zenon

(* A page of memory is a sequence of its size.                               *)
LEMMA PageIsSeq ==
  ASSUME NEW s \in [Offset -> Byte]
  PROVE  s \in Seq(Byte) /\ Len(s) = PageSize
<1>1. PageSize \in Nat
  BY CacheAssumption, Zenon
<1>2. s \in [1 .. PageSize -> Byte]
  BY Zenon DEF Offset
<1>3. s \in Seq(Byte)
  BY <1>1, <1>2, SeqDef, Zenon
<1> QED  BY <1>1, <1>2, <1>3

(* The instruction of l bytes at offset a of the page x, which may be        *)
(* followed by the page y in s, and its bytes.                               *)
Slice(x, y, s, a, l) ==
  /\ x \in [Offset -> Byte] /\ a \in Offset /\ l \in {1, 2}
  /\ \/ s = x /\ a + l - 1 <= PageSize
     \/ s = x \o y /\ y \in [Offset -> Byte]
SliceIs(x, y, a, l, b) ==
  /\ b \in Seq(Byte) /\ Len(b) = l
  /\ \A j \in 1 .. l :
       b[j] = IF a + j - 1 <= PageSize THEN x[a + j - 1] ELSE y[a + j - 1 - PageSize]

LEMMA SliceBytes ==
  ASSUME NEW x, NEW y, NEW s, NEW a, NEW l, Slice(x, y, s, a, l)
  PROVE  SliceIs(x, y, a, l, SubSeq(s, a, a + l - 1))
<1> USE DEF Slice
<1>1. PageSize \in Nat /\ PageSize > 1 /\ l \in {1, 2}
  BY CacheAssumption
<1>2. a \in 1 .. PageSize
  BY Zenon DEF Offset
<1>5. ASSUME NEW i \in a .. a + l - 1
      PROVE  s[i] \in Byte /\ s[i] = IF i <= PageSize THEN x[i] ELSE y[i - PageSize]
  <2>1. CASE s = x /\ a + l - 1 <= PageSize
    <3>1. i \in Offset /\ i <= PageSize
      BY <1>1, <1>2, <2>1 DEF Offset
    <3> QED  BY <2>1, <3>1, Zenon
  <2>2. CASE s = x \o y /\ y \in [Offset -> Byte]
    <3>1. i \in 1 .. PageSize + PageSize
      BY <1>1, <1>2, <2>2
    <3>2. x \in Seq(Byte) /\ y \in Seq(Byte) /\ Len(x) = PageSize /\ Len(y) = PageSize
      BY <2>2, PageIsSeq, Zenon
    <3>3. /\ s \in Seq(Byte) /\ Len(s) = PageSize + PageSize
          /\ s[i] = IF i <= PageSize THEN x[i] ELSE y[i - PageSize]
      <4>1. s = x \o y
        BY <2>2, Zenon
      <4>2. /\ x \o y \in Seq(Byte) /\ Len(x \o y) = Len(x) + Len(y)
            /\ \A n \in 1 .. Len(x) + Len(y) :
                 (x \o y)[n] = IF n <= Len(x) THEN x[n] ELSE y[n - Len(x)]
        BY <3>2, ConcatProperties, Zenon
      <4>3. i \in 1 .. Len(x) + Len(y)
        BY <3>1, <3>2, Zenon
      <4>4. (x \o y)[i] = IF i <= PageSize THEN x[i] ELSE y[i - PageSize]
        BY <3>2, <4>2, <4>3, Zenon
      <4> QED  BY <3>2, <4>1, <4>2, <4>4, Zenon
    <3>4. i \in 1 .. Len(s)
      BY <3>1, <3>3, Zenon
    <3>5. s[i] \in Byte
      BY <3>3, <3>4, ElementOfSeq, Zenon
    <3> QED  BY <3>3, <3>5, Zenon
  <2> QED  BY <2>1, <2>2, Zenon
<1>6. /\ SubSeq(s, a, a + l - 1) \in Seq(Byte)
      /\ Len(SubSeq(s, a, a + l - 1)) = l
      /\ \A j \in 1 .. l : SubSeq(s, a, a + l - 1)[j] = s[a + j - 1]
  <2> DEFINE b == a + l - 1
  <2>1. a \in Int /\ b \in Int /\ a <= b /\ b - a + 1 = l
    BY <1>1, <1>2
  <2>2. \A i \in a .. b : s[i] \in Byte
    BY <1>5, Zenon
  <2> HIDE DEF b
  <2>3. /\ SubSeq(s, a, b) \in Seq(Byte)
        /\ Len(SubSeq(s, a, b)) = IF a <= b THEN b - a + 1 ELSE 0
        /\ \A j \in 1 .. b - a + 1 : SubSeq(s, a, b)[j] = s[a + j - 1]
    BY <2>1, <2>2, SubSeqProperties
  <2>4. /\ SubSeq(s, a, b) \in Seq(Byte)
        /\ Len(SubSeq(s, a, b)) = l
        /\ \A j \in 1 .. l : SubSeq(s, a, b)[j] = s[a + j - 1]
    BY <2>1, <2>3, Zenon
  <2> QED  BY <2>4, Zenon DEF b
<1>7. ASSUME NEW j \in 1 .. l
      PROVE  SubSeq(s, a, a + l - 1)[j] = IF a + j - 1 <= PageSize THEN x[a + j - 1]
                                    ELSE y[a + j - 1 - PageSize]
  <2>1. PICK i \in a .. a + l - 1 : i = a + j - 1
    BY <1>1, <1>2
  <2>2. SubSeq(s, a, a + l - 1)[j] = s[i]
    BY <1>6, <2>1, Zenon
  <2>3. s[i] = IF i <= PageSize THEN x[i] ELSE y[i - PageSize]
    BY <1>5, Zenon
  <2>4. CASE i <= PageSize
    <3>1. SubSeq(s, a, a + l - 1)[j] = x[i]
      BY <2>2, <2>3, <2>4, Zenon
    <3> QED  BY <2>1, <2>4, <3>1, Zenon
  <2>5. CASE ~(i <= PageSize)
    <3>1. SubSeq(s, a, a + l - 1)[j] = y[i - PageSize]
      BY <2>2, <2>3, <2>5, Zenon
    <3> QED  BY <1>1, <1>2, <2>1, <2>5, <3>1
  <2> QED  BY <2>4, <2>5, Zenon
<1> QED  BY <1>6, <1>7, Zenon DEF SliceIs

(* What the bytes of a block are.                                            *)
LEMMA ContentsBytes ==
  ASSUME NEW m \in [Frame -> [Offset -> Byte]], NEW tb \in Tb
  PROVE  /\ ContentsIn(m, tb) \in Seq(Byte)
         /\ Len(ContentsIn(m, tb)) = Len(tb.code)
         /\ \A j \in 1 .. Len(tb.code) :
              ContentsIn(m, tb)[j] =
                IF tb.pc[2] + j - 1 <= PageSize THEN m[tb.page[1]][tb.pc[2] + j - 1]
                ELSE m[tb.page[2]][tb.pc[2] + j - 1 - PageSize]
<1>1. /\ tb.pc \in Entry /\ tb.page[1] \in Frame /\ Len(tb.code) \in {1, 2} /\ PageSize \in Nat
      /\ tb.page[2] \in Frame \cup {NONE}
      /\ tb.page[2] = NONE => tb.pc[2] + Len(tb.code) - 1 <= PageSize
  BY CacheAssumption, Zenon DEF Tb
<1>2. tb.pc[2] \in Offset
  BY <1>1, CacheAssumption DEF Offset
<1>3. m[tb.page[1]] \in [Offset -> Byte] /\ (tb.page[2] # NONE => m[tb.page[2]] \in [Offset -> Byte])
  BY <1>1, Zenon
<1> DEFINE x == m[tb.page[1]]
           y == m[tb.page[2]]
           s == IF tb.page[2] = NONE THEN x ELSE x \o y
           a == tb.pc[2]
           l == Len(tb.code)
<1>4. Slice(x, y, s, a, l)
  BY <1>1, <1>2, <1>3, Zenon DEF Slice
<1>5. ContentsIn(m, tb) = SubSeq(s, a, a + l - 1)
  BY Zenon DEF ContentsIn
<1>6. SliceIs(x, y, a, l, ContentsIn(m, tb))
  BY <1>4, <1>5, SliceBytes, Zenon
<1> QED  BY <1>6, Zenon DEF SliceIs

(* The bytes a block covers are on its pages, and are the ones its code was  *)
(* read from.                                                                *)
LEMMA CoveredBytes ==
  ASSUME NEW tb \in Tb
  PROVE  /\ \A b \in Covered(tb) : b = <<b[1], b[2]>> /\ b[1] \in PagesOf(tb) /\ b[2] \in Offset
         /\ \A j \in 1 .. Len(tb.code) :
              IF tb.pc[2] + j - 1 <= PageSize THEN <<tb.page[1], tb.pc[2] + j - 1>> \in Covered(tb)
              ELSE <<tb.page[2], tb.pc[2] + j - 1 - PageSize>> \in Covered(tb)
         /\ PagesOf(tb) \subseteq Frame
<1> DEFINE a == tb.pc[2]
           l == Len(tb.code)
<1>1. /\ tb.pc \in Entry /\ tb.page[1] \in Frame /\ l \in {1, 2} /\ PageSize \in Nat
      /\ tb.page[2] \in Frame \cup {NONE}
      /\ tb.page[2] = NONE => a + l - 1 <= PageSize
      /\ tb.page[2] # NONE => a = PageSize
      /\ PageSize > 1
  BY CacheAssumption DEF Tb
<1>2. a \in 1 .. PageSize
  BY <1>1, CacheAssumption DEF Offset
<1> HIDE DEF a, l
<1>3. tb.page[1] # NONE
  BY <1>1 DEF Frame, NONE
<1>4. ASSUME NEW b \in Covered(tb)
      PROVE  b = <<b[1], b[2]>> /\ b[1] \in PagesOf(tb) /\ b[2] \in Offset
  <2>1. CASE b \in { <<tb.page[1], o>> : o \in Offset \cap (a .. a + l - 1) }
    BY <1>3, <2>1 DEF PagesOf
  <2>2. CASE b \in { <<tb.page[2], o>> : o \in 1 .. a + l - 1 - PageSize }
    <3>1. PICK o \in 1 .. a + l - 1 - PageSize : b = <<tb.page[2], o>>
      BY <2>2, Zenon
    <3>2. tb.page[2] # NONE /\ o \in Offset
      BY <1>1, <1>2, <3>1 DEF Offset
    <3> QED  BY <3>1, <3>2, Zenon DEF PagesOf
  <2> QED  BY <2>1, <2>2, Zenon DEF Covered, a, l
<1>5. ASSUME NEW j \in 1 .. l
      PROVE  IF a + j - 1 <= PageSize THEN <<tb.page[1], a + j - 1>> \in Covered(tb)
             ELSE <<tb.page[2], a + j - 1 - PageSize>> \in Covered(tb)
  <2>1. CASE a + j - 1 <= PageSize
    <3>1. a + j - 1 \in Offset \cap (a .. a + l - 1)
      BY <1>1, <1>2, <2>1 DEF Offset
    <3> QED  BY <2>1, <3>1, Zenon DEF Covered, a, l
  <2>2. CASE ~(a + j - 1 <= PageSize)
    <3>1. a + j - 1 - PageSize \in 1 .. a + l - 1 - PageSize
      BY <1>1, <1>2, <2>2
    <3> QED  BY <2>2, <3>1, Zenon DEF Covered, a, l
  <2> QED  BY <2>1, <2>2, Zenon
<1>6. PagesOf(tb) \subseteq Frame
  BY <1>1, Zenon DEF PagesOf
<1> QED  BY <1>4, <1>5, <1>6, Zenon DEF a, l

(* Two memories that agree on the bytes a block covers give the same         *)
(* translation.                                                              *)
LEMMA SameContents ==
  ASSUME NEW m \in [Frame -> [Offset -> Byte]], NEW n \in [Frame -> [Offset -> Byte]], NEW tb \in Tb,
         \A b \in Covered(tb) : m[b[1]][b[2]] = n[b[1]][b[2]]
  PROVE  ContentsIn(m, tb) = ContentsIn(n, tb)
<1> DEFINE x == ContentsIn(m, tb)
           y == ContentsIn(n, tb)
<1>1. x \in Seq(Byte) /\ y \in Seq(Byte) /\ Len(x) = Len(tb.code) /\ Len(y) = Len(tb.code)
  BY ContentsBytes, Zenon
<1>2. ASSUME NEW j \in 1 .. Len(tb.code) PROVE x[j] = y[j]
  <2>1. CASE tb.pc[2] + j - 1 <= PageSize
    <3>1. <<tb.page[1], tb.pc[2] + j - 1>> \in Covered(tb)
      BY <2>1, CoveredBytes, Zenon
    <3>2. m[tb.page[1]][tb.pc[2] + j - 1] = n[tb.page[1]][tb.pc[2] + j - 1]
      BY <3>1, Zenon
    <3> QED  BY <2>1, <3>2, ContentsBytes, Zenon
  <2>2. CASE ~(tb.pc[2] + j - 1 <= PageSize)
    <3>1. <<tb.page[2], tb.pc[2] + j - 1 - PageSize>> \in Covered(tb)
      BY <2>2, CoveredBytes, Zenon
    <3>2. m[tb.page[2]][tb.pc[2] + j - 1 - PageSize] = n[tb.page[2]][tb.pc[2] + j - 1 - PageSize]
      BY <3>1, Zenon
    <3> QED  BY <2>2, <3>2, ContentsBytes, Zenon
  <2> QED  BY <2>1, <2>2, Zenon
<1> HIDE DEF x, y
<1>3. x = y
  BY <1>1, <1>2
<1> QED  BY <1>3, Zenon DEF x, y

(* invalidate_page_bitmap leaves all but the bitmaps of ps alone.            *)
LEMMA DropFields ==
  ASSUME NEW k, IsCache(k), NEW ps
  PROVE  LET d == DropBitmaps(k, ps)
         IN  /\ IsCache(d)
             /\ d.tbs = k.tbs /\ d.linked = k.linked /\ d.jmp = k.jmp
             /\ d.dirty = k.dirty /\ d.tlb = k.tlb /\ d.slow = k.slow
             /\ d.built = k.built \ ps
             /\ d.bitmap = { b \in k.bitmap : b[1] \notin ps }
BY Zenon DEF IsCache, DropBitmaps

LEMMA DropSound ==
  ASSUME NEW k, Sound(k), NEW ps
  PROVE  Sound(DropBitmaps(k, ps))
<1> DEFINE d == DropBitmaps(k, ps)
<1>1. /\ IsCache(d)
      /\ d.tbs = k.tbs /\ d.linked = k.linked /\ d.jmp = k.jmp
      /\ d.dirty = k.dirty /\ d.tlb = k.tlb /\ d.slow = k.slow
      /\ d.built = k.built \ ps
      /\ d.bitmap = { b \in k.bitmap : b[1] \notin ps }
  BY DropFields DEF Sound
<1> HIDE DEF d
<1>2. BlocksOK(d) /\ TlbOK(d) /\ JumpsOK(d)
  BY <1>1, Zenon DEF Sound, BlocksOK, TlbOK, JumpsOK
<1>3. Guarded(d)
  BY <1>1, Zenon DEF Sound, Guarded
<1>4. Sound(d)
  BY <1>1, <1>2, <1>3, Zenon DEF Sound
<1> QED  BY <1>4, Zenon DEF d

LEMMA DropSame ==
  ASSUME NEW k, Sound(k), NEW ps
  PROVE  /\ DropBitmaps(k, ps).tbs = k.tbs /\ DropBitmaps(k, ps).linked = k.linked
         /\ DropBitmaps(k, ps).jmp = k.jmp /\ DropBitmaps(k, ps).tlb = k.tlb
<1>1. IsCache(k)
  BY Zenon DEF Sound
<1> QED  BY <1>1, Zenon DEF IsCache, DropBitmaps

(* tb_phys_invalidate removes blocks, from the jump cache too.               *)
LEMMA InvalidateSound ==
  ASSUME NEW k, Sound(k), NEW is
  PROVE  LET d == tb_phys_invalidate(k, is)
         IN  /\ Sound(d)
             /\ d.tbs = k.tbs /\ d.linked = k.linked \ is /\ d.jmp = k.jmp \ is
             /\ d.dirty = k.dirty /\ d.tlb = k.tlb /\ d.slow = k.slow
<1> DEFINE d == tb_phys_invalidate(k, is)
           h == [k EXCEPT !.linked = @ \ is, !.jmp = @ \ is]
           ps == UNION { PagesOf(k.tbs[i]) : i \in is }
<1>1. /\ IsCache(h) /\ h.tbs = k.tbs /\ h.linked = k.linked \ is /\ h.jmp = k.jmp \ is
      /\ h.dirty = k.dirty /\ h.tlb = k.tlb /\ h.slow = k.slow /\ h.built = k.built
      /\ h.bitmap = k.bitmap
  BY Zenon DEF Sound, IsCache
<1>2. d = DropBitmaps(h, ps)
  BY Zenon DEF tb_phys_invalidate
<1> HIDE DEF d, h, ps
<1>3. BlocksOK(h)
  BY <1>1, Zenon DEF Sound, BlocksOK
<1>4. TlbOK(h) /\ JumpsOK(h) /\ Guarded(h)
  BY <1>1, Zenon DEF Sound, TlbOK, JumpsOK, Guarded
<1>5. Sound(h)
  BY <1>1, <1>3, <1>4, Zenon DEF Sound
<1>6. Sound(d)
  BY <1>2, <1>5, DropSound, Zenon
<1>7. /\ d.tbs = h.tbs /\ d.linked = h.linked /\ d.jmp = h.jmp
      /\ d.dirty = h.dirty /\ d.tlb = h.tlb /\ d.slow = h.slow
  BY <1>1, <1>2, DropFields
<1> QED  BY <1>1, <1>6, <1>7, Zenon DEF d

(* tb_alloc returns with room for a block; a flush leaves the TLB alone.     *)
LEMMA AllocSound ==
  ASSUME NEW k, Sound(k)
  PROVE  LET d == tb_alloc(k)
         IN  /\ Sound(d)
             /\ d.dirty = k.dirty /\ d.tlb = k.tlb /\ d.slow = k.slow
             /\ d.linked \subseteq k.linked /\ d.jmp \subseteq k.jmp
             /\ d.linked # {} => d = k
             /\ d.jmp # {} => d = k
<1> DEFINE d == tb_alloc(k)
           h == [k EXCEPT !.tbs = << >>, !.linked = {}, !.jmp = {}]
<1>1. CASE Len(k.tbs) < MaxBlocks
  BY <1>1, Zenon DEF tb_alloc
<1>2. CASE ~(Len(k.tbs) < MaxBlocks)
  <2>1. /\ IsCache(h) /\ h.tbs = << >> /\ h.linked = {} /\ h.jmp = {}
        /\ h.dirty = k.dirty /\ h.tlb = k.tlb /\ h.slow = k.slow
    BY Zenon DEF Sound, IsCache
  <2>2. d = DropBitmaps(h, Frame)
    BY <1>2, Zenon DEF tb_alloc, tb_flush
  <2> HIDE DEF d, h
  <2>3. BlocksOK(h) /\ Guarded(h) /\ JumpsOK(h)
    BY <2>1 DEF BlocksOK, Guarded, JumpsOK
  <2>4. TlbOK(h)
    BY <2>1, Zenon DEF Sound, TlbOK
  <2>5. Sound(h)
    BY <2>1, <2>3, <2>4, Zenon DEF Sound
  <2>6. Sound(d)
    BY <2>2, <2>5, DropSound, Zenon
  <2>7. /\ d.tbs = h.tbs /\ d.linked = h.linked /\ d.jmp = h.jmp
        /\ d.dirty = h.dirty /\ d.tlb = h.tlb /\ d.slow = h.slow
    BY <2>1, <2>2, DropFields
  <2> QED  BY <2>1, <2>6, <2>7, Zenon DEF d
<1> QED  BY <1>1, <1>2, Zenon

(* What the TLB has for a page.                                              *)
LEMMA FrameOf ==
  ASSUME NEW k, TlbOK(k), NEW v, NEW p, <<v, p>> \in k.tlb
  PROVE  v \in VPage /\ p \in Frame /\ TlbFrame(k, v) = p /\ p \in seen[v]
<1>1. v \in VPage /\ p \in Frame /\ p \in seen[v]
  BY Zenon DEF TlbOK
<1>2. <<v, TlbFrame(k, v)>> \in k.tlb
  BY <1>1, Zenon DEF TlbFrame
<1>3. \A e, f \in k.tlb : e[1] = f[1] => e = f
  BY Zenon DEF TlbOK
<1>4. <<v, TlbFrame(k, v)>> = <<v, p>>
  BY <1>2, <1>3, Zenon
<1> QED  BY <1>1, <1>4, Zenon

(* tlb_fill enters the page, may evict one of the same index, and leaves the *)
(* blocks alone.                                                             *)
LEMMA FillSound ==
  ASSUME MapOK, NEW k, Sound(k), NEW v \in VPage
  PROVE  LET d == tlb_fill(k, v)
         IN  /\ Sound(d)
             /\ d.tbs = k.tbs /\ d.linked = k.linked /\ d.jmp = k.jmp
             /\ d.dirty = k.dirty /\ d.built = k.built /\ d.bitmap = k.bitmap
             /\ <<v, TlbFrame(d, v)>> \in d.tlb
             /\ \A e \in k.tlb : e[1] % TlbSize # v % TlbSize => e \in d.tlb
             /\ \A p : <<v, p>> \in k.tlb => d = k
<1> DEFINE d == tlb_fill(k, v)
<1>1. CASE \E p \in Frame : <<v, p>> \in k.tlb
  <2>1. d = k
    BY <1>1, Zenon DEF tlb_fill
  <2>2. <<v, TlbFrame(k, v)>> \in k.tlb
    BY <1>1, FrameOf, Zenon DEF Sound
  <2> QED  BY <2>1, <2>2, Zenon
<1>2. CASE ~ \E p \in Frame : <<v, p>> \in k.tlb
  <2> DEFINE near == { e \in k.tlb : e[1] % TlbSize # v % TlbSize }
             filled == near \cup {<<v, pt[v]>>}
             slower == { w \in k.slow : w % TlbSize # v % TlbSize }
                       \cup (IF pt[v] \in k.dirty THEN {} ELSE {v})
  <2>1. d = [k EXCEPT !.tlb = filled, !.slow = slower]
    BY <1>2, Zenon DEF tlb_fill
  <2> HIDE DEF d, filled, slower
  <2>2. /\ IsCache(d)
        /\ d.tbs = k.tbs /\ d.linked = k.linked /\ d.jmp = k.jmp
        /\ d.dirty = k.dirty /\ d.built = k.built /\ d.bitmap = k.bitmap
        /\ d.tlb = filled /\ d.slow = slower
    BY <2>1, Zenon DEF Sound, IsCache
  <2> USE DEF filled, slower
  <2>3. pt[v] \in Frame /\ pt[v] \in seen[v]
    BY Zenon DEF MapOK
  <2>4. TlbOK(d)
    <3>1. /\ near \subseteq k.tlb /\ k.tlb \subseteq VPage \X Frame
          /\ \A e \in k.tlb : e[2] \in seen[e[1]]
          /\ \A e, f \in k.tlb : e[1] = f[1] => e = f
          /\ \A e \in k.tlb : e[2] \notin k.dirty => e[1] \in k.slow
      BY Zenon DEF Sound, TlbOK
    <3>2. d.tlb \subseteq VPage \X Frame /\ \A e \in d.tlb : e[2] \in seen[e[1]]
      BY <2>2, <2>3, <3>1
    <3>3. ASSUME NEW e \in d.tlb, NEW f \in d.tlb, e[1] = f[1] PROVE e = f
      BY <2>2, <3>1, <3>3
    <3>4. ASSUME NEW e \in d.tlb, e[2] \notin d.dirty PROVE e[1] \in d.slow
      BY <2>2, <3>1, <3>4
    <3> QED  BY <3>2, <3>3, <3>4, Zenon DEF TlbOK
  <2>5. BlocksOK(d) /\ Guarded(d) /\ JumpsOK(d)
    BY <2>2, Zenon DEF Sound, BlocksOK, Guarded, JumpsOK
  <2>6. Sound(d)
    BY <2>2, <2>4, <2>5, Zenon DEF Sound
  <2>7. <<v, TlbFrame(d, v)>> \in d.tlb
    <3>1. <<v, pt[v]>> \in d.tlb
      BY <2>2, Zenon
    <3>2. TlbFrame(d, v) = pt[v]
      BY <2>4, <3>1, FrameOf, Zenon
    <3> QED  BY <3>1, <3>2, Zenon
  <2>8. \A p : <<v, p>> \notin k.tlb
    BY <1>2, Zenon DEF Sound, TlbOK
  <2> QED  BY <2>2, <2>6, <2>7, <2>8, Zenon DEF d
<1> QED  BY <1>1, <1>2, Zenon

(* tb_link_phys: the pages of the new block are protected and their bitmaps  *)
(* dropped.                                                                  *)
LEMMA LinkSound ==
  ASSUME NEW k, Sound(k), NEW tb \in Tb
  PROVE  LET d == tb_link_phys(k, tb)
         IN  /\ Sound(d)
             /\ d.tbs = Append(k.tbs, tb) /\ d.linked = k.linked \cup {Len(k.tbs) + 1}
             /\ d.jmp = k.jmp /\ d.tlb = k.tlb
<1> DEFINE d == tb_link_phys(k, tb)
           ps == PagesOf(tb)
           first == { p \in ps : InPage(k, p) = {} }
           n == Len(k.tbs) + 1
           more == Append(k.tbs, tb)
           h == [k EXCEPT !.tbs = more, !.linked = @ \cup {n}]
           hot == k.slow \cup { e[1] : e \in { t \in k.tlb : t[2] \in first } }
           g == [h EXCEPT !.dirty = @ \ first, !.slow = hot]
<1>1. d = DropBitmaps(tlb_protect_code(h, first), ps)
  BY Zenon DEF tb_link_phys
<1> HIDE DEF d, n, more, first, ps
<1>2. /\ IsCache(h) /\ h.tbs = more /\ h.linked = k.linked \cup {n} /\ h.jmp = k.jmp
      /\ h.dirty = k.dirty /\ h.tlb = k.tlb /\ h.slow = k.slow /\ h.built = k.built
      /\ h.bitmap = k.bitmap
  BY Zenon DEF Sound, IsCache
<1> HIDE DEF h
<1>3. tlb_protect_code(h, first) = g
  BY <1>2, Zenon DEF tlb_protect_code
<1> HIDE DEF hot
<1>4. /\ IsCache(g) /\ g.tbs = more /\ g.linked = k.linked \cup {n} /\ g.jmp = k.jmp
      /\ g.dirty = k.dirty \ first /\ g.tlb = k.tlb /\ g.slow = hot /\ g.built = k.built
      /\ g.bitmap = k.bitmap
  BY <1>2, Zenon DEF IsCache
<1> HIDE DEF g
<1>5. /\ IsCache(d) /\ d.tbs = more /\ d.linked = k.linked \cup {n} /\ d.jmp = k.jmp
      /\ d.dirty = k.dirty \ first /\ d.tlb = k.tlb /\ d.slow = hot /\ d.built = k.built \ ps
      /\ d.bitmap = { b \in k.bitmap : b[1] \notin ps }
  BY <1>1, <1>3, <1>4, DropFields
<1>6. /\ k.tbs \in Seq(Tb) /\ more \in Seq(Tb) /\ Len(more) = n /\ n = Len(k.tbs) + 1
      /\ Len(k.tbs) \in Nat /\ more[n] = tb /\ \A i \in 1 .. Len(k.tbs) : more[i] = k.tbs[i]
      /\ k.linked \subseteq 1 .. Len(k.tbs) /\ k.jmp \subseteq k.linked
  <2>1. k.tbs \in Seq(Tb) /\ k.linked \subseteq 1 .. Len(k.tbs) /\ k.jmp \subseteq k.linked
    BY Zenon DEF Sound, BlocksOK
  <2> QED  BY <2>1, AppendProperties DEF more, n
<1>7. BlocksOK(d)
  <2>1. d.linked \subseteq 1 .. Len(d.tbs) /\ d.jmp \subseteq d.linked
    <3>1. k.linked \cup {n} \subseteq 1 .. n
      BY <1>6
    <3> QED  BY <1>5, <1>6, <3>1, Zenon
  <2>2. ASSUME NEW i \in d.jmp PROVE i \in k.jmp /\ d.tbs[i] = k.tbs[i]
    BY <1>5, <1>6, <2>2, Zenon
  <2>3. \A i, j \in d.jmp :
          tb_jmp_cache_hash_func(d.tbs[i].pc) = tb_jmp_cache_hash_func(d.tbs[j].pc) => i = j
    BY <2>2, Zenon DEF Sound, BlocksOK
  <2>4. d.tbs \in Seq(Tb)
    BY <1>5, <1>6, Zenon
  <2> QED  BY <2>1, <2>3, <2>4, Zenon DEF BlocksOK
<1>8. JumpsOK(d)
  BY <1>5, <1>6, Zenon DEF Sound, JumpsOK
<1>9. TlbOK(d)
  BY <1>5, Zenon DEF Sound, TlbOK, hot
<1>10. ASSUME NEW i \in d.linked
       PROVE  /\ PagesOf(d.tbs[i]) \cap d.dirty = {}
              /\ \A b \in Covered(d.tbs[i]) : b[1] \in d.built => b \in d.bitmap
  <2>1. CASE i \in k.linked
    <3>1. d.tbs[i] = k.tbs[i]
      BY <1>5, <1>6, <2>1, Zenon
    <3>2. /\ PagesOf(k.tbs[i]) \cap k.dirty = {}
          /\ \A b \in Covered(k.tbs[i]) : b[1] \in k.built => b \in k.bitmap
      BY <2>1, Zenon DEF Sound, Guarded
    <3> QED  BY <1>5, <3>1, <3>2, Zenon
  <2>2. CASE i = n
    <3>1. d.tbs[i] = tb
      BY <1>5, <1>6, <2>2, Zenon
    <3>2. ASSUME NEW p \in ps PROVE p \notin d.dirty
      <4>1. CASE InPage(k, p) = {}
        BY <1>5, <4>1, Zenon DEF first
      <4>2. CASE InPage(k, p) # {}
        <5>1. PICK j \in k.linked : p \in PagesOf(k.tbs[j])
          BY <4>2, Zenon DEF InPage
        <5> QED  BY <1>5, <5>1, Zenon DEF Sound, Guarded
      <4> QED  BY <4>1, <4>2, Zenon
    <3>3. \A b \in Covered(tb) : b[1] \in ps
      BY CoveredBytes, Zenon DEF ps
    <3> QED  BY <1>5, <3>1, <3>2, <3>3, Zenon DEF ps
  <2> QED  BY <1>5, <2>1, <2>2, Zenon
<1>11. Guarded(d)
  BY <1>10, Zenon DEF Guarded
<1>12. Sound(d)
  BY <1>5, <1>7, <1>8, <1>9, <1>11, Zenon DEF Sound
<1> QED  BY <1>5, <1>12, Zenon DEF d, more, n

(* Blocks that are kept stay current.                                        *)
LEMMA CurrentKept ==
  ASSUME NEW m, NEW k, Current(k, m), NEW d, d.linked \subseteq k.linked,
         \A i \in d.linked : d.tbs[i] = k.tbs[i]
  PROVE  Current(d, m)
BY Zenon DEF Current

(* The block of the instruction at e that ends at offset end, its pages on   *)
(* the frames x and p.                                                       *)
BlockAt(e, x, p, end, single) ==
  [pc |-> e, page |-> <<x, p>>,
   code |-> SubSeq(IF p = NONE THEN mem[x] ELSE mem[x] \o mem[p], e[2], end),
   single |-> single]

LEMMA BlockOf ==
  ASSUME MemoryOK, NEW e \in Entry, NEW x \in Frame, NEW p \in Frame \cup {NONE},
         NEW single \in BOOLEAN, NEW end,
         end = e[2] + Length[mem[x][e[2]]] - 1,
         p = NONE <=> ~(end > PageSize),
         p # NONE => e[1] + 1 \in VPage
  PROVE  /\ BlockAt(e, x, p, end, single) \in Tb
         /\ BlockAt(e, x, p, end, single).code = ContentsIn(mem, BlockAt(e, x, p, end, single))
<1> DEFINE bytes == IF p = NONE THEN mem[x] ELSE mem[x] \o mem[p]
           tb == [pc |-> e, page |-> <<x, p>>, code |-> SubSeq(bytes, e[2], end),
                  single |-> single]
           a == e[2]
           l == Length[mem[x][e[2]]]
<1>1. e[1] \in VPage /\ a \in Offset /\ PageSize \in Nat
  BY CacheAssumption
<1>2. mem[x] \in [Offset -> Byte] /\ mem[x][a] \in Byte /\ (p # NONE => mem[p] \in [Offset -> Byte])
  BY <1>1, Zenon DEF MemoryOK
<1>3. l \in {1, 2} /\ end = a + l - 1
  BY <1>2, CacheAssumption, Zenon
<1>4. Slice(mem[x], mem[p], bytes, a, l)
  <2> HIDE DEF a, l
  <2>1. CASE p = NONE
    <3>1. ~(end > PageSize)
      BY <1>1, <2>1, Zenon
    <3>2. a \in 1 .. PageSize
      BY <1>1, Zenon DEF Offset
    <3>3. a + l - 1 <= PageSize
      BY <1>1, <1>3, <3>1, <3>2
    <3> QED  BY <1>1, <1>2, <1>3, <2>1, <3>3, Zenon DEF Slice
  <2>2. CASE p # NONE
    BY <1>1, <1>2, <1>3, <2>2, Zenon DEF Slice
  <2> QED  BY <2>1, <2>2, Zenon
<1>5. SliceIs(mem[x], mem[p], a, l, SubSeq(bytes, a, a + l - 1))
  BY <1>4, SliceBytes, Zenon
<1>6. SubSeq(bytes, a, end) \in Seq(Byte) /\ Len(SubSeq(bytes, a, end)) = l
  BY <1>3, <1>5, Zenon DEF SliceIs
<1> HIDE DEF bytes
<1>7. /\ tb.pc = e /\ tb.page[1] = x /\ tb.page[2] = p /\ tb.code = SubSeq(bytes, a, end)
      /\ tb.page = <<x, p>> /\ tb.single = single
  BY Zenon
<1>8. tb \in [pc : Entry, page : Frame \X (Frame \cup {NONE}), code : Seq(Byte), single : BOOLEAN]
  BY <1>6, Zenon
<1>9. /\ p = NONE => a + l - 1 <= PageSize
      /\ p # NONE => a = PageSize /\ l = 2 /\ e[1] + 1 \in VPage
  <2> HIDE DEF a, l
  <2>1. a \in 1 .. PageSize
    BY <1>1, Zenon DEF Offset
  <2> QED  BY <1>1, <1>3, <2>1
<1> HIDE DEF tb, l
<1>10. tb \in Tb
  BY <1>3, <1>6, <1>7, <1>8, <1>9, Zenon DEF Tb
<1>11. ContentsIn(mem, tb) = SubSeq(bytes, a, a + Len(tb.code) - 1)
  BY <1>7, Zenon DEF ContentsIn, bytes
<1>12. tb.code = ContentsIn(mem, tb)
  BY <1>3, <1>6, <1>7, <1>11, Zenon
<1>13. BlockAt(e, x, p, end, single) = tb
  BY Zenon DEF BlockAt, tb, bytes
<1> QED  BY <1>10, <1>12, <1>13, Zenon

(* Division with remainder, and the remainders of neighbours.                *)
LEMMA DivMod ==
  ASSUME NEW a \in Nat, NEW n \in Nat, n > 1
  PROVE  a = n * (a \div n) + (a % n) /\ a % n \in 0 .. n - 1 /\ a \div n \in Nat
OBVIOUS

LEMMA Neighbours ==
  ASSUME NEW a \in Nat, NEW n \in Nat, n > 1
  PROVE  a % n # (a + 1) % n
<1> DEFINE q == a \div n
           r == a % n
           s == (a + 1) \div n
<1>1. a = n * q + r /\ q \in Int /\ r \in Int
  BY DivMod
<1>2. a + 1 = n * s + ((a + 1) % n) /\ s \in Int
  BY DivMod
<1> HIDE DEF q, r, s
<1>3. SUFFICES ASSUME (a + 1) % n = r PROVE FALSE
  BY Zenon DEF r
<1>4. n * s - n * q = 1
  BY <1>1, <1>2, <1>3
<1>5. n * (s - q) = 1 /\ s - q \in Int
  BY <1>1, <1>2, <1>4
<1>6. \A z \in Int : n * z # 1
  OBVIOUS
<1> QED  BY <1>5, <1>6, Zenon

(* tb_gen_code: the new block is the translation of what memory holds, on    *)
(* the frames the TLB has; TlbSize > 1 keeps the two pages of an instruction *)
(* from evicting one another.                                                *)
LEMMA TranslateSound ==
  ASSUME MapOK, MemoryOK, NEW k, Sound(k), Current(k, mem), NEW e \in Entry,
         NEW single \in BOOLEAN
  PROVE  Translated(k, Translate(k, e, single), e, single)
<1> DEFINE al == tb_alloc(k)
           one == tlb_fill(al, e[1])
           p1 == TlbFrame(one, e[1])
           end == e[2] + Length[mem[p1][e[2]]] - 1
           two == IF end > PageSize THEN tlb_fill(one, e[1] + 1) ELSE one
           p2 == IF end > PageSize THEN TlbFrame(two, e[1] + 1) ELSE NONE
           bytes == IF p2 = NONE THEN mem[p1] ELSE mem[p1] \o mem[p2]
           tb == [pc |-> e, page |-> <<p1, p2>>, code |-> SubSeq(bytes, e[2], end),
                  single |-> single]
           d == tb_link_phys(two, tb)
<1>1. Translate(k, e, single) = d
  BY Zenon DEF Translate
<1>2. e[1] \in VPage /\ e[2] \in Offset /\ (e[2] < PageSize \/ e[1] + 1 \in VPage)
  BY CacheAssumption
<1>3. /\ Sound(al) /\ al.linked \subseteq k.linked /\ al.jmp \subseteq k.jmp
      /\ (al.linked # {} => al = k) /\ (al.jmp # {} => al = k)
  BY AllocSound, Zenon
<1> HIDE DEF al
<1>4. /\ Sound(one) /\ one.tbs = al.tbs /\ one.linked = al.linked /\ one.jmp = al.jmp
      /\ <<e[1], p1>> \in one.tlb
  BY <1>2, <1>3, FillSound
<1> HIDE DEF one
<1>5. p1 \in Frame
  BY <1>4, FrameOf DEF Sound
<1> HIDE DEF p1
<1>6. end > PageSize => e[1] + 1 \in VPage
  <2>1. mem[p1][e[2]] \in Byte
    BY <1>2, <1>5, Zenon DEF MemoryOK
  <2>2. Length[mem[p1][e[2]]] \in {1, 2} /\ PageSize \in Nat
    BY <2>1, CacheAssumption, Zenon
  <2>3. e[2] \in 1 .. PageSize
    BY <1>2, Zenon DEF Offset
  <2> QED  BY <1>2, <2>2, <2>3
<1> HIDE DEF end
<1>7. /\ Sound(two) /\ two.tbs = al.tbs /\ two.linked = al.linked /\ two.jmp = al.jmp
      /\ <<e[1], p1>> \in two.tlb
      /\ end > PageSize => p2 \in Frame /\ <<e[1] + 1, p2>> \in two.tlb
  <2>1. CASE end > PageSize
    <3> DEFINE f == tlb_fill(one, e[1] + 1)
    <3>1. e[1] + 1 \in VPage
      BY <1>6, <2>1, Zenon
    <3>2. /\ Sound(f) /\ f.tbs = one.tbs /\ f.linked = one.linked /\ f.jmp = one.jmp
          /\ <<e[1] + 1, TlbFrame(f, e[1] + 1)>> \in f.tlb
          /\ \A x \in one.tlb : x[1] % TlbSize # (e[1] + 1) % TlbSize => x \in f.tlb
      BY <1>4, <3>1, FillSound
    <3> HIDE DEF f
    <3>3. e[1] % TlbSize # (e[1] + 1) % TlbSize
      <4>1. e[1] \in Nat /\ TlbSize \in Nat /\ TlbSize > 1
        BY <1>2, CacheAssumption DEF VPage
      <4> QED  BY <4>1, Neighbours, Zenon
    <3>4. <<e[1], p1>> \in f.tlb
      BY <1>4, <3>2, <3>3, Zenon
    <3>5. TlbFrame(f, e[1] + 1) \in Frame
      BY <3>2, FrameOf DEF Sound
    <3>6. two = f /\ p2 = TlbFrame(f, e[1] + 1)
      BY <2>1, Zenon DEF f
    <3> QED  BY <1>4, <3>2, <3>4, <3>5, <3>6, Zenon
  <2>2. CASE ~(end > PageSize)
    BY <1>4, <2>2, Zenon
  <2> QED  BY <2>1, <2>2, Zenon
<1>8. tb \in Tb /\ tb.code = ContentsIn(mem, tb)
  <2>1. tb = BlockAt(e, p1, p2, end, single)
    BY Zenon DEF BlockAt
  <2>2. p2 \in Frame \cup {NONE} /\ (p2 = NONE <=> ~(end > PageSize))
    BY <1>7 DEF Frame, NONE
  <2>3. end = e[2] + Length[mem[p1][e[2]]] - 1
    BY Zenon DEF end
  <2> HIDE DEF p2, tb
  <2> QED  BY <1>5, <1>6, <2>1, <2>2, <2>3, BlockOf
<1>9. tb.pc = e /\ tb.page[1] = p1 /\ tb.page[2] = p2 /\ tb.single = single
  BY Zenon
<1>10. p2 # NONE => <<e[1] + 1, p2>> \in two.tlb
  BY <1>7, Zenon
<1> HIDE DEF two, tb, p2
<1>11. /\ Sound(d) /\ d.tbs = Append(two.tbs, tb) /\ d.jmp = two.jmp /\ d.tlb = two.tlb
       /\ d.linked = two.linked \cup {Len(two.tbs) + 1}
  BY <1>7, <1>8, LinkSound, Zenon
<1> HIDE DEF d
<1> DEFINE n == Len(two.tbs) + 1
<1>12. /\ Len(d.tbs) = n /\ d.tbs[n] = tb /\ d.linked = two.linked \cup {n}
       /\ \A i \in two.linked : d.tbs[i] = two.tbs[i]
  <2>1. two.tbs \in Seq(Tb) /\ two.linked \subseteq 1 .. Len(two.tbs)
    BY <1>7, Zenon DEF Sound, BlocksOK
  <2> QED  BY <1>8, <1>11, <2>1, AppendProperties
<1> HIDE DEF n
<1>13. OnTlb(d, e, n) /\ d.tbs[n].single = single
  BY <1>7, <1>9, <1>10, <1>11, <1>12, Zenon DEF OnTlb
<1>14. Current(d, mem)
  <2>1. Current(al, mem)
    BY <1>3, CurrentKept, Zenon
  <2> QED  BY <1>7, <1>8, <1>12, <2>1 DEF Current
<1>15. d.jmp \subseteq k.jmp /\ \A i \in d.jmp : d.tbs[i] = k.tbs[i]
  <2>1. two.jmp \subseteq two.linked
    BY <1>7, Zenon DEF Sound, BlocksOK
  <2> QED  BY <1>3, <1>7, <1>11, <1>12, <2>1, Zenon
<1> QED  BY <1>1, <1>11, <1>12, <1>13, <1>14, <1>15, Zenon DEF Translated

(* The entry for e of the jump cache is set to a block of e.                 *)
LEMMA SetJmp ==
  ASSUME NEW k, Sound(k), NEW e \in Entry, NEW i \in k.linked, k.tbs[i].pc = e,
         k.tbs[i].page[1] \in seen[e[1]],
         k.tbs[i].page[2] # NONE => k.tbs[i].page[2] \in seen[e[1] + 1]
  PROVE  LET d == [k EXCEPT !.jmp = (@ \ JmpEntry(k, e)) \cup {i}]
         IN  /\ Sound(d) /\ d.tbs = k.tbs /\ d.linked = k.linked /\ i \in d.jmp
<1> DEFINE js == (k.jmp \ JmpEntry(k, e)) \cup {i}
           d == [k EXCEPT !.jmp = js]
<1> HIDE DEF js
<1>1. /\ IsCache(d) /\ d.tbs = k.tbs /\ d.linked = k.linked /\ d.jmp = js
      /\ d.dirty = k.dirty /\ d.tlb = k.tlb /\ d.slow = k.slow /\ d.built = k.built
      /\ d.bitmap = k.bitmap
  BY Zenon DEF Sound, IsCache
<1> HIDE DEF d
<1>2. TlbOK(d) /\ Guarded(d)
  BY <1>1, Zenon DEF Sound, TlbOK, Guarded
<1>3. JumpsOK(d)
  BY <1>1, Zenon DEF Sound, JumpsOK, js
<1>4. BlocksOK(d)
  <2>1. ASSUME NEW j \in js \ {i}
        PROVE  tb_jmp_cache_hash_func(k.tbs[j].pc) # tb_jmp_cache_hash_func(e)
    BY Zenon DEF js, JmpEntry
  <2>2. ASSUME NEW j \in js, NEW h \in js,
               tb_jmp_cache_hash_func(k.tbs[j].pc) = tb_jmp_cache_hash_func(k.tbs[h].pc)
        PROVE  j = h
    <3>1. CASE j # i /\ h # i
      BY <2>2, <3>1, Zenon DEF js, Sound, BlocksOK
    <3>2. CASE j = i \/ h = i
      BY <2>1, <2>2, <3>2, Zenon
    <3> QED  BY <3>1, <3>2, Zenon
  <2> QED  BY <1>1, <2>2, Zenon DEF Sound, BlocksOK, js
<1>5. Sound(d)
  BY <1>1, <1>2, <1>3, <1>4, Zenon DEF Sound
<1> QED  BY <1>1, <1>5, Zenon DEF d, js

(* What a lookup of e returns.                                               *)
Found(r, e) ==
  /\ Sound(r.cache) /\ Current(r.cache, mem)
  /\ r.tb \in r.cache.jmp /\ r.cache.tbs[r.tb].pc = e

(* The steps of tb_find_slow: the cache with the entry of e's page in the    *)
(* TLB, the blocks of e on the frame of that page, the cache with the entry  *)
(* of the next page too, those of the blocks whose second page is there, the *)
(* cache after the search and the block returned.                            *)
First(k, e) == tlb_fill(k, e[1])

Same(k, e) ==
  { i \in First(k, e).linked : First(k, e).tbs[i].pc = e
                               /\ First(k, e).tbs[i].page[1] = TlbFrame(First(k, e), e[1]) }

Second(k, e) ==
  IF \E i \in Same(k, e) : First(k, e).tbs[i].page[2] # NONE
  THEN tlb_fill(First(k, e), e[1] + 1) ELSE First(k, e)

Hits(k, e) ==
  { i \in Same(k, e) : Second(k, e).tbs[i].page[2] # NONE =>
                        Second(k, e).tbs[i].page[2] = TlbFrame(Second(k, e), e[1] + 1) }

AfterSearch(k, e) ==
  IF Hits(k, e) # {} THEN Second(k, e) ELSE tb_gen_code(Second(k, e), e, FALSE)

Block(k, e) ==
  IF Hits(k, e) # {} THEN Newest(Hits(k, e)) ELSE Len(AfterSearch(k, e).tbs)

(* tb_find_slow returns a block of e, which becomes the entry of the jump    *)
(* cache; when there is a newest block for that instruction alone, it.       *)
LEMMA FindSlowSound ==
  ASSUME MapOK, MemoryOK, NEW k, Sound(k), Current(k, mem), NEW e \in Entry
  PROVE  LET r == tb_find_slow(k, e)
         IN  Found(r, e) /\ (Ready(k, e) => r.cache.tbs[r.tb].single)
<1> DEFINE one == First(k, e)
           p1 == TlbFrame(one, e[1])
           same == Same(k, e)
           two == Second(k, e)
           p2 == TlbFrame(two, e[1] + 1)
           found == Hits(k, e)
           after == AfterSearch(k, e)
           tb == Block(k, e)
           d == [after EXCEPT !.jmp = (@ \ JmpEntry(after, e)) \cup {tb}]
           r == tb_find_slow(k, e)
<1>1. r = [tb |-> tb, cache |-> d]
  BY Zenon DEF tb_find_slow, First, Same, Second, Hits, AfterSearch, Block
<1> HIDE DEF r
<1>2. r.tb = tb /\ r.cache = d
  BY <1>1, Zenon
<1>3. e[1] \in VPage
  BY CacheAssumption, Zenon
<1>4. /\ Sound(one) /\ one.tbs = k.tbs /\ one.linked = k.linked
      /\ <<e[1], p1>> \in one.tlb
      /\ \A p : <<e[1], p>> \in k.tlb => one = k
  BY <1>3, FillSound DEF First
<1> HIDE DEF one
<1>5. p1 \in Frame /\ p1 \in seen[e[1]]
  BY <1>4, FrameOf DEF Sound
<1> HIDE DEF p1
<1>6. /\ Sound(two) /\ two.tbs = k.tbs /\ two.linked = k.linked
      /\ \A i \in same : k.tbs[i].page[2] # NONE => p2 \in seen[e[1] + 1]
      /\ \A p : <<e[1] + 1, p>> \in one.tlb => two = one
  <2>1. CASE \E i \in same : one.tbs[i].page[2] # NONE
    <3> DEFINE f == tlb_fill(one, e[1] + 1)
    <3>1. PICK i \in same : one.tbs[i].page[2] # NONE
      BY <2>1, Zenon
    <3>2. one.tbs[i] \in Tb /\ one.tbs[i].pc = e
      BY <1>4, <3>1 DEF Sound, BlocksOK, Same, one
    <3>3. e[1] + 1 \in VPage
      BY <3>1, <3>2, Zenon DEF Tb
    <3>4. /\ Sound(f) /\ f.tbs = one.tbs /\ f.linked = one.linked
          /\ <<e[1] + 1, TlbFrame(f, e[1] + 1)>> \in f.tlb
          /\ \A p : <<e[1] + 1, p>> \in one.tlb => f = one
      BY <1>4, <3>3, FillSound
    <3> HIDE DEF f
    <3>5. TlbFrame(f, e[1] + 1) \in seen[e[1] + 1]
      BY <3>4, FrameOf DEF Sound
    <3>6. two = f
      BY <2>1, Zenon DEF f, Second, one
    <3> QED  BY <1>4, <3>4, <3>5, <3>6, Zenon
  <2>2. CASE ~ \E i \in same : one.tbs[i].page[2] # NONE
    BY <1>4, <2>2, Zenon DEF Second, one
  <2> QED  BY <2>1, <2>2, Zenon
<1> HIDE DEF two
<1>7. Current(two, mem)
  BY <1>6, CurrentKept, Zenon
<1>8. same \subseteq k.linked /\ found \subseteq 1 .. Len(k.tbs) /\ Len(k.tbs) \in Nat
  <2>1. same \subseteq k.linked
    BY <1>4, Zenon DEF Same, one
  <2>2. found \subseteq same
    BY Zenon DEF Hits
  <2>3. k.linked \subseteq 1 .. Len(k.tbs) /\ k.tbs \in Seq(Tb)
    BY Zenon DEF Sound, BlocksOK
  <2>4. Len(k.tbs) \in Nat
    BY <2>3, LenProperties, Zenon
  <2> HIDE DEF same, found
  <2> QED  BY <2>1, <2>2, <2>3, <2>4, Zenon
<1>9. CASE found # {}
  <2>1. after = two /\ tb = Newest(found)
    BY <1>9, Zenon DEF AfterSearch, Block, two
  <2>2. tb \in found /\ \A y \in found : y <= tb
    BY <1>8, <1>9, <2>1, Greatest, Zenon
  <2> HIDE DEF tb, after
  <2>3. /\ tb \in two.linked /\ two.tbs[tb].pc = e /\ two.tbs[tb].page[1] \in seen[e[1]]
        /\ two.tbs[tb].page[2] # NONE => two.tbs[tb].page[2] \in seen[e[1] + 1]
    BY <1>4, <1>5, <1>6, <2>2, Zenon DEF Same, Hits, one, two, p1
  <2>4. Sound(d) /\ d.tbs = two.tbs /\ d.linked = two.linked /\ tb \in d.jmp
    <3>1. /\ Sound(after) /\ tb \in after.linked /\ after.tbs[tb].pc = e
          /\ after.tbs[tb].page[1] \in seen[e[1]]
          /\ after.tbs[tb].page[2] # NONE => after.tbs[tb].page[2] \in seen[e[1] + 1]
      BY <1>6, <2>1, <2>3, Zenon
    <3>2. Sound(d) /\ d.tbs = after.tbs /\ d.linked = after.linked /\ tb \in d.jmp
      BY <3>1, SetJmp
    <3> QED  BY <2>1, <3>2, Zenon
  <2> HIDE DEF d
  <2>5. Current(d, mem)
    BY <1>7, <2>4, CurrentKept, Zenon
  <2>6. ASSUME Ready(k, e) PROVE d.tbs[tb].single
    <3> DEFINE n == Len(k.tbs)
    <3>1. /\ n \in k.linked /\ k.tbs[n].pc = e /\ k.tbs[n].single
          /\ <<e[1], k.tbs[n].page[1]>> \in k.tlb
          /\ k.tbs[n].page[2] # NONE => <<e[1] + 1, k.tbs[n].page[2]>> \in k.tlb
      BY <2>6, Zenon DEF Ready, OnTlb
    <3> HIDE DEF n
    <3>2. one = k /\ p1 = k.tbs[n].page[1]
      BY <1>4, <3>1, FrameOf DEF Sound, p1
    <3>3. n \in same
      BY <1>4, <3>1, <3>2, Zenon DEF Same, one, p1
    <3>4. k.tbs[n].page[2] # NONE => two = k /\ p2 = k.tbs[n].page[2]
      BY <1>6, <3>1, <3>2, FrameOf, SMTT(60) DEF Sound
    <3>5. n \in found
      BY <1>6, <3>3, <3>4, Zenon DEF Hits, two
    <3>6. tb = n
      BY <1>8, <2>2, <3>5 DEF n
    <3> QED  BY <1>6, <2>4, <3>1, <3>6, Zenon
  <2> QED  BY <1>2, <2>2, <2>3, <2>4, <2>5, <2>6, Zenon DEF Found, r
<1>10. CASE found = {}
  <2>1. after = Translate(two, e, FALSE) /\ tb = Len(after.tbs)
    BY <1>10, Zenon DEF tb_gen_code, AfterSearch, Block, two
  <2> HIDE DEF tb, after
  <2>2. Translated(two, after, e, FALSE)
    BY <1>6, <1>7, <2>1, TranslateSound, Zenon
  <2>3. /\ Sound(after) /\ Current(after, mem) /\ tb \in after.linked /\ after.tbs[tb].pc = e
        /\ <<e[1], after.tbs[tb].page[1]>> \in after.tlb
        /\ after.tbs[tb].page[2] # NONE => <<e[1] + 1, after.tbs[tb].page[2]>> \in after.tlb
    BY <2>1, <2>2, Zenon DEF Translated, OnTlb
  <2>4. /\ after.tbs[tb].page[1] \in seen[e[1]]
        /\ after.tbs[tb].page[2] # NONE => after.tbs[tb].page[2] \in seen[e[1] + 1]
    BY <2>3, FrameOf, Zenon DEF Sound
  <2>5. Sound(d) /\ d.tbs = after.tbs /\ d.linked = after.linked /\ tb \in d.jmp
    BY <2>3, <2>4, SetJmp
  <2> HIDE DEF d
  <2>6. Current(d, mem)
    BY <2>3, <2>5, CurrentKept, Zenon
  <2>7. ~Ready(k, e)
    <3> SUFFICES ASSUME Ready(k, e) PROVE FALSE  BY Zenon
    <3> DEFINE n == Len(k.tbs)
    <3>1. /\ n \in k.linked /\ k.tbs[n].pc = e
          /\ <<e[1], k.tbs[n].page[1]>> \in k.tlb
          /\ k.tbs[n].page[2] # NONE => <<e[1] + 1, k.tbs[n].page[2]>> \in k.tlb
      BY Zenon DEF Ready, OnTlb
    <3> HIDE DEF n
    <3>2. one = k /\ p1 = k.tbs[n].page[1]
      BY <1>4, <3>1, FrameOf, SMTT(60) DEF Sound, p1
    <3>3. n \in same
      BY <1>4, <3>1, <3>2, Zenon DEF Same, one, p1
    <3>4. k.tbs[n].page[2] # NONE => two = k /\ p2 = k.tbs[n].page[2]
      BY <1>6, <3>1, <3>2, FrameOf, SMTT(60) DEF Sound
    <3>5. n \in found
      BY <1>6, <3>3, <3>4, Zenon DEF Hits, two
    <3> QED  BY <1>10, <3>5, Zenon
  <2> QED  BY <1>2, <2>3, <2>5, <2>6, <2>7, Zenon DEF Found, r
<1> QED  BY <1>9, <1>10, Zenon DEF r

(* tb_find_fast.                                                             *)
LEMMA FindFastSound ==
  ASSUME MapOK, MemoryOK, NEW k, Sound(k), Current(k, mem), NEW e \in Entry
  PROVE  LET r == tb_find_fast(k, e)
         IN  Found(r, e) /\ (Ready(k, e) => r.cache.tbs[r.tb].single)
<1> DEFINE hit == { i \in JmpEntry(k, e) : k.tbs[i].pc = e }
           r == tb_find_fast(k, e)
<1>1. CASE hit # {}
  <2>1. r = [tb |-> Newest(hit), cache |-> k]
    BY <1>1, Zenon DEF tb_find_fast
  <2>2. hit \subseteq 1 .. Len(k.tbs) /\ Len(k.tbs) \in Nat /\ hit \subseteq k.jmp
    BY DEF JmpEntry, Sound, BlocksOK
  <2>3. Newest(hit) \in hit
    BY <1>1, <2>2, Greatest, Zenon
  <2>4. ~Ready(k, e)
    BY <2>2, <2>3, Zenon DEF Ready
  <2> HIDE DEF r
  <2>5. r.tb = Newest(hit) /\ r.cache = k
    BY <2>1, Zenon
  <2> QED  BY <2>2, <2>3, <2>4, <2>5, Zenon DEF Found, r
<1>2. CASE hit = {}
  <2>1. r = tb_find_slow(k, e)
    BY <1>2, Zenon DEF tb_find_fast
  <2> QED  BY <2>1, FindSlowSound, Zenon
<1> QED  BY <1>1, <1>2, Zenon

(* build_page_bitmap enters every byte of the linked blocks.                 *)
LEMMA CountSound ==
  ASSUME NEW k, Sound(k), NEW p, NEW cpu \in BOOLEAN
  PROVE  LET d == CountWrite(k, p, cpu)
         IN  /\ Sound(d)
             /\ d.tbs = k.tbs /\ d.linked = k.linked /\ d.jmp = k.jmp
             /\ d.dirty = k.dirty /\ d.tlb = k.tlb /\ d.slow = k.slow
<1> DEFINE d == CountWrite(k, p, cpu)
           n == Cardinality({ w \in k.writes : w[1] = p }) + 1
           ws == k.writes \cup {<<p, IF n < Threshold THEN n ELSE Threshold>>}
           bits == k.bitmap \cup { b \in UNION { Covered(k.tbs[i]) : i \in k.linked } : b[1] = p }
           counted == [k EXCEPT !.writes = ws]
           built == [counted EXCEPT !.built = @ \cup {p}, !.bitmap = bits]
<1>1. /\ d = k \/ d = counted \/ d = built
  BY Zenon DEF CountWrite
<1> HIDE DEF d, ws, bits
<1>2. /\ IsCache(counted) /\ counted.tbs = k.tbs /\ counted.linked = k.linked
      /\ counted.jmp = k.jmp /\ counted.dirty = k.dirty /\ counted.tlb = k.tlb
      /\ counted.slow = k.slow /\ counted.built = k.built /\ counted.bitmap = k.bitmap
  BY Zenon DEF Sound, IsCache
<1> HIDE DEF counted
<1>3. /\ IsCache(built) /\ built.tbs = k.tbs /\ built.linked = k.linked
      /\ built.jmp = k.jmp /\ built.dirty = k.dirty /\ built.tlb = k.tlb
      /\ built.slow = k.slow /\ built.built = k.built \cup {p} /\ built.bitmap = bits
  BY <1>2, Zenon DEF IsCache
<1> HIDE DEF built
<1>4. Sound(counted)
  BY <1>2 DEF Sound, BlocksOK, TlbOK, Guarded, JumpsOK
<1>5. Sound(built)
  <2>1. BlocksOK(built) /\ TlbOK(built) /\ JumpsOK(built)
    BY <1>3, Zenon DEF Sound, BlocksOK, TlbOK, JumpsOK
  <2>2. ASSUME NEW i \in k.linked
        PROVE  /\ PagesOf(k.tbs[i]) \cap k.dirty = {}
               /\ \A b \in Covered(k.tbs[i]) : b[1] \in k.built \cup {p} => b \in bits
    BY Zenon DEF Sound, Guarded, bits
  <2>3. Guarded(built)
    BY <1>3, <2>2, Zenon DEF Guarded
  <2> QED  BY <1>3, <2>1, <2>3, Zenon DEF Sound
<1> QED  BY <1>1, <1>2, <1>3, <1>4, <1>5, Zenon DEF d

(* What a write to the bytes os of frame p does to the cache k, r.modified   *)
(* when the block cur that writes was hit: no block that is left covers      *)
(* them, or the write is yet to be done and its instruction is ready to be   *)
(* executed in a block of its own.                                           *)
Invalidated(k, r, p, os, cur) ==
  /\ Sound(r.cache) /\ Current(r.cache, mem)
  /\ r.modified \in BOOLEAN
  /\ ~r.modified => /\ r.cache.tlb = k.tlb
                    /\ \A i \in r.cache.linked : Covered(r.cache.tbs[i]) \cap ({p} \X os) = {}
  /\ r.modified => cur # 0 /\ Ready(r.cache, k.tbs[cur].pc) /\ ~k.tbs[cur].single

LEMMA InvalidateRange ==
  ASSUME MapOK, MemoryOK, NEW k, Sound(k), Current(k, mem), NEW p \in Frame, NEW os,
         NEW cur, cur # 0 => cur \in k.jmp
  PROVE  Invalidated(k, tb_invalidate_phys_page_range(k, p, os, cur), p, os, cur)
<1> DEFINE counted == CountWrite(k, p, cur # 0)
           hit == { i \in k.linked : Covered(k.tbs[i]) \cap ({p} \X os) # {} }
           cleared == tb_phys_invalidate(counted, hit)
           left == IF InPage(cleared, p) # {} THEN cleared ELSE DropBitmaps(cleared, {p})
           open == IF InPage(cleared, p) = {} /\ cur # 0
                   THEN [left EXCEPT !.dirty = @ \cup {p}] ELSE left
           modified == cur \in hit /\ ~k.tbs[cur].single
           last == IF modified THEN tb_gen_code(open, k.tbs[cur].pc, TRUE) ELSE open
           r == tb_invalidate_phys_page_range(k, p, os, cur)
<1>1. r = [modified |-> modified, cache |-> last]
  BY Zenon DEF tb_invalidate_phys_page_range
<1> HIDE DEF r
<1>2. r.modified = modified /\ r.cache = last
  BY <1>1, Zenon
<1>3. /\ Sound(counted) /\ counted.tbs = k.tbs /\ counted.linked = k.linked
      /\ counted.jmp = k.jmp /\ counted.tlb = k.tlb
  BY CountSound, ZenonT(60)
<1> HIDE DEF counted, hit
<1>4. /\ Sound(cleared) /\ cleared.tbs = k.tbs /\ cleared.linked = k.linked \ hit
      /\ cleared.jmp = k.jmp \ hit /\ cleared.tlb = k.tlb
  BY <1>3, InvalidateSound, SMTT(60)
<1> HIDE DEF cleared
<1>5. /\ Sound(left) /\ left.tbs = k.tbs /\ left.linked = k.linked \ hit
      /\ left.jmp = k.jmp \ hit /\ left.tlb = k.tlb
  <2>1. CASE InPage(cleared, p) # {}
    BY <1>4, <2>1, Zenon
  <2>2. CASE InPage(cleared, p) = {}
    <3> DEFINE f == DropBitmaps(cleared, {p})
    <3>1. Sound(f)
      BY <1>4, DropSound, Zenon
    <3>2. f.tbs = cleared.tbs /\ f.linked = cleared.linked /\ f.jmp = cleared.jmp /\ f.tlb = cleared.tlb
      BY <1>4, DropSame, Zenon
    <3>3. left = f
      BY <2>2, Zenon
    <3> HIDE DEF f, left
    <3> QED  BY <1>4, <3>1, <3>2, <3>3, Zenon
  <2> QED  BY <2>1, <2>2, Zenon
<1> HIDE DEF left
<1>6. /\ Sound(open) /\ open.tbs = k.tbs /\ open.linked = k.linked \ hit
      /\ open.jmp = k.jmp \ hit /\ open.tlb = k.tlb
  <2>1. CASE InPage(cleared, p) = {} /\ cur # 0
    <3> DEFINE f == [left EXCEPT !.dirty = @ \cup {p}]
    <3>1. /\ IsCache(f) /\ f.tbs = left.tbs /\ f.linked = left.linked /\ f.jmp = left.jmp
          /\ f.dirty = left.dirty \cup {p} /\ f.tlb = left.tlb /\ f.slow = left.slow
          /\ f.built = left.built /\ f.bitmap = left.bitmap
      BY <1>5, Zenon DEF Sound, IsCache
    <3> HIDE DEF f
    <3>2. BlocksOK(f) /\ TlbOK(f) /\ JumpsOK(f)
      BY <1>5, <3>1, ZenonT(60) DEF Sound, BlocksOK, TlbOK, JumpsOK
    <3>3. \A i \in left.linked : p \notin PagesOf(left.tbs[i])
      BY <1>4, <1>5, <2>1, Zenon DEF InPage
    <3>4. Guarded(f)
      BY <1>5, <3>1, <3>3, SMTT(60) DEF Sound, Guarded
    <3>5. Sound(f)
      BY <3>1, <3>2, <3>4, Zenon DEF Sound
    <3>6. open = f
      BY <2>1, Zenon DEF f
    <3> QED  BY <1>5, <3>1, <3>5, <3>6, Zenon
  <2>2. CASE ~(InPage(cleared, p) = {} /\ cur # 0)
    BY <1>5, <2>2, Zenon
  <2> QED  BY <2>1, <2>2, Zenon
<1> HIDE DEF open
<1>7. Current(open, mem)
  BY <1>6, CurrentKept, Zenon
<1>8. CASE ~modified
  <2>1. last = open /\ r.modified = FALSE
    BY <1>2, <1>8, Zenon
  <2>2. \A i \in open.linked : Covered(open.tbs[i]) \cap ({p} \X os) = {}
    BY <1>6, Zenon DEF hit
  <2> HIDE DEF last, modified
  <2> QED  BY <1>2, <1>6, <1>7, <1>8, <2>1, <2>2, Zenon DEF Invalidated, r
<1>9. CASE modified
  <2> DEFINE e == k.tbs[cur].pc
  <2>1. /\ cur \in hit /\ ~k.tbs[cur].single /\ cur \in k.linked /\ cur # 0 /\ cur \in k.jmp
        /\ k.tbs[cur] \in Tb
    <3>1. cur \in hit /\ ~k.tbs[cur].single /\ cur \in k.linked
      BY <1>9, Zenon DEF hit
    <3> QED  BY <3>1, SMTT(60) DEF Sound, BlocksOK
  <2>2. e \in Entry
    BY <2>1, Zenon DEF Tb
  <2>3. last = Translate(open, e, TRUE)
    BY <1>9, Zenon DEF tb_gen_code
  <2> HIDE DEF last, modified
  <2>4. Translated(open, last, e, TRUE)
    BY <1>6, <1>7, <2>2, <2>3, TranslateSound, Zenon
  <2>5. ASSUME NEW i \in last.jmp PROVE last.tbs[i].pc # e
    <3>1. i \in open.jmp /\ last.tbs[i] = open.tbs[i]
      BY <2>4, Zenon DEF Translated
    <3>2. i \in k.jmp /\ i # cur /\ last.tbs[i] = k.tbs[i]
      BY <1>6, <2>1, <3>1, Zenon
    <3> QED  BY <2>1, <3>2, Zenon DEF Sound, BlocksOK
  <2>6. Ready(last, e)
    BY <2>4, <2>5, Zenon DEF Ready, Translated
  <2>7. Sound(last) /\ Current(last, mem)
    BY <2>4, Zenon DEF Translated
  <2> QED  BY <1>2, <1>9, <2>1, <2>6, <2>7, Zenon DEF Invalidated, r
<1> QED  BY <1>8, <1>9, Zenon

(* notdirty_mem_write: the write that is done through a TLB entry of frame p *)
(* is to a byte that no linked block covers.                                 *)
LEMMA NotdirtySound ==
  ASSUME MapOK, MemoryOK, NEW k, Sound(k), Current(k, mem), NEW cur \in k.jmp,
         NEW v, NEW p, <<v, p>> \in k.tlb, NEW o \in Offset
  PROVE  Invalidated(k, notdirty_mem_write(k, cur, v, o), p, {o}, cur)
<1> DEFINE r == IF p \in k.dirty \/ (p \in k.built /\ <<p, o>> \notin k.bitmap)
                THEN [modified |-> FALSE, cache |-> k]
                ELSE tb_invalidate_phys_page_range(k, p, {o}, cur)
           s == [r EXCEPT !.cache.slow = @ \ {v}]
           q == notdirty_mem_write(k, cur, v, o)
<1>1. v \in VPage /\ p \in Frame /\ TlbFrame(k, v) = p
  BY FrameOf, Zenon DEF Sound
<1>2. q = IF r.modified \/ p \notin r.cache.dirty THEN r ELSE s
  BY <1>1, Zenon DEF notdirty_mem_write
<1>3. k.linked \subseteq 1 .. Len(k.tbs) /\ k.jmp \subseteq k.linked /\ cur # 0
      /\ \A i \in k.linked : k.tbs[i] \in Tb
  BY DEF Sound, BlocksOK
<1>4. Invalidated(k, r, p, {o}, cur) /\ r = [modified |-> r.modified, cache |-> r.cache]
  <2>1. CASE p \in k.dirty \/ (p \in k.built /\ <<p, o>> \notin k.bitmap)
    <3>1. r = [modified |-> FALSE, cache |-> k]
      BY <2>1, Zenon
    <3> HIDE DEF r
    <3>2. r.modified = FALSE /\ r.cache = k
      BY <3>1, Zenon
    <3>3. ASSUME NEW i \in k.linked PROVE <<p, o>> \notin Covered(k.tbs[i])
      <4>1. k.tbs[i] \in Tb
        BY <1>3, Zenon
      <4>2. <<p, o>> \in Covered(k.tbs[i]) => p \in PagesOf(k.tbs[i])
        BY <4>1, CoveredBytes, Zenon
      <4> QED  BY <2>1, <4>2, Zenon DEF Sound, Guarded
    <3>4. \A i \in k.linked : Covered(k.tbs[i]) \cap ({p} \X {o}) = {}
      BY <3>3
    <3> QED  BY <3>1, <3>2, <3>4, Zenon DEF Invalidated
  <2>2. CASE ~(p \in k.dirty \/ (p \in k.built /\ <<p, o>> \notin k.bitmap))
    <3>1. r = tb_invalidate_phys_page_range(k, p, {o}, cur)
      BY <2>2, Zenon
    <3>2. r = [modified |-> r.modified, cache |-> r.cache]
      BY <3>1, Zenon DEF tb_invalidate_phys_page_range
    <3> HIDE DEF r
    <3> QED  BY <1>1, <3>1, <3>2, InvalidateRange, Zenon
  <2> QED  BY <2>1, <2>2, Zenon
<1> HIDE DEF r
<1>5. CASE r.modified \/ p \notin r.cache.dirty
  BY <1>2, <1>4, <1>5, Zenon
<1>6. CASE ~(r.modified \/ p \notin r.cache.dirty)
  <2> DEFINE h == r.cache
             f == [h EXCEPT !.slow = @ \ {v}]
  <2>1. Sound(h) /\ Current(h, mem) /\ h.tlb = k.tlb /\ r.modified = FALSE
    BY <1>4, <1>6, Zenon DEF Invalidated
  <2>2. q = s /\ s.modified = FALSE /\ s.cache = f
    BY <1>2, <1>4, <1>6, <2>1, Zenon
  <2> HIDE DEF h
  <2>3. /\ IsCache(f) /\ f.tbs = h.tbs /\ f.linked = h.linked /\ f.jmp = h.jmp
        /\ f.dirty = h.dirty /\ f.tlb = h.tlb /\ f.slow = h.slow \ {v}
        /\ f.built = h.built /\ f.bitmap = h.bitmap
    BY <2>1, Zenon DEF Sound, IsCache
  <2> HIDE DEF f, s, q
  <2>4. BlocksOK(f) /\ Guarded(f) /\ JumpsOK(f)
    BY <2>1, <2>3, Zenon DEF Sound, BlocksOK, Guarded, JumpsOK
  <2>5. ASSUME NEW e \in h.tlb, e[1] = v PROVE e[2] \in h.dirty
    <3>1. e = <<v, p>>
      BY <2>1, <2>5, Zenon DEF Sound, TlbOK
    <3> QED  BY <1>6, <3>1, Zenon DEF h
  <2>6. TlbOK(f)
    BY <2>1, <2>3, <2>5, Zenon DEF Sound, TlbOK
  <2>7. Sound(f)
    BY <2>3, <2>4, <2>6, Zenon DEF Sound
  <2>8. Current(f, mem)
    BY <2>1, <2>3, CurrentKept, Zenon
  <2>9. \A i \in f.linked : Covered(f.tbs[i]) \cap ({p} \X {o}) = {}
    BY <1>4, <2>1, <2>3, Zenon DEF Invalidated, h
  <2>10. Invalidated(k, s, p, {o}, cur)
    BY <2>1, <2>2, <2>3, <2>7, <2>8, <2>9, Zenon DEF Invalidated
  <2> QED  BY <2>2, <2>10, Zenon DEF q
<1> QED  BY <1>5, <1>6, Zenon

(* No linked block covers the bytes os of frame p, and two memories differ   *)
(* only there.                                                               *)
Untouched(k, p, os) == \A i \in k.linked : Covered(k.tbs[i]) \cap ({p} \X os) = {}
SameBut(m, n, p, os) ==
  \A f \in Frame, o \in Offset : f # p \/ o \notin os => n[f][o] = m[f][o]

(* Bytes that no linked block covers may be written.                         *)
LEMMA WriteKeepsCurrent ==
  ASSUME NEW k, Sound(k), NEW m \in [Frame -> [Offset -> Byte]], Current(k, m),
         NEW n \in [Frame -> [Offset -> Byte]], NEW p \in Frame, NEW os,
         Untouched(k, p, os), SameBut(m, n, p, os)
  PROVE  Current(k, n)
<1> SUFFICES ASSUME NEW i \in k.linked PROVE k.tbs[i].code = ContentsIn(n, k.tbs[i])
  BY Zenon DEF Current
<1>1. k.tbs[i] \in Tb
  BY SMTT(60) DEF Sound, BlocksOK
<1>2. ASSUME NEW b \in Covered(k.tbs[i]) PROVE m[b[1]][b[2]] = n[b[1]][b[2]]
  <2>1. b = <<b[1], b[2]>> /\ b[1] \in Frame /\ b[2] \in Offset
    BY <1>1, CoveredBytes, Zenon
  <2>2. b[1] # p \/ b[2] \notin os
    BY <2>1 DEF Untouched
  <2> QED  BY <2>1, <2>2, Zenon DEF SameBut
<1>3. ContentsIn(m, k.tbs[i]) = ContentsIn(n, k.tbs[i])
  BY <1>1, <1>2, SameContents, Zenon
<1> QED  BY <1>3, Zenon DEF Current

(* A cache that is sound is so after a step that leaves seen alone.          *)
LEMMA SoundNext ==
  ASSUME NEW k, Sound(k), c' = k, seen' = seen
  PROVE  Sound(c)'
<1>1. IsCache(c)' /\ BlocksOK(c)' /\ Guarded(c)'
  BY Zenon DEF Sound, IsCache, BlocksOK, Guarded
<1>2. TlbOK(c)' /\ JumpsOK(c)'
  BY Zenon DEF Sound, TlbOK, JumpsOK
<1> QED  BY <1>1, <1>2, Zenon DEF Sound

(* No linked block covers a byte of a dirty frame.                           *)
LEMMA DirtyIsFree ==
  ASSUME NEW k, Sound(k), NEW p \in k.dirty, NEW os
  PROVE  \A i \in k.linked : Covered(k.tbs[i]) \cap ({p} \X os) = {}
<1> SUFFICES ASSUME NEW i \in k.linked, NEW b \in Covered(k.tbs[i]) PROVE b \notin {p} \X os
  BY Zenon
<1>1. k.tbs[i] \in Tb
  BY DEF Sound, BlocksOK
<1>2. b[1] \in PagesOf(k.tbs[i])
  BY <1>1, CoveredBytes, Zenon
<1> QED  BY <1>2, Zenon DEF Sound, Guarded

(* The execution of an instruction that stores nothing.                      *)
LEMMA RunStep ==
  ASSUME CacheInv, NEW i \in Insn, Run(i)
  PROVE  CacheInv'
<1> DEFINE r == tb_find_fast(c, i.pc)
<1>1. i.pc \in Entry
  BY DEF Insn
<1>2. Found(r, i.pc)
  BY <1>1, FindFastSound, Zenon DEF CacheInv
<1>3. c' = r.cache /\ UNCHANGED <<mem, pt, seen>> /\ tries' = 0
  BY Zenon DEF Run
<1> HIDE DEF r
<1>4. Sound(r.cache) /\ Current(r.cache, mem)
  BY <1>2, Zenon DEF Found
<1>5. Sound(c)'
  BY <1>3, <1>4, SoundNext, Zenon
<1>6. Current(c, mem)'
  BY <1>3, <1>4, Zenon
<1>7. MemoryOK' /\ MapOK'
  BY <1>3, Zenon DEF CacheInv, MemoryOK, MapOK
<1> QED  BY <1>3, <1>5, <1>6, <1>7 DEF CacheInv

(* The execution of a store, or its restart in a block of its own, which is  *)
(* not restarted.                                                            *)
LEMMA StoreStep ==
  ASSUME CacheInv, NEW i \in Insn, Store(i)
  PROVE  CacheInv'
<1> DEFINE f == tb_find_fast(c, i.pc)
           v == i.to[1]
           o == i.to[2]
           k == tlb_fill(f.cache, v)
           p == TlbFrame(k, v)
           r == IF v \in k.slow THEN notdirty_mem_write(k, f.tb, v, o)
                ELSE [modified |-> FALSE, cache |-> k]
<1>1. i.pc \in Entry /\ v \in VPage /\ o \in Offset /\ i.byte \in Byte
  <2>1. i \in [pc : Entry, op : {"store"}, to : Data, byte : Byte]
    BY DEF Insn, Store
  <2> QED  BY <2>1, CacheAssumption
<1>2. /\ insn \in {Idle, i} /\ c' = r.cache /\ UNCHANGED <<pt, seen>>
      /\ IF r.modified THEN insn' = i /\ tries' = tries + 1 /\ UNCHANGED mem
         ELSE /\ mem' = [mem EXCEPT ![p][o] = i.byte]
              /\ insn' = Idle /\ tries' = 0
  BY Zenon DEF Store
<1>3. Found(f, i.pc) /\ (Ready(c, i.pc) => f.cache.tbs[f.tb].single)
  BY <1>1, FindFastSound, Zenon DEF CacheInv
<1> HIDE DEF f, v, o
<1>4. /\ Sound(f.cache) /\ Current(f.cache, mem) /\ f.tb \in f.cache.jmp
      /\ f.cache.tbs[f.tb].pc = i.pc
  BY <1>3, Zenon DEF Found
<1>5. /\ Sound(k) /\ k.tbs = f.cache.tbs /\ k.linked = f.cache.linked /\ k.jmp = f.cache.jmp
      /\ <<v, p>> \in k.tlb
  BY <1>1, <1>4, FillSound, SMTT(60) DEF CacheInv
<1> HIDE DEF k
<1>6. Current(k, mem)
  BY <1>4, <1>5, CurrentKept, Zenon
<1>7. p \in Frame
  BY <1>5, FrameOf, Zenon DEF Sound
<1> HIDE DEF p
<1>8. Invalidated(k, r, p, {o}, f.tb)
  <2>1. CASE v \in k.slow
    <3>1. r = notdirty_mem_write(k, f.tb, v, o)
      BY <2>1, Zenon
    <3> HIDE DEF r
    <3> QED  BY <1>1, <1>4, <1>5, <1>6, <3>1, NotdirtySound, Zenon DEF CacheInv
  <2>2. CASE v \notin k.slow
    <3>1. r.modified = FALSE /\ r.cache = k
      BY <2>2, Zenon
    <3>2. p \in k.dirty
      BY <1>5, <2>2, Zenon DEF Sound, TlbOK
    <3>3. \A j \in k.linked : Covered(k.tbs[j]) \cap ({p} \X {o}) = {}
      BY <1>5, <3>2, DirtyIsFree, Zenon
    <3> HIDE DEF r
    <3> QED  BY <1>5, <1>6, <3>1, <3>3, Zenon DEF Invalidated
  <2> QED  BY <2>1, <2>2, Zenon
<1> HIDE DEF r
<1>9. Sound(r.cache) /\ Current(r.cache, mem) /\ r.modified \in BOOLEAN
  BY <1>8, Zenon DEF Invalidated
<1>10. Sound(c)' /\ MapOK'
  BY <1>2, <1>9, SoundNext, Zenon DEF CacheInv, MapOK
<1>11. CASE r.modified
  <2>1. Ready(r.cache, i.pc) /\ ~f.cache.tbs[f.tb].single
    BY <1>4, <1>5, <1>8, <1>11, Zenon DEF Invalidated
  <2>2. tries = 0
    BY <1>2, <1>3, <2>1, Zenon DEF CacheInv
  <2>3. c' = r.cache /\ insn' = i /\ tries' = 1 /\ mem' = mem
    BY <1>2, <1>11, <2>2
  <2>4. Current(c, mem)' /\ Ready(c, insn.pc)' /\ MemoryOK'
    BY <1>9, <2>1, <2>3, Zenon DEF CacheInv, MemoryOK
  <2>5. (insn # Idle)'
    <3>1. i.op = "store" /\ Idle.op = "idle"
      BY Zenon DEF Store, Idle
    <3>2. i # Idle
      BY <3>1, Zenon
    <3> QED  BY <2>3, <3>2, Zenon DEF Idle
  <2> QED  BY <1>10, <2>3, <2>4, <2>5, Zenon DEF CacheInv
<1>12. CASE ~r.modified
  <2>1. c' = r.cache /\ mem' = [mem EXCEPT ![p][o] = i.byte] /\ tries' = 0
    BY <1>2, <1>12, Zenon
  <2>2. mem' \in [Frame -> [Offset -> Byte]]
    BY <1>1, <1>7, <2>1, Zenon DEF CacheInv, MemoryOK
  <2>3. SameBut(mem, mem', p, {o})
    BY <1>1, <1>7, <2>1, Zenon DEF CacheInv, MemoryOK, SameBut
  <2>4. Untouched(r.cache, p, {o})
    BY <1>8, <1>12, Zenon DEF Invalidated, Untouched
  <2>5. Current(r.cache, mem')
    BY <1>7, <1>9, <2>2, <2>3, <2>4, WriteKeepsCurrent, Zenon DEF CacheInv, MemoryOK
  <2>6. Current(c, mem)' /\ MemoryOK'
    BY <2>1, <2>2, <2>5, Zenon DEF MemoryOK
  <2> QED  BY <1>10, <2>1, <2>6 DEF CacheInv
<1> QED  BY <1>9, <1>11, <1>12, Zenon

(* A write by a device: no block was hit or the ones that were are gone.     *)
LEMMA DeviceStep ==
  ASSUME CacheInv, NEW p \in Frame, NEW os \in Transfer, NEW b \in Byte, DeviceWrite(p, os, b)
  PROVE  CacheInv'
<1> DEFINE r == tb_invalidate_phys_page_range(c, p, os, 0)
           k == IF p \in c.dirty THEN c ELSE r.cache
<1>1. /\ mem' = [mem EXCEPT ![p] = [o \in Offset |-> IF o \in os THEN b ELSE mem[p][o]]]
      /\ c' = k /\ tries' = 0 /\ UNCHANGED <<pt, seen>>
  BY Zenon DEF DeviceWrite
<1>2. /\ Sound(k) /\ Current(k, mem)
      /\ \A i \in k.linked : Covered(k.tbs[i]) \cap ({p} \X os) = {}
  <2>1. CASE p \in c.dirty
    BY <2>1, DirtyIsFree, Zenon DEF CacheInv
  <2>2. CASE p \notin c.dirty
    <3>1. Invalidated(c, r, p, os, 0)
      BY InvalidateRange, Zenon DEF CacheInv
    <3>2. k = r.cache
      BY <2>2, Zenon
    <3> HIDE DEF r, k
    <3> QED  BY <3>1, <3>2, Zenon DEF Invalidated
  <2> QED  BY <2>1, <2>2, Zenon
<1> HIDE DEF k
<1>3. mem' \in [Frame -> [Offset -> Byte]]
  BY <1>1, Zenon DEF CacheInv, MemoryOK
<1>4. SameBut(mem, mem', p, os) /\ Untouched(k, p, os)
  BY <1>1, <1>2, Zenon DEF CacheInv, MemoryOK, SameBut, Untouched
<1>5. Current(k, mem')
  BY <1>2, <1>3, <1>4, WriteKeepsCurrent, Zenon DEF CacheInv, MemoryOK
<1>6. Sound(c)' /\ MapOK'
  BY <1>1, <1>2, SoundNext, Zenon DEF CacheInv, MapOK
<1>7. Current(c, mem)' /\ MemoryOK'
  BY <1>1, <1>3, <1>5, Zenon DEF MemoryOK
<1> QED  BY <1>1, <1>6, <1>7 DEF CacheInv

(* The guest maps a page: the old frame stays among those seen.              *)
LEMMA MapStep ==
  ASSUME CacheInv, NEW v \in VPage, NEW p \in Frame, MapPage(v, p)
  PROVE  CacheInv'
<1>1. /\ pt' = [pt EXCEPT ![v] = p] /\ seen' = [seen EXCEPT ![v] = @ \cup {p}]
      /\ UNCHANGED <<mem, c, insn, tries>> /\ insn = Idle
  BY Zenon DEF MapPage
<1>2. MapOK'
  BY <1>1, Zenon DEF CacheInv, MapOK
<1>3. \A w \in VPage : seen[w] \subseteq seen'[w]
  BY <1>1, Zenon DEF CacheInv, MapOK
<1>4. IsCache(c)' /\ BlocksOK(c)' /\ Guarded(c)'
  BY <1>1, Zenon DEF CacheInv, Sound, IsCache, BlocksOK, Guarded
<1>5. TlbOK(c)'
  BY <1>1, <1>3, Zenon DEF CacheInv, Sound, TlbOK
<1>6. JumpsOK(c)'
  <2> SUFFICES ASSUME NEW i \in c.jmp
               PROVE  /\ c.tbs[i].page[1] \in seen'[c.tbs[i].pc[1]]
                      /\ c.tbs[i].page[2] # NONE => c.tbs[i].page[2] \in seen'[c.tbs[i].pc[1] + 1]
    BY <1>1, Zenon DEF JumpsOK
  <2>1. c.tbs[i] \in Tb
    BY SMTT(60) DEF CacheInv, Sound, BlocksOK
  <2>2. c.tbs[i].pc[1] \in VPage /\ (c.tbs[i].page[2] # NONE => c.tbs[i].pc[1] + 1 \in VPage)
    BY <2>1, CacheAssumption, Zenon DEF Tb
  <2> QED  BY <1>3, <2>2, Zenon DEF CacheInv, Sound, JumpsOK
<1>7. Sound(c)'
  BY <1>4, <1>5, <1>6, Zenon DEF Sound
<1>8. MemoryOK' /\ Current(c, mem)' /\ tries = 0 /\ tries' = 0
  BY <1>1, Zenon DEF CacheInv, MemoryOK
<1> QED  BY <1>2, <1>7, <1>8 DEF CacheInv

(* invlpg: the entries of the jump cache that start on the page or on the    *)
(* one before it go, the only ones that can have a byte on it.               *)
LEMMA InvlpgStep ==
  ASSUME CacheInv, NEW v \in VPage, Invlpg(v)
  PROVE  CacheInv'
<1> DEFINE tl == { e \in c.tlb : e[1] # v }
           js == { i \in c.jmp : c.tbs[i].pc[1] % JmpPages
                                  \notin {v % JmpPages, (v - 1) % JmpPages} }
<1>1. /\ c' = [c EXCEPT !.tlb = tl, !.slow = @ \ {v}, !.jmp = js]
      /\ seen' = [seen EXCEPT ![v] = {pt[v]}] /\ UNCHANGED <<mem, pt, insn, tries>> /\ insn = Idle
  BY Zenon DEF Invlpg, tlb_flush_page
<1> HIDE DEF tl, js
<1>2. /\ IsCache(c') /\ c'.tbs = c.tbs /\ c'.linked = c.linked /\ c'.jmp = js
      /\ c'.dirty = c.dirty /\ c'.tlb = tl /\ c'.slow = c.slow \ {v} /\ c'.built = c.built
      /\ c'.bitmap = c.bitmap
  BY <1>1, Zenon DEF CacheInv, Sound, IsCache
<1>3. MapOK' /\ \A w \in VPage \ {v} : seen'[w] = seen[w]
  BY <1>1, Zenon DEF CacheInv, MapOK
<1>4. IsCache(c)' /\ BlocksOK(c)' /\ Guarded(c)'
  <2>1. BlocksOK(c) /\ Guarded(c) /\ js \subseteq c.jmp
    BY Zenon DEF CacheInv, Sound, js
  <2> QED  BY <1>2, <2>1, Zenon DEF BlocksOK, Guarded
<1>5. TlbOK(c)'
  <2>1. TlbOK(c)
    BY Zenon DEF CacheInv, Sound
  <2> QED  BY <1>2, <1>3, <2>1, Zenon DEF TlbOK, tl
<1>6. JumpsOK(c)'
  <2> SUFFICES ASSUME NEW i \in js
               PROVE  /\ c.tbs[i].page[1] \in seen'[c.tbs[i].pc[1]]
                      /\ c.tbs[i].page[2] # NONE => c.tbs[i].page[2] \in seen'[c.tbs[i].pc[1] + 1]
    BY <1>2, Zenon DEF JumpsOK
  <2>1. c.tbs[i] \in Tb /\ i \in c.jmp
    BY SMTT(60) DEF CacheInv, Sound, BlocksOK, js
  <2> DEFINE x == c.tbs[i].pc[1]
  <2>2. x \in VPage /\ (c.tbs[i].page[2] # NONE => x + 1 \in VPage)
    BY <2>1, CacheAssumption, Zenon DEF Tb
  <2>3. x % JmpPages # v % JmpPages /\ x % JmpPages # (v - 1) % JmpPages
    BY Zenon DEF js
  <2>4. /\ c.tbs[i].page[1] \in seen[x]
        /\ c.tbs[i].page[2] # NONE => c.tbs[i].page[2] \in seen[x + 1]
    BY <2>1, Zenon DEF CacheInv, Sound, JumpsOK
  <2> HIDE DEF x
  <2>5. x # v /\ x + 1 # v
    BY <2>2, <2>3 DEF VPage
  <2>6. /\ c.tbs[i].page[1] \in seen'[x]
        /\ c.tbs[i].page[2] # NONE => c.tbs[i].page[2] \in seen'[x + 1]
    BY <1>3, <2>2, <2>4, <2>5, Zenon
  <2> QED  BY <2>6, Zenon DEF x
<1>7. Sound(c)'
  BY <1>4, <1>5, <1>6, Zenon DEF Sound
<1>8. MemoryOK' /\ tries = 0 /\ tries' = 0
  BY <1>1, Zenon DEF CacheInv, MemoryOK
<1>9. Current(c', mem)
  BY <1>2, CurrentKept, Zenon DEF CacheInv
<1>10. Current(c, mem)'
  BY <1>1, <1>9, Zenon
<1> QED  BY <1>3, <1>7, <1>8, <1>10 DEF CacheInv

(* tlb_flush empties the TLB and the jump cache.                             *)
LEMMA FlushStep ==
  ASSUME CacheInv, FlushTlb
  PROVE  CacheInv'
<1>1. /\ c' = [c EXCEPT !.tlb = {}, !.slow = {}, !.jmp = {}]
      /\ seen' = [v \in VPage |-> {pt[v]}] /\ UNCHANGED <<mem, pt, insn, tries>> /\ insn = Idle
  BY Zenon DEF FlushTlb
<1>2. /\ IsCache(c') /\ c'.tbs = c.tbs /\ c'.linked = c.linked /\ c'.jmp = {}
      /\ c'.dirty = c.dirty /\ c'.tlb = {} /\ c'.slow = {} /\ c'.built = c.built
      /\ c'.bitmap = c.bitmap
  BY <1>1, Zenon DEF CacheInv, Sound, IsCache
<1>3. MapOK'
  BY <1>1, Zenon DEF CacheInv, MapOK
<1>4. IsCache(c)' /\ BlocksOK(c)' /\ Guarded(c)' /\ TlbOK(c)' /\ JumpsOK(c)'
  <2>1. BlocksOK(c) /\ Guarded(c)
    BY Zenon DEF CacheInv, Sound
  <2> QED  BY <1>2, <2>1, Zenon DEF BlocksOK, Guarded, TlbOK, JumpsOK
<1>5. MemoryOK' /\ tries = 0 /\ tries' = 0
  BY <1>1, Zenon DEF CacheInv, MemoryOK
<1>6. Current(c', mem)
  BY <1>2, CurrentKept, Zenon DEF CacheInv
<1>7. Current(c, mem)'
  BY <1>1, <1>6, Zenon
<1> QED  BY <1>3, <1>4, <1>5, <1>7 DEF CacheInv, Sound

(* Every step keeps the invariant.                                           *)
LEMMA CacheStep == CacheInv /\ [CacheNext]_cacheVars => CacheInv'
<1> SUFFICES ASSUME CacheInv, [CacheNext]_cacheVars PROVE CacheInv'  BY Zenon
<1>1. CASE Guest
  BY <1>1, FlushStep, InvlpgStep, MapStep, Zenon DEF Guest
<1>2. CASE Device
  BY <1>2, DeviceStep, Zenon DEF Device
<1>3. CASE Cpu
  BY <1>3, RunStep, StoreStep, Zenon DEF Cpu
<1>4. CASE UNCHANGED cacheVars
  <2>1. UNCHANGED <<mem, pt, seen, c, insn, tries>>
    BY <1>4, Zenon DEF cacheVars
  <2>2. Sound(c)' /\ MapOK' /\ MemoryOK'
    BY <2>1, SoundNext, Zenon DEF CacheInv, MapOK, MemoryOK
  <2>3. Current(c, mem)' /\ (tries' = 1 => (insn # Idle)' /\ Ready(c, insn.pc)')
    BY <2>1, Zenon DEF CacheInv
  <2> QED  BY <2>1, <2>2, <2>3, Zenon DEF CacheInv
<1> QED  BY <1>1, <1>2, <1>3, <1>4, Zenon DEF CacheNext

(* The cache is empty, every frame dirty.                                    *)
LEMMA CacheStart == CacheInit => CacheInv
<1> SUFFICES ASSUME CacheInit PROVE CacheInv  BY Zenon
<1>1. MemoryOK /\ MapOK
  BY CacheAssumption DEF CacheInit, MemoryOK, MapOK
<1>2. /\ IsCache(c) /\ c.tbs = << >> /\ c.linked = {} /\ c.jmp = {} /\ c.tlb = {}
  BY Zenon DEF CacheInit, EmptyCache, IsCache
<1>3. Sound(c) /\ Current(c, mem)
  BY <1>2, SMTT(60) DEF Sound, BlocksOK, TlbOK, Guarded, JumpsOK, Current
<1> QED  BY <1>1, <1>3 DEF CacheInv, CacheInit

LEMMA CacheInvariant == CacheSpec => []CacheInv
BY CacheStart, CacheStep, PTL DEF CacheSpec

(* tb_find_fast and tb_find_slow return only translations of what the guest  *)
(* memory holds, whatever wrote it: a store through any mapping of the       *)
(* frame, with or without a code_bitmap, or a device.                        *)
THEOREM CacheBlocksAreCurrent == CacheSpec => []BlocksAreCurrent
<1>1. CacheInv => BlocksAreCurrent
  BY Zenon DEF CacheInv, Sound, BlocksOK, Current, BlocksAreCurrent, Contents, ContentsIn
<1> QED  BY <1>1, CacheInvariant, PTL

(* A block that tb_find_fast takes from tb_jmp_cache is on frames its pages  *)
(* were mapped to since the guest last flushed them: tlb_flush_page clears   *)
(* the entries of the page before it too.                                    *)
THEOREM CacheJumpsToMappedCode == CacheSpec => []JumpsToMappedCode
<1>1. CacheInv => JumpsToMappedCode
  BY Zenon DEF CacheInv, Sound, JumpsOK, JumpsToMappedCode
<1> QED  BY <1>1, CacheInvariant, PTL

(* tb_invalidate_phys_page_range restarts an instruction that overwrites     *)
(* itself once: the block it then runs in is its own (CF_SINGLE_INSN).       *)
THEOREM CacheRestartsOnce == CacheSpec => []RestartsOnce
<1>1. CacheInv => RestartsOnce
  BY DEF CacheInv, RestartsOnce
<1> QED  BY <1>1, CacheInvariant, PTL

=============================================================================
