------------------------------ MODULE GuestHeap ------------------------------
(***************************************************************************)
(* The allocator wrappers of the guest kernel (GuestKernelPatch.diff): each*)
(* calls the allocator it wraps and one of the MemCheck_* functions, and   *)
(* other threads of the guest run between the two calls.  What the         *)
(* MemCheck_* calls do is taken from AllocationTable, which the shadow     *)
(* memory implements.                                                      *)
(*                                                                         *)
(* The clients of the allocator are correct: they give back what they      *)
(* hold, once and in the way it was obtained.                              *)
(*                                                                         *)
(* An address stands for a page or for the place of a slab object.         *)
(***************************************************************************)
EXTENDS Integers, FiniteSets

CONSTANTS
  Thread, InitThread,      \* threads of the guest, and the first of them
  Heap,                    \* addresses of the heap, above ZERO_SIZE_PTR
  BitmapPages, InitPages,  \* part of the kernel image: the bitmap of bootmem,
                           \* and the init section
  Physical,                \* the physical address of a heap address
  Wrapper,                 \* the wrappers the guest calls
  MayFail,                 \* those whose allocator may return NULL
  Size,                    \* sizes asked for
  MaxZero                  \* bound: zero-size allocations held at once

NULL == 0
ZERO_SIZE_PTR == 1

\* The image is reserved as one range, the bitmap behind the init section.
Image == InitPages \cup BitmapPages

ASSUME HeapAssumption ==
  /\ InitThread \in Thread
  /\ Heap \subseteq Nat \ {NULL, ZERO_SIZE_PTR}
  /\ \A a \in Heap, n \in Size : n <= a
  /\ IsFiniteSet(Heap)
  /\ InitPages \subseteq Heap /\ BitmapPages \subseteq Heap
  /\ Image # {} /\ \A a \in InitPages, b \in BitmapPages : a < b
  /\ \E a, b \in Heap : Image = a .. b
  /\ Physical \in [Heap -> Nat \ (Heap \cup {NULL, ZERO_SIZE_PTR})]
  /\ Size \subseteq Nat
  /\ MaxZero \in Nat

VARIABLES
  objects,                 \* the table of marked allocations
  ret,                     \* the verdict of this step, 0 if it marked nothing
  heap,                    \* ranges the allocator has handed out
  held,                    \* those a client holds, with the kind of memory
  zero,                    \* zero-size allocations clients hold
  op,                      \* what each thread does inside a wrapper
  image,                   \* pages of the image that are still reserved
  boot,                    \* "start", "bootmem", "free_all_bootmem", "done"
  overtaken                \* history: a page was handed out before its late mark

heapVars == <<objects, ret, heap, held, zero, op, image, boot, overtaken>>

Marks == INSTANCE AllocationTable WITH AddressSpace <- 2^32

Span(p, n) == [m_Address |-> p, m_Size |-> n]
HeldRange(o) == Span(o.m_Address, o.m_Size)
HeapBytes == UNION { Marks!Bytes(o) : o \in heap }

Idle == [pc |-> "idle"]

\* The kind of memory a wrapper hands out or takes back.
Kind(f) ==
  CASE f \in {"kmalloc", "kcalloc", "__kmalloc_track_caller", "kfree"} -> "kmalloc"
    [] f \in {"kmem_cache_alloc", "kmem_cache_free"} -> "cache"
    [] f \in {"__alloc_bootmem", "free_bootmem_node", "free_bootmem"} -> "boot"
    [] OTHER -> "page"

AllocWrapper ==
  Wrapper \cap {"kmalloc", "kcalloc", "__kmalloc_track_caller",
                "kmem_cache_alloc", "alloc_pages_node", "__alloc_bootmem"}
FreeWrapper ==
  Wrapper \cap {"kfree", "kmem_cache_free", "__free_pages", "__page_cache_release",
                "__pagevec_free", "free_bootmem_node", "free_bootmem"}

\* Bootmem serves until free_all_bootmem, the other allocators from then on.
Available(f) == boot = IF Kind(f) = "boot" THEN "bootmem" ELSE "done"

-----------------------------------------------------------------------------
(***************************************************************************)
(* The calls of MemCheck_* that the wrappers make.                         *)
(***************************************************************************)

\* The step makes no call of MemCheck_*.
NoMark == ret' = 0 /\ UNCHANGED objects

\* Mutated form: alloc_pages_node marks one page whatever the order.
MarkAllocOnePage(f, p, n) ==
  IF f = "kmem_cache_alloc" /\ p = NULL THEN NoMark
  ELSE Marks!Alloc(p, IF f = "alloc_pages_node" THEN 1 ELSE n)

\* kmem_cache_alloc marks what is not NULL, the others whatever they got.
MarkAlloc(f, p, n) ==
  IF f = "kmem_cache_alloc" /\ p = NULL THEN NoMark ELSE Marks!Alloc(p, n)

\* Mutated forms: __pagevec_free is not patched; __free_pages unmarks one page
\* whatever the order.
MarkFreeNoPagevec(f, p, n) ==
  CASE f \in {"kfree", "kmem_cache_free"} -> Marks!Free(p)
    [] f = "__pagevec_free" -> NoMark
    [] OTHER -> Marks!FreeSize(p, n)

MarkFreeOnePage(f, p, n) ==
  CASE f \in {"kfree", "kmem_cache_free"} -> Marks!Free(p)
    [] f = "__pagevec_free" -> Marks!FreeAnySize(p, n)
    [] OTHER -> Marks!FreeSize(p, 1)

\* free_bootmem passes the physical address it is given, free_bootmem_node the
\* virtual one.
MarkFree(f, p, n) ==
  CASE f \in {"kfree", "kmem_cache_free"} -> Marks!Free(p)
    [] f = "__pagevec_free" -> Marks!FreeAnySize(p, n)
    [] f = "free_bootmem" -> Marks!FreeSize(Physical[p], n)
    [] OTHER -> Marks!FreeSize(p, n)

-----------------------------------------------------------------------------
(***************************************************************************)
(* Wrappers that allocate.                                                 *)
(***************************************************************************)

\* The pages some thread has given back and not unmarked yet.
LatePages == UNION { Marks!Bytes(op[t].range) :
                       t \in { u \in Thread : op[u].pc = "late" } }

\* The allocator returns p for a request of n, which is NULL when it fails.
AllocCall(t, f, p, n) ==
  /\ op[t] = Idle /\ Available(f)
  /\ n = 0 => Kind(f) = "kmalloc" /\ p = ZERO_SIZE_PTR /\ zero < MaxZero
  /\ n > 0 => \/ p = NULL /\ f \in MayFail
              \/ /\ p # NULL /\ Marks!Bytes(Span(p, n)) \subseteq Heap
                 /\ Marks!Bytes(Span(p, n)) \cap HeapBytes = {}
  /\ heap' = IF p \in {NULL, ZERO_SIZE_PTR} THEN heap ELSE heap \cup {Span(p, n)}
  /\ op' = [op EXCEPT ![t] = [pc |-> "mark", wrapper |-> f, range |-> Span(p, n)]]
  /\ overtaken' = (overtaken \/ (p \in Heap /\ Marks!Bytes(Span(p, n)) \cap LatePages # {}))
  /\ NoMark /\ UNCHANGED <<held, zero, image, boot>>

\* The result is marked and returned to the caller.
AllocMark(t) ==
  /\ op[t].pc = "mark"
  /\ LET f == op[t].wrapper
         p == op[t].range.m_Address
         n == op[t].range.m_Size
     IN  /\ MarkAlloc(f, p, n)
         /\ held' = IF p \in Heap
                    THEN held \cup {[m_Address |-> p, m_Size |-> n, kind |-> Kind(f)]}
                    ELSE held
         /\ zero' = IF p = ZERO_SIZE_PTR THEN zero + 1 ELSE zero
  /\ op' = [op EXCEPT ![t] = Idle]
  /\ UNCHANGED <<heap, image, boot, overtaken>>

-----------------------------------------------------------------------------
(***************************************************************************)
(* Wrappers that unmark and then give back.                                *)
(***************************************************************************)

FreeCall(t, f, o) ==
  /\ op[t] = Idle /\ Available(f)
  /\ o \in held /\ o.kind = Kind(f)
  /\ held' = held \ {o}
  /\ MarkFree(f, o.m_Address, o.m_Size)
  /\ op' = [op EXCEPT ![t] = [pc |-> "give", range |-> HeldRange(o)]]
  /\ UNCHANGED <<heap, zero, image, boot, overtaken>>

FreeGive(t) ==
  /\ op[t].pc = "give"
  /\ heap' = heap \ {op[t].range}
  /\ op' = [op EXCEPT ![t] = Idle]
  /\ NoMark /\ UNCHANGED <<held, zero, image, boot, overtaken>>

\* kfree of ZERO_SIZE_PTR or of NULL: the allocator ignores both.
FreeNoMemory(t, p) ==
  /\ op[t] = Idle /\ Available("kfree") /\ "kfree" \in Wrapper
  /\ \/ p = NULL /\ UNCHANGED zero
     \/ p = ZERO_SIZE_PTR /\ zero > 0 /\ zero' = zero - 1
  /\ Marks!Free(p)
  /\ UNCHANGED <<heap, held, op, image, boot, overtaken>>

-----------------------------------------------------------------------------
(***************************************************************************)
(* The image: reserved as one range, given back page by page, each page    *)
(* unmarked after it was given back.                                       *)
(***************************************************************************)
\* reserve_bootmem of the image, before any thread but the first runs.
ReserveImage ==
  LET first == CHOOSE a \in Image : \A b \in Image : a <= b
  IN  /\ boot = "start"
      /\ Marks!Alloc(first, Cardinality(Image))
      /\ heap' = { Span(a, 1) : a \in Image }
      /\ image' = Image
      /\ boot' = "bootmem"
      /\ UNCHANGED <<held, zero, op, overtaken>>

\* free_all_bootmem_core is called when no other thread runs yet.
FreeAllBootmem ==
  /\ boot = "bootmem"
  /\ \A t \in Thread : op[t] = Idle
  /\ boot' = "free_all_bootmem"
  /\ NoMark /\ UNCHANGED <<heap, held, zero, op, image, overtaken>>

\* The rest of the loop that InitThread is in.
PagesLeft == image \cap (IF boot = "done" THEN InitPages ELSE BitmapPages)

LateGive ==
  /\ op[InitThread].pc \in {"idle", "loop"}
  /\ \E page \in PagesLeft :
       /\ \A q \in PagesLeft : page <= q
       /\ image' = image \ {page}
       /\ heap' = heap \ {Span(page, 1)}
       /\ op' = [op EXCEPT ![InitThread] =
                    [pc |-> "late", range |-> Span(page, 1)]]
  /\ NoMark /\ UNCHANGED <<held, zero, boot, overtaken>>

LateMark ==
  LET page == op[InitThread].range
  IN  /\ op[InitThread].pc = "late"
      /\ Marks!FreeAnySize(page.m_Address, page.m_Size)
      /\ op' = [op EXCEPT ![InitThread] =
                   IF PagesLeft = {} THEN Idle ELSE [pc |-> "loop"]]
      /\ UNCHANGED <<heap, held, zero, image, boot, overtaken>>

\* The loop of free_all_bootmem_core over the pages of the bitmap ...
FreeBitmapPage == boot = "free_all_bootmem" /\ LateGive

FreeAllBootmemDone ==
  /\ boot = "free_all_bootmem" /\ PagesLeft = {}
  /\ \A t \in Thread : op[t] = Idle
  /\ boot' = "done"
  /\ NoMark /\ UNCHANGED <<heap, held, zero, op, image, overtaken>>

\* ... and of free_init_pages over those of the init section, when other
\* threads run.
FreeInitPage ==
  boot = "done" /\ "free_init_pages" \in Wrapper /\ LateGive

-----------------------------------------------------------------------------
Init ==
  /\ Marks!Init
  /\ heap = {} /\ held = {} /\ zero = 0
  /\ op = [t \in Thread |-> Idle]
  /\ image = {}
  /\ boot = "start"
  /\ overtaken = FALSE

Next ==
  \/ ReserveImage
  \/ FreeAllBootmem
  \/ FreeAllBootmemDone
  \/ FreeBitmapPage
  \/ FreeInitPage
  \/ LateMark
  \/ \E t \in Thread :
       \/ \E f \in AllocWrapper, n \in Size, p \in Heap \cup {NULL, ZERO_SIZE_PTR} :
            AllocCall(t, f, p, n)
       \/ AllocMark(t)
       \/ \E f \in FreeWrapper, o \in held : FreeCall(t, f, o)
       \/ FreeGive(t)
       \/ \E p \in {NULL, ZERO_SIZE_PTR} : FreeNoMemory(t, p)

Spec == Init /\ [][Next]_heapVars

-----------------------------------------------------------------------------
(***************************************************************************)
(* Properties.                                                             *)
(***************************************************************************)

\* Every allocation a client holds is marked, as it was handed out: its
\* accesses are in bounds and its free is accepted, as long as no page was
\* handed out between being given back and being unmarked.
HeldIsMarked == ~overtaken => \A o \in held : HeldRange(o) \in objects

\* Whatever is marked is memory the allocator has handed out, or names no
\* memory at all: once a free is complete, an access to what was freed is out
\* of bounds.
FreeIsUnmarked ==
  ~overtaken => \A o \in objects :
    \/ o.m_Address \in {NULL, ZERO_SIZE_PTR}
    \/ Marks!Bytes(o) \subseteq HeapBytes \cup LatePages

\* A correct guest is reported only for marking NULL or ZERO_SIZE_PTR, for
\* unmarking ZERO_SIZE_PTR, or after a page was handed out before its late mark.
ReportsExplained ==
  [][ ret' = 1 /\ ~overtaken =>
        \/ zero' < zero
        \/ \E t \in Thread : /\ op[t].pc = "mark" /\ op'[t] = Idle
                             /\ op[t].range.m_Address \in {NULL, ZERO_SIZE_PTR}
    ]_heapVars
=============================================================================
