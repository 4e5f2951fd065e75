--------------------------- MODULE GuestHeapProofs ---------------------------
(***************************************************************************)
(* Proofs about the allocator wrappers of the guest kernel, for every heap *)
(* and kernel image, any number of threads and any of the wrappers but     *)
(* free_bootmem, which unmarks a physical address.                         *)
(*                                                                         *)
(* HInv says who owns each range that the allocator has handed out (a      *)
(* client, a thread inside a wrapper, or the image), that no two owners    *)
(* share a byte, and that the marks are those of what clients hold, pieces *)
(* that cover what is left of the image, and marks that name no memory.    *)
(***************************************************************************)
EXTENDS GuestHeap, FiniteSetTheorems, TLAPS

\* Marks of a failed allocation and of one of size zero.
Junk == { Span(NULL, n) : n \in Size } \cup {Span(ZERO_SIZE_PTR, 0)}

\* Ranges of memory.
Memory == { x \in [m_Address : Heap, m_Size : Nat \ {0}] : Marks!Bytes(x) \subseteq Heap }

Reserved == image \cup LatePages

Piece(x) == x \in Memory /\ Marks!Bytes(x) \subseteq Reserved

Owns(t) == op[t].pc \in {"mark", "give"} /\ op[t].range \in heap

OpsOK ==
  /\ op = [t \in Thread |-> op[t]]
  /\ \A t \in Thread :
       /\ op[t].pc = "mark" => op[t].range \in Junk \cup heap
       /\ op[t].pc = "give" => op[t].range \in heap
       /\ op[t].pc = "late" =>
            \E a \in Image : op[t].range = Span(a, 1) /\ a \notin HeapBytes
       /\ op[t].pc \in {"late", "loop"} => t = InitThread

HeapOK ==
  /\ heap \subseteq Memory
  /\ \A x, y \in heap : x # y => Marks!Bytes(x) \cap Marks!Bytes(y) = {}

OwnersOK ==
  /\ \A o \in held : HeldRange(o) \in heap
  /\ \A o, q \in held : o # q => HeldRange(o) # HeldRange(q)
  /\ \A t \in Thread, o \in held : Owns(t) => op[t].range # HeldRange(o)
  /\ \A t, u \in Thread : t # u /\ Owns(t) /\ Owns(u) => op[t].range # op[u].range
  /\ image \subseteq Image
  /\ \A a \in image : /\ Span(a, 1) \in heap
                      /\ \A o \in held : HeldRange(o) # Span(a, 1)
                      /\ \A t \in Thread : Owns(t) => op[t].range # Span(a, 1)

MarksOK ==
  /\ \A o \in held : HeldRange(o) \in objects
  /\ \A x \in objects : x \in Junk \/ (\E o \in held : x = HeldRange(o)) \/ Piece(x)
  /\ \A a \in Reserved : \E x \in objects : a \in Marks!Bytes(x)
  /\ \A x, y \in objects :
       Piece(x) /\ Piece(y) /\ x # y => Marks!Bytes(x) \cap Marks!Bytes(y) = {}

StartOK ==
  boot = "start" => /\ objects = {} /\ heap = {} /\ held = {} /\ image = {}
                    /\ \A t \in Thread : op[t].pc = "idle"

Core == OpsOK /\ HeapOK /\ OwnersOK /\ MarksOK /\ StartOK

HInv == zero \in Nat /\ (~overtaken => Core)

-----------------------------------------------------------------------------
(***************************************************************************)
(* The bytes of ranges.                                                    *)
(***************************************************************************)

\* Memory has at least one byte, and its bytes are in the heap.
LEMMA MemoryBytes ==
  ASSUME NEW x \in Memory
  PROVE  /\ x.m_Address \in Heap /\ x.m_Address \in Nat
         /\ x.m_Address # NULL /\ x.m_Address # ZERO_SIZE_PTR
         /\ x.m_Size \in Nat /\ x.m_Size > 0
         /\ Marks!Bytes(x) = x.m_Address .. (x.m_Address + x.m_Size - 1)
         /\ x.m_Address \in Marks!Bytes(x) /\ Marks!Bytes(x) \subseteq Heap
         /\ x = Span(x.m_Address, x.m_Size)
  <1>1. /\ x \in [m_Address : Heap, m_Size : Nat \ {0}]
        /\ Marks!Bytes(x) \subseteq Heap
    BY Zenon DEF Memory
  <1>2. x.m_Address \in Heap /\ x.m_Size \in Nat /\ x.m_Size # 0 /\ x = Span(x.m_Address, x.m_Size)
    BY <1>1, Zenon DEF Span
  <1>3. x.m_Address \in Nat /\ x.m_Address # NULL /\ x.m_Address # ZERO_SIZE_PTR
    BY <1>2, HeapAssumption, ZenonT(60)
  <1>4. Marks!Bytes(x) = x.m_Address .. (x.m_Address + x.m_Size - 1)
    BY <1>2, Zenon DEF Marks!Bytes
  <1>5. x.m_Address \in Marks!Bytes(x) /\ x.m_Size > 0
    BY <1>2, <1>3, <1>4
  <1> QED
    BY <1>1, <1>2, <1>3, <1>4, <1>5, Zenon

\* A mark of no memory has no byte of the heap.
LEMMA JunkBytes ==
  ASSUME NEW x \in Junk
  PROVE  /\ \A b \in Marks!Bytes(x) : b \notin Heap
         /\ x.m_Address \in {NULL, ZERO_SIZE_PTR} /\ x.m_Address \notin Heap
  <1>0. /\ Heap \subseteq Nat \ {0, 1} /\ Size \subseteq Nat
        /\ \A a \in Heap, n \in Size : n <= a
    BY HeapAssumption, Zenon DEF NULL, ZERO_SIZE_PTR
  <1>1. CASE x = Span(ZERO_SIZE_PTR, 0)
    <2>1. x.m_Address = 1 /\ x.m_Size = 0
      BY <1>1, Zenon DEF Span, ZERO_SIZE_PTR
    <2> QED
      BY <1>0, <2>1 DEF Marks!Bytes, ZERO_SIZE_PTR
  <1>2. ASSUME NEW n \in Size, x = Span(NULL, n)
        PROVE  /\ \A b \in Marks!Bytes(x) : b \notin Heap
               /\ x.m_Address \in {NULL, ZERO_SIZE_PTR} /\ x.m_Address \notin Heap
    <2>1. x.m_Address = 0 /\ x.m_Size = n
      BY <1>2, Zenon DEF Span, NULL
    <2>2. ASSUME NEW b \in Marks!Bytes(x), b \in Heap PROVE FALSE
      <3>1. b \in Nat \ {0, 1} /\ n <= b /\ n \in Nat
        BY <1>0, <2>2, Zenon
      <3> QED
        BY <2>1, <2>2, <3>1 DEF Marks!Bytes
    <2> QED
      BY <1>0, <2>1, <2>2, Zenon DEF NULL
  <1> QED
    BY <1>1, <1>2, Zenon DEF Junk

\* A page of the heap is a range of one byte.
LEMMA PageBytes ==
  ASSUME NEW a \in Heap
  PROVE  /\ Span(a, 1).m_Address = a /\ Span(a, 1).m_Size = 1
         /\ Marks!Bytes(Span(a, 1)) = {a}
         /\ Span(a, 1) \in Memory
  <1>1. a \in Nat
    BY HeapAssumption, Zenon
  <1>2. Span(a, 1).m_Address = a /\ Span(a, 1).m_Size = 1
    BY Zenon DEF Span
  <1>3. Marks!Bytes(Span(a, 1)) = {a}
    BY <1>1, <1>2 DEF Marks!Bytes
  <1>4. Span(a, 1) \in [m_Address : Heap, m_Size : Nat \ {0}]
    BY DEF Span
  <1> QED
    BY <1>2, <1>3, <1>4, Zenon DEF Memory

LEMMA ImageInHeap == \A a \in Image : a \in Heap
  BY HeapAssumption, Zenon DEF Image

\* Only the thread that frees the image has a page given back and not unmarked.
LEMMA LateIs ==
  ASSUME OpsOK
  PROVE  \A a : a \in LatePages <=> /\ op[InitThread].pc = "late"
                                    /\ a \in Marks!Bytes(op[InitThread].range)
  BY HeapAssumption, Zenon DEF OpsOK, LatePages

\* The owners of memory and of marks share no byte.
LEMMA Separate ==
  ASSUME Core
  PROVE  /\ \A a \in Reserved : a \in Heap
         /\ \A a \in LatePages : a \in Image /\ a \notin HeapBytes
         /\ \A o \in held, y \in objects : \A b \in Marks!Bytes(HeldRange(o)) :
              b \in Marks!Bytes(y) => y = HeldRange(o)
         /\ \A t \in Thread, y \in objects : \A b \in Marks!Bytes(op[t].range) :
              Owns(t) => b \notin Marks!Bytes(y)
         /\ \A a \in Reserved, y \in objects : a \in Marks!Bytes(y) => Piece(y)
         /\ \A o \in held : \A b \in Marks!Bytes(HeldRange(o)) : b \notin Reserved
  <1>0. OpsOK /\ HeapOK /\ OwnersOK /\ MarksOK
    BY Zenon DEF Core
  <1>1. \A a \in LatePages : a \in Image /\ a \notin HeapBytes
    <2> SUFFICES ASSUME NEW a \in LatePages PROVE a \in Image /\ a \notin HeapBytes
      BY Zenon
    <2>1. op[InitThread].pc = "late" /\ a \in Marks!Bytes(op[InitThread].range)
      BY <1>0, LateIs, Zenon
    <2>2. PICK b \in Image : op[InitThread].range = Span(b, 1) /\ b \notin HeapBytes
      BY <1>0, <2>1, HeapAssumption, Zenon DEF OpsOK
    <2>3. a = b
      BY <2>1, <2>2, PageBytes, ImageInHeap, Zenon
    <2> QED
      BY <2>2, <2>3, Zenon
  <1>2. \A a \in Reserved : a \in Heap
    BY <1>0, <1>1, ImageInHeap, Zenon DEF Reserved, OwnersOK
  <1>3. ASSUME NEW x \in heap, \A a \in image : x # Span(a, 1), NEW b \in Marks!Bytes(x)
        PROVE  b \notin Reserved
    <2>1. b \in HeapBytes
      BY Zenon DEF HeapBytes
    <2>2. ASSUME b \in image PROVE FALSE
      <3>1. Span(b, 1) \in heap /\ x # Span(b, 1) /\ b \in Marks!Bytes(Span(b, 1))
        BY <1>0, <1>2, <1>3, <2>2, PageBytes, Zenon DEF OwnersOK, Reserved
      <3> QED
        BY <1>0, <1>3, <3>1, Zenon DEF HeapOK
    <2> QED
      BY <1>1, <2>1, <2>2, Zenon DEF Reserved
  <1>4. ASSUME NEW x \in heap, \A a \in image : x # Span(a, 1), NEW b \in Marks!Bytes(x),
               NEW y \in objects, b \in Marks!Bytes(y)
        PROVE  \E o \in held : y = HeldRange(o) /\ y = x
    <2>1. b \in Heap
      BY <1>0, <1>4, MemoryBytes, Zenon DEF HeapOK
    <2>2. y \notin Junk
      BY <1>4, <2>1, JunkBytes, Zenon
    <2>3. ~Piece(y)
      BY <1>3, <1>4, Zenon DEF Piece
    <2>4. PICK o \in held : y = HeldRange(o)
      BY <1>0, <2>2, <2>3, Zenon DEF MarksOK
    <2>5. y \in heap
      BY <1>0, <2>4, Zenon DEF OwnersOK
    <2> QED
      BY <1>0, <1>4, <2>4, <2>5, Zenon DEF HeapOK
  <1>5. ASSUME NEW o \in held, NEW y \in objects, NEW b \in Marks!Bytes(HeldRange(o)),
               b \in Marks!Bytes(y)
        PROVE  y = HeldRange(o)
    <2>1. HeldRange(o) \in heap /\ \A a \in image : HeldRange(o) # Span(a, 1)
      BY <1>0, Zenon DEF OwnersOK
    <2> QED
      BY <1>4, <1>5, <2>1, Zenon
  <1>6. ASSUME NEW t \in Thread, NEW y \in objects, NEW b \in Marks!Bytes(op[t].range),
               Owns(t), b \in Marks!Bytes(y)
        PROVE  FALSE
    <2>1. op[t].range \in heap /\ \A a \in image : op[t].range # Span(a, 1)
      BY <1>0, <1>6, Zenon DEF OwnersOK, Owns
    <2>2. PICK o \in held : y = HeldRange(o) /\ y = op[t].range
      BY <1>4, <1>6, <2>1, Zenon
    <2> QED
      BY <1>0, <1>6, <2>2, ZenonT(60) DEF OwnersOK
  <1>7. ASSUME NEW a \in Reserved, NEW y \in objects, a \in Marks!Bytes(y)
        PROVE  Piece(y)
    <2>1. y \notin Junk
      BY <1>2, <1>7, JunkBytes, Zenon
    <2>2. ASSUME NEW o \in held, y = HeldRange(o) PROVE FALSE
      <3>1. y \in heap /\ \A c \in image : y # Span(c, 1)
        BY <1>0, <2>2, Zenon DEF OwnersOK
      <3> QED
        BY <1>3, <1>7, <3>1, Zenon
    <2> QED
      BY <1>0, <2>1, <2>2, Zenon DEF MarksOK
  <1>8. ASSUME NEW o \in held, NEW b \in Marks!Bytes(HeldRange(o))
        PROVE  b \notin Reserved
    BY <1>0, <1>3, Zenon DEF OwnersOK
  <1> QED
    BY <1>1, <1>2, <1>5, <1>6, <1>7, <1>8, Zenon

-----------------------------------------------------------------------------
(***************************************************************************)
(* Each step preserves Core, unless it is one that overtakes a late mark.  *)
(***************************************************************************)

\* A step of one thread.
LEMMA OpStep ==
  ASSUME OpsOK, NEW t \in Thread, NEW w, op' = [op EXCEPT ![t] = w]
  PROVE  /\ op' = [u \in Thread |-> op'[u]]
         /\ op'[t] = w /\ \A u \in Thread : u # t => op'[u] = op[u]
         /\ op[t].pc # "late" /\ w.pc # "late" => LatePages' = LatePages
  <1>1. op = [u \in Thread |-> op[u]]
    BY Zenon DEF OpsOK
  <1>2. /\ op' = [u \in Thread |-> op'[u]]
        /\ op'[t] = w /\ \A u \in Thread : u # t => op'[u] = op[u]
    BY <1>1, Zenon
  <1>3. op[t].pc # "late" /\ w.pc # "late" => LatePages' = LatePages
    BY <1>2 DEF LatePages
  <1> QED
    BY <1>2, <1>3, Zenon

\* A step that changes neither memory nor marks.
LEMMA StillCore ==
  ASSUME Core, UNCHANGED <<objects, heap, held, image, op>>, boot' = boot \/ boot' # "start"
  PROVE  Core'
  <1>1. OpsOK' /\ HeapOK' /\ OwnersOK'
    BY Zenon DEF Core, OpsOK, HeapOK, OwnersOK, Owns, HeapBytes
  <1>2. MarksOK' /\ StartOK'
    BY DEF Core, MarksOK, StartOK, Piece, Reserved, LatePages
  <1> QED
    BY <1>1, <1>2, Zenon DEF Core

\* kfree of no memory takes off no mark of memory.
LEMMA FreeNoMemoryCore ==
  ASSUME Core, NEW t \in Thread, NEW p \in {NULL, ZERO_SIZE_PTR}, FreeNoMemory(t, p)
  PROVE  Core'
  <1>0. OpsOK /\ HeapOK /\ OwnersOK /\ MarksOK
    BY Zenon DEF Core
  <1>1. UNCHANGED <<heap, held, op, image, boot>> /\ Marks!Free(p) /\ boot = "done"
    BY Zenon DEF FreeNoMemory, Available, Kind
  <1>2. OpsOK' /\ HeapOK' /\ OwnersOK'
    BY <1>0, <1>1, Zenon DEF OpsOK, HeapOK, OwnersOK, Owns, HeapBytes
  <1>3. /\ objects' \subseteq objects
        /\ \A x \in objects : x \notin objects' => p \in Marks!Bytes(x)
    BY <1>1, Zenon DEF Marks!Free, Marks!FreeNothing
  <1>4. p \notin Heap
    BY HeapAssumption, ZenonT(60)
  <1>5. \A x \in objects : x \in Memory => x \in objects'
    BY <1>3, <1>4, MemoryBytes, Zenon
  <1>6. Reserved' = Reserved /\ \A x : Piece(x)' <=> Piece(x)
    BY <1>1, Zenon DEF Reserved, LatePages, Piece
  <1>7. MarksOK'
    <2>1. \A o \in held : HeldRange(o) \in objects'
      BY <1>0, <1>5, Zenon DEF MarksOK, OwnersOK, HeapOK
    <2>2. \A a \in Reserved : \E x \in objects' : a \in Marks!Bytes(x)
      BY <1>0, <1>5, Separate, Zenon DEF MarksOK, Piece
    <2> QED
      BY <1>0, <1>1, <1>3, <1>6, <2>1, <2>2, Zenon DEF MarksOK
  <1> QED
    BY <1>1, <1>2, <1>7, Zenon DEF Core, StartOK

\* What the allocator returns: no memory, or memory it had not handed out.
LEMMA AllocReturns ==
  ASSUME NEW t \in Thread, NEW f \in AllocWrapper, NEW n \in Size,
         NEW p \in Heap \cup {NULL, ZERO_SIZE_PTR}, AllocCall(t, f, p, n)
  PROVE  \/ Span(p, n) \in Junk /\ heap' = heap
         \/ /\ p \in Heap /\ Span(p, n) \in Memory /\ heap' = heap \cup {Span(p, n)}
            /\ Marks!Bytes(Span(p, n)) \cap HeapBytes = {}
  <1>0. n \in Nat /\ Heap \subseteq Nat \ {0, 1} /\ NULL = 0 /\ ZERO_SIZE_PTR = 1
    BY HeapAssumption, Zenon DEF NULL, ZERO_SIZE_PTR
  <1>1. /\ n = 0 => p = ZERO_SIZE_PTR
        /\ n > 0 => \/ p = NULL
                    \/ /\ p # NULL /\ Marks!Bytes(Span(p, n)) \subseteq Heap
                       /\ Marks!Bytes(Span(p, n)) \cap HeapBytes = {}
        /\ heap' = IF p \in {NULL, ZERO_SIZE_PTR} THEN heap ELSE heap \cup {Span(p, n)}
    BY Zenon DEF AllocCall
  <1>2. CASE n = 0
    BY <1>0, <1>1, <1>2, Zenon DEF Junk
  <1>3. CASE n > 0 /\ p = NULL
    BY <1>0, <1>1, <1>3, Zenon DEF Junk
  <1>4. CASE n > 0 /\ p # NULL
    <2>1. p \in Marks!Bytes(Span(p, n))
      <3>1. Span(p, n).m_Address = p /\ Span(p, n).m_Size = n /\ p \in Nat
        BY <1>0 DEF Span
      <3> QED
        BY <1>0, <1>4, <3>1 DEF Marks!Bytes
    <2>2. p \in Heap /\ p \notin {NULL, ZERO_SIZE_PTR}
      BY <1>0, <1>1, <1>4, <2>1, Zenon
    <2>3. Span(p, n) \in [m_Address : Heap, m_Size : Nat \ {0}]
      BY <1>0, <1>4, <2>2 DEF Span
    <2> QED
      BY <1>1, <1>4, <2>2, <2>3, Zenon DEF Memory
  <1> QED
    BY <1>0, <1>2, <1>3, <1>4

LEMMA JunkIsNoMemory == \A x \in Junk : x \notin Memory
  BY JunkBytes, MemoryBytes, Zenon

\* A call of the allocator gives memory to the thread, with no other owner.
LEMMA AllocCallCore ==
  ASSUME Core, ~overtaken', NEW t \in Thread, NEW f \in AllocWrapper, NEW n \in Size,
         NEW p \in Heap \cup {NULL, ZERO_SIZE_PTR}, AllocCall(t, f, p, n)
  PROVE  Core'
  <1> DEFINE x == Span(p, n)
             w == [pc |-> "mark", wrapper |-> f, range |-> x]
  <1>0. OpsOK /\ HeapOK /\ OwnersOK /\ MarksOK
    BY Zenon DEF Core
  <1>1. /\ op[t] = Idle /\ op' = [op EXCEPT ![t] = w] /\ UNCHANGED <<objects, held, image, boot>>
        /\ p \in Heap => Marks!Bytes(x) \cap LatePages = {}
    BY ZenonT(60) DEF AllocCall, NoMark
  <1>2. boot # "start"
    BY Zenon DEF AllocCall, Available
  <1>3. op[t].pc = "idle" /\ w.pc = "mark" /\ w.range = x
    BY <1>1 DEF Idle
  <1>4. /\ op' = [u \in Thread |-> op'[u]]
        /\ op'[t] = w /\ \A u \in Thread : u # t => op'[u] = op[u]
        /\ LatePages' = LatePages
    BY <1>0, <1>1, <1>3, OpStep, ZenonT(60)
  <1>5. Reserved' = Reserved /\ \A y : Piece(y)' <=> Piece(y)
    BY <1>1, <1>4, Zenon DEF Reserved, Piece
  <1>6. MarksOK'
    BY <1>0, <1>1, <1>5, Zenon DEF MarksOK
  <1> HIDE DEF x, w
  <1>7. CASE x \in Junk /\ heap' = heap
    <2>1. HeapOK' /\ HeapBytes' = HeapBytes
      BY <1>0, <1>7, Zenon DEF HeapOK, HeapBytes
    <2>2. x \notin heap'
      BY <1>0, <1>7, JunkIsNoMemory, Zenon DEF HeapOK
    <2>3. ~Owns(t)' /\ \A u \in Thread : u # t => (Owns(u)' <=> Owns(u))
      BY <1>3, <1>4, <1>7, <2>2, Zenon DEF Owns
    <2>4. OwnersOK'
      BY <1>0, <1>1, <1>4, <1>7, <2>3 DEF OwnersOK
    <2>5. OpsOK'
      BY <1>0, <1>3, <1>4, <1>7, <2>1, Zenon DEF OpsOK
    <2> QED
      BY <1>1, <1>2, <1>6, <2>1, <2>4, <2>5, Zenon DEF Core, StartOK
  <1>8. CASE /\ p \in Heap /\ x \in Memory /\ heap' = heap \cup {x}
             /\ Marks!Bytes(x) \cap HeapBytes = {}
    <2>1. /\ \A b : b \in HeapBytes' <=> b \in HeapBytes \/ b \in Marks!Bytes(x)
          /\ \A y \in heap : Marks!Bytes(x) \cap Marks!Bytes(y) = {}
      BY <1>8, Zenon DEF HeapBytes
    <2>2. x \notin heap
      BY <1>8, <2>1, MemoryBytes, Zenon
    <2>3. HeapOK'
      BY <1>0, <1>8, <2>1, Zenon DEF HeapOK
    <2>4. x \notin Junk
      BY <1>8, JunkIsNoMemory, Zenon
    <2>5. \A u \in Thread : u # t => (Owns(u)' <=> Owns(u))
      BY <1>0, <1>4, <1>8, <2>2, <2>4 DEF Owns, OpsOK
    <2>6. \A u \in Thread : Owns(u) => op[u].range # x
      BY <2>2, Zenon DEF Owns
    <2>7. OwnersOK'
      BY <1>0, <1>1, <1>3, <1>4, <1>8, <2>2, <2>5, <2>6, SMTT(60) DEF OwnersOK
    <2>8. OpsOK'
      <3>1. ASSUME NEW u \in Thread, op'[u].pc = "late"
            PROVE  \E a \in Image : op'[u].range = Span(a, 1) /\ a \notin HeapBytes'
        <4>1. op'[u] = op[u] /\ u = InitThread
          BY <1>0, <1>3, <1>4, <3>1, Zenon DEF OpsOK
        <4>2. PICK a \in Image : op[u].range = Span(a, 1) /\ a \notin HeapBytes
          BY <1>0, <3>1, <4>1, Zenon DEF OpsOK
        <4>3. a \in LatePages
          BY <1>0, <3>1, <4>1, <4>2, LateIs, PageBytes, ImageInHeap
        <4> QED
          BY <1>1, <1>8, <2>1, <4>1, <4>2, <4>3, Zenon
      <3> QED
        BY <1>0, <1>3, <1>4, <1>8, <3>1, Zenon DEF OpsOK
    <2> QED
      BY <1>1, <1>2, <1>6, <2>3, <2>7, <2>8, Zenon DEF Core, StartOK
  <1> QED
    BY <1>7, <1>8, AllocReturns, Zenon DEF x

\* The thread marks what it was given, which no mark overlaps, and the client
\* holds it.
LEMMA AllocMarkCore ==
  ASSUME Core, NEW t \in Thread, AllocMark(t)
  PROVE  /\ Core'
         /\ ret' = 1 => op'[t] = Idle /\ op[t].range.m_Address \in {NULL, ZERO_SIZE_PTR}
  <1> DEFINE x == op[t].range
             f == op[t].wrapper
             h == [m_Address |-> x.m_Address, m_Size |-> x.m_Size, kind |-> Kind(f)]
  <1>0. OpsOK /\ HeapOK /\ OwnersOK /\ MarksOK
    BY Zenon DEF Core
  <1>1. /\ op[t].pc = "mark" /\ op' = [op EXCEPT ![t] = Idle] /\ UNCHANGED <<heap, image, boot>>
        /\ MarkAlloc(f, x.m_Address, x.m_Size)
        /\ held' = IF x.m_Address \in Heap THEN held \cup {h} ELSE held
    BY Zenon DEF AllocMark
  <1>2. boot # "start"
    BY <1>1, Zenon DEF Core, StartOK
  <1>3. Idle.pc = "idle"
    BY Zenon DEF Idle
  <1>4. /\ op' = [u \in Thread |-> op'[u]]
        /\ op'[t] = Idle /\ \A u \in Thread : u # t => op'[u] = op[u]
        /\ LatePages' = LatePages
    BY <1>0, <1>1, <1>3, OpStep, ZenonT(60)
  <1>5. Reserved' = Reserved /\ \A y : Piece(y)' <=> Piece(y)
    BY <1>1, <1>4, Zenon DEF Reserved, Piece
  <1>6. HeapOK' /\ HeapBytes' = HeapBytes
    BY <1>0, <1>1, Zenon DEF HeapOK, HeapBytes
  <1>7. OpsOK'
    BY <1>0, <1>1, <1>3, <1>4, <1>6, Zenon DEF OpsOK
  <1>8. ~Owns(t)' /\ \A u \in Thread : u # t => (Owns(u)' <=> Owns(u))
    BY <1>1, <1>3, <1>4, Zenon DEF Owns
  <1>9. x \in Junk \cup heap
    BY <1>0, <1>1, Zenon DEF OpsOK
  <1> HIDE DEF x, f, h
  <1>10. CASE x \in Junk
    <2>1. x.m_Address \in {NULL, ZERO_SIZE_PTR} /\ x.m_Address \notin Heap
      BY <1>10, JunkBytes, Zenon
    <2>2. held' = held
      BY <1>1, <2>1, Zenon
    <2>3. OwnersOK'
      BY <1>0, <1>1, <1>4, <1>8, <2>2 DEF OwnersOK
    <2>4. objects' = objects \/ objects' = objects \cup {x}
      <3>1. Marks!Object(x.m_Address, x.m_Size) = x
        BY <1>10 DEF Junk, Span, Marks!Object
      <3> QED
        BY <1>1, <3>1, Zenon DEF MarkAlloc, NoMark, Marks!Alloc
    <2>5. ~Piece(x)
      BY <1>10, JunkIsNoMemory, Zenon DEF Piece
    <2>6. MarksOK'
      BY <1>0, <1>5, <1>10, <2>2, <2>4, <2>5, Zenon DEF MarksOK
    <2> QED
      BY <1>1, <1>2, <1>4, <1>6, <1>7, <2>1, <2>3, <2>6, Zenon DEF Core, StartOK, x
  <1>11. CASE x \in heap
    <2>1. x \in Memory
      BY <1>0, <1>11, Zenon DEF HeapOK
    <2>2. /\ x.m_Address \in Heap /\ x.m_Address # NULL
          /\ x = Marks!Object(x.m_Address, x.m_Size)
      BY <2>1, MemoryBytes, Zenon DEF Marks!Object, Span
    <2>3. Owns(t)
      BY <1>1, <1>11, Zenon DEF Owns, x
    <2>4. \A y \in objects : ~Marks!Overlaps(y, x)
      BY <2>3, Separate, Zenon DEF Marks!Overlaps, x
    <2>5. objects' = objects \cup {x} /\ ret' = 0
      BY <1>1, <2>2, <2>4, Zenon DEF MarkAlloc, Marks!Alloc
    <2>6. HeldRange(h) = x /\ held' = held \cup {h}
      BY <1>1, <2>2, Zenon DEF HeldRange, Span, h, Marks!Object
    <2>7. OwnersOK'
      <3>1. /\ \A o \in held : HeldRange(o) # x
            /\ \A u \in Thread : u # t /\ Owns(u) => op[u].range # x
            /\ \A a \in image : x # Span(a, 1)
        BY <1>0, <2>3, Zenon DEF OwnersOK, x
      <3> QED
        BY <1>0, <1>1, <1>4, <1>8, <1>11, <2>6, <3>1 DEF OwnersOK
    <2>8. MarksOK'
      <3>1. ~Piece(x)
        <4>1. x.m_Address \in Marks!Bytes(x)
          BY <2>1, MemoryBytes, Zenon
        <4>2. ASSUME x.m_Address \in Reserved PROVE FALSE
          <5>1. PICK y \in objects : x.m_Address \in Marks!Bytes(y)
            BY <1>0, <4>2, Zenon DEF MarksOK
          <5> QED
            BY <2>4, <4>1, <5>1, Zenon DEF Marks!Overlaps
        <4> QED
          BY <4>1, <4>2, Zenon DEF Piece
      <3> QED
        BY <1>0, <1>5, <2>5, <2>6, <3>1, Zenon DEF MarksOK
    <2> QED
      BY <1>1, <1>2, <1>6, <1>7, <2>5, <2>7, <2>8 DEF Core, StartOK
  <1> QED
    BY <1>9, <1>10, <1>11, Zenon

\* A client gives memory back: exactly its mark is taken off, and not reported.
LEMMA FreeCallCore ==
  ASSUME Core, "free_bootmem" \notin Wrapper, NEW t \in Thread, NEW f \in FreeWrapper,
         NEW o \in held, FreeCall(t, f, o)
  PROVE  Core' /\ ret' = 0
  <1> DEFINE x == HeldRange(o)
             w == [pc |-> "give", range |-> x]
  <1>0. OpsOK /\ HeapOK /\ OwnersOK /\ MarksOK
    BY Zenon DEF Core
  <1>1. /\ op[t] = Idle /\ op' = [op EXCEPT ![t] = w] /\ UNCHANGED <<heap, image, boot>>
        /\ held' = held \ {o} /\ MarkFree(f, o.m_Address, o.m_Size)
    BY Zenon DEF FreeCall
  <1>2. boot # "start"
    BY Zenon DEF Core, StartOK
  <1>3. op[t].pc = "idle" /\ w.pc = "give" /\ w.range = x
    BY <1>1 DEF Idle
  <1>4. /\ op' = [u \in Thread |-> op'[u]]
        /\ op'[t] = w /\ \A u \in Thread : u # t => op'[u] = op[u]
        /\ LatePages' = LatePages
    BY <1>0, <1>1, <1>3, OpStep, ZenonT(60)
  <1>5. Reserved' = Reserved /\ \A y : Piece(y)' <=> Piece(y)
    BY <1>1, <1>4, Zenon DEF Reserved, Piece
  <1>6. HeapOK' /\ HeapBytes' = HeapBytes
    BY <1>0, <1>1, Zenon DEF HeapOK, HeapBytes
  <1>7. x \in heap /\ x \in Memory /\ x \in objects /\ x.m_Address = o.m_Address /\ x.m_Size = o.m_Size
    BY <1>0, Zenon DEF OwnersOK, HeapOK, MarksOK, HeldRange, Span
  <1>8. \A y \in objects : x.m_Address \in Marks!Bytes(y) => y = x
    BY <1>7, Separate, MemoryBytes, Zenon
  <1> HIDE DEF x, w
  <1> DEFINE p == x.m_Address
             n == x.m_Size
  <1>9. /\ p \in Nat /\ n \in Nat /\ p # 0 /\ p \in Marks!Bytes(x)
        /\ Marks!Below(x, p) = {} /\ Marks!From(x, p + n) = {}
    <2>1. p \in Nat /\ n \in Nat /\ p # 0 /\ p \in Marks!Bytes(x)
      BY <1>7, MemoryBytes, Zenon DEF NULL
    <2>2. ~(p > p) /\ ~(p + n < p + n)
      BY <2>1
    <2> QED
      BY <2>1, <2>2, Zenon DEF Marks!Below, Marks!From, Marks!Limit
  <1>10. objects' = objects \ {x} /\ ret' = 0
    <2>1. Marks!Free(p) \/ Marks!FreeAnySize(p, n) \/ Marks!FreeSize(p, n)
      <3>1. f # "free_bootmem"
        BY Zenon DEF FreeWrapper
      <3> QED
        BY <1>1, <1>7, <3>1, Zenon DEF MarkFree
    <2>2. ~Marks!FreeNothing(p)
      BY <1>7, <1>9, Zenon DEF Marks!FreeNothing
    <2>3. CASE Marks!Free(p)
      <3>1. PICK y \in objects :
              /\ p \in Marks!Bytes(y)
              /\ objects' = IF p = y.m_Address THEN objects \ {y} ELSE objects
              /\ ret' = IF p = y.m_Address THEN 0 ELSE 1
        BY <2>2, <2>3, Zenon DEF Marks!Free
      <3> QED
        BY <1>8, <3>1, Zenon
    <2>4. CASE Marks!FreeSize(p, n)
      <3>1. PICK y \in objects :
              /\ p \in Marks!Bytes(y)
              /\ objects' = IF p = y.m_Address /\ n <= y.m_Size
                            THEN (objects \ {y}) \cup Marks!From(y, p + n) ELSE objects
              /\ ret' = IF p = y.m_Address /\ n = y.m_Size THEN 0 ELSE 1
        BY <2>2, <2>4, Zenon DEF Marks!FreeSize
      <3>2. y = x /\ n <= n
        BY <1>8, <1>9, <3>1
      <3> QED
        BY <1>9, <3>1, <3>2, Zenon
    <2>5. CASE Marks!FreeAnySize(p, n)
      <3>1. PICK y \in objects :
              /\ p \in Marks!Bytes(y)
              /\ objects' = (objects \ {y}) \cup Marks!Below(y, p) \cup Marks!From(y, p + n)
              /\ ret' = 0
        BY <2>2, <2>5, Zenon DEF Marks!FreeAnySize
      <3> QED
        BY <1>8, <1>9, <3>1, Zenon
    <2> QED
      BY <2>1, <2>3, <2>4, <2>5, Zenon
  <1>11. OpsOK'
    BY <1>0, <1>1, <1>3, <1>4, <1>6, <1>7, Zenon DEF OpsOK
  <1>12. \A u \in Thread : u # t => (Owns(u)' <=> Owns(u))
    BY <1>1, <1>4, Zenon DEF Owns
  <1>13. OwnersOK'
    <2>1. /\ \A q \in held : q # o => HeldRange(q) # x
          /\ \A u \in Thread : Owns(u) => op[u].range # x
          /\ \A a \in image : x # Span(a, 1)
      BY <1>0, Zenon DEF OwnersOK, x
    <2> QED
      BY <1>0, <1>1, <1>3, <1>4, <1>7, <1>12, <2>1, SMTT(60) DEF OwnersOK
  <1>14. MarksOK'
    <2>1. \A q \in held' : HeldRange(q) \in objects'
      BY <1>0, <1>1, <1>10, Zenon DEF MarksOK, OwnersOK, x
    <2>2. \A a \in Reserved : \E y \in objects' : a \in Marks!Bytes(y)
      BY <1>0, <1>10, Separate, Zenon DEF MarksOK, x
    <2>3. \A y \in objects' : y \in Junk \/ (\E q \in held' : y = HeldRange(q)) \/ Piece(y)
      BY <1>0, <1>1, <1>10, Zenon DEF MarksOK, x
    <2> QED
      BY <1>0, <1>5, <1>10, <2>1, <2>2, <2>3, Zenon DEF MarksOK
  <1> QED
    BY <1>1, <1>2, <1>6, <1>10, <1>11, <1>13, <1>14, Zenon DEF Core, StartOK

\* The allocator takes the memory back.
LEMMA FreeGiveCore ==
  ASSUME Core, NEW t \in Thread, FreeGive(t)
  PROVE  Core'
  <1> DEFINE x == op[t].range
  <1>0. OpsOK /\ HeapOK /\ OwnersOK /\ MarksOK
    BY Zenon DEF Core
  <1>1. /\ op[t].pc = "give" /\ op' = [op EXCEPT ![t] = Idle] /\ heap' = heap \ {x}
        /\ UNCHANGED <<objects, held, image, boot>>
    BY Zenon DEF FreeGive, NoMark
  <1>2. boot # "start"
    BY <1>1, Zenon DEF Core, StartOK
  <1>3. Idle.pc = "idle"
    BY Zenon DEF Idle
  <1>4. /\ op' = [u \in Thread |-> op'[u]]
        /\ op'[t] = Idle /\ \A u \in Thread : u # t => op'[u] = op[u]
        /\ LatePages' = LatePages
    BY <1>0, <1>1, <1>3, OpStep, ZenonT(60)
  <1>5. Reserved' = Reserved /\ \A y : Piece(y)' <=> Piece(y)
    BY <1>1, <1>4, Zenon DEF Reserved, Piece
  <1>6. MarksOK'
    BY <1>0, <1>1, <1>5, Zenon DEF MarksOK
  <1>7. HeapOK' /\ HeapBytes' \subseteq HeapBytes
    BY <1>0, <1>1, Zenon DEF HeapOK, HeapBytes
  <1>8. Owns(t)
    BY <1>0, <1>1, Zenon DEF OpsOK, Owns
  <1>9. /\ \A o \in held : HeldRange(o) # x
        /\ \A u \in Thread : u # t /\ Owns(u) => op[u].range # x
        /\ \A a \in image : x # Span(a, 1)
    BY <1>0, <1>8, Zenon DEF OwnersOK
  <1>10. ~Owns(t)' /\ \A u \in Thread : u # t => (Owns(u)' <=> Owns(u))
    BY <1>1, <1>3, <1>4, <1>9, Zenon DEF Owns
  <1> HIDE DEF x
  <1>11. OwnersOK'
    BY <1>0, <1>1, <1>4, <1>9, <1>10 DEF OwnersOK
  <1>12. OpsOK'
    <2>1. ASSUME NEW u \in Thread, u # t, op[u].pc \in {"mark", "give"}, op[u].range \in heap
          PROVE  op[u].range \in heap'
      BY <1>1, <1>9, <2>1, Zenon DEF Owns
    <2> QED
      BY <1>0, <1>3, <1>4, <1>7, <2>1, Zenon DEF OpsOK
  <1> QED
    BY <1>1, <1>2, <1>6, <1>7, <1>11, <1>12, Zenon DEF Core, StartOK

\* The image is marked as one range, which has exactly its pages.
LEMMA ReserveImageCore ==
  ASSUME Core, ReserveImage
  PROVE  Core' /\ ret' = 0
  <1> DEFINE first == CHOOSE a \in Image : \A b \in Image : a <= b
             x == Marks!Object(first, Cardinality(Image))
  <1>1. /\ boot = "start" /\ Marks!Alloc(first, Cardinality(Image))
        /\ heap' = { Span(a, 1) : a \in Image } /\ image' = Image /\ boot' = "bootmem"
        /\ UNCHANGED <<held, op>>
    BY Zenon DEF ReserveImage
  <1>2. /\ OpsOK /\ objects = {} /\ held = {}
        /\ \A t \in Thread : op[t].pc = "idle"
    BY <1>1, Zenon DEF Core, StartOK
  <1>3. PICK lo \in Heap, hi \in Heap : Image = lo .. hi
    BY HeapAssumption, Zenon
  <1>4. lo \in Nat /\ hi \in Nat /\ lo <= hi
    BY <1>3, HeapAssumption
  <1>5. first = lo
    <2>1. lo \in Image /\ \A b \in Image : lo <= b
      BY <1>3, <1>4
    <2>2. first \in Image /\ \A b \in Image : first <= b
      BY <2>1, Zenon
    <2> HIDE DEF first
    <2>3. first \in Nat
      BY <1>3, <1>4, <2>2
    <2> QED
      BY <1>4, <2>1, <2>2, <2>3
  <1>6. Cardinality(Image) = hi - lo + 1
    <2>1. lo \in Int /\ hi \in Int /\ ~(lo > hi)
      BY <1>4
    <2>2. Cardinality(lo .. hi) = IF lo > hi THEN 0 ELSE hi - lo + 1
      BY <2>1, FS_Interval, Zenon
    <2> QED
      BY <1>3, <2>1, <2>2, Zenon
  <1> HIDE DEF first
  <1>7. x.m_Address = lo /\ x.m_Size = hi - lo + 1
    BY <1>5, <1>6, Zenon DEF Marks!Object
  <1>8. Marks!Bytes(x) = Image
    BY <1>3, <1>4, <1>7 DEF Marks!Bytes
  <1>9. x \in Memory
    <2>1. hi - lo + 1 \in Nat \ {0}
      BY <1>4
    <2>2. x \in [m_Address : Heap, m_Size : Nat \ {0}]
      BY <1>5, <1>6, <2>1, Zenon DEF Marks!Object
    <2> QED
      BY <1>8, <2>2, ImageInHeap, Zenon DEF Memory
  <1>10. objects' = {x} /\ ret' = 0
    BY <1>1, <1>2, Zenon DEF Marks!Alloc
  <1> HIDE DEF x
  <1>11. LatePages' = {}
    BY <1>1, <1>2, Zenon DEF LatePages
  <1>12. Reserved' = Image
    BY <1>1, <1>11, Zenon DEF Reserved
  <1>13. MarksOK'
    <2>1. Piece(x)'
      BY <1>8, <1>9, <1>12, Zenon DEF Piece
    <2> QED
      BY <1>1, <1>2, <1>8, <1>10, <1>12, <2>1, Zenon DEF MarksOK
  <1>14. HeapOK'
    BY <1>1, ImageInHeap, PageBytes DEF HeapOK
  <1>15. OpsOK' /\ OwnersOK'
    BY <1>1, <1>2, Zenon DEF OpsOK, OwnersOK, Owns
  <1> QED
    BY <1>1, <1>10, <1>13, <1>14, <1>15, Zenon DEF Core, StartOK

\* A page of the image is given back, and stays marked.
LEMMA LateGiveCore ==
  ASSUME Core, LateGive
  PROVE  Core'
  <1>0. OpsOK /\ HeapOK /\ OwnersOK /\ MarksOK
    BY Zenon DEF Core
  <1>1. PICK page \in image :
          /\ image' = image \ {page} /\ heap' = heap \ {Span(page, 1)}
          /\ op' = [op EXCEPT ![InitThread] = [pc |-> "late", range |-> Span(page, 1)]]
    BY ZenonT(60) DEF LateGive, PagesLeft
  <1>2. op[InitThread].pc \in {"idle", "loop"} /\ UNCHANGED <<objects, held, boot>>
    BY Zenon DEF LateGive, NoMark
  <1>3. boot # "start"
    BY <1>1, Zenon DEF Core, StartOK
  <1> DEFINE x == Span(page, 1)
             w == [pc |-> "late", range |-> x]
  <1>4. page \in Image /\ page \in Heap /\ x \in heap /\ Marks!Bytes(x) = {page}
    BY <1>0, ImageInHeap, PageBytes, Zenon DEF OwnersOK
  <1>5. InitThread \in Thread /\ w.pc = "late" /\ w.range = x
    BY HeapAssumption, Zenon
  <1>6. /\ op' = [u \in Thread |-> op'[u]]
        /\ op'[InitThread] = w /\ \A u \in Thread : u # InitThread => op'[u] = op[u]
    BY <1>0, <1>1, <1>5, OpStep, ZenonT(60)
  <1>7. /\ \A o \in held : HeldRange(o) # x
        /\ \A u \in Thread : Owns(u) => op[u].range # x
        /\ \A a \in image' : x # Span(a, 1)
    <2>1. \A a \in image' : x # Span(a, 1)
      BY <1>1, <1>4, Zenon DEF Span
    <2> QED
      BY <1>0, <2>1, Zenon DEF OwnersOK
  <1> HIDE DEF x, w
  <1>8. LatePages = {}
    BY <1>0, <1>2, LateIs, Zenon
  <1>9. LatePages' = {page}
    <2>1. { u \in Thread : op'[u].pc = "late" } = {InitThread}
      BY <1>0, <1>5, <1>6, Zenon DEF OpsOK
    <2> QED
      BY <1>4, <1>5, <1>6, <2>1 DEF LatePages
  <1>10. Reserved' = Reserved /\ \A y : Piece(y)' <=> Piece(y)
    BY <1>1, <1>8, <1>9, Zenon DEF Reserved, Piece
  <1>11. MarksOK'
    BY <1>0, <1>2, <1>10, Zenon DEF MarksOK
  <1>12. HeapOK' /\ HeapBytes' \subseteq HeapBytes /\ page \notin HeapBytes'
    BY <1>0, <1>1, <1>4 DEF HeapOK, HeapBytes, x
  <1>13. ~Owns(InitThread)' /\ \A u \in Thread : u # InitThread => (Owns(u)' <=> Owns(u))
    BY <1>1, <1>5, <1>6, <1>7, Zenon DEF Owns, x
  <1>14. OwnersOK'
    BY <1>0, <1>1, <1>2, <1>6, <1>7, <1>13, SMTT(60) DEF OwnersOK, x
  <1>15. OpsOK'
    <2>1. ASSUME NEW u \in Thread, u # InitThread, op[u].pc \in {"mark", "give"},
                 op[u].range \in heap
          PROVE  op[u].range \in heap'
      BY <1>1, <1>7, <2>1, Zenon DEF Owns, x
    <2>2. op'[InitThread].range = Span(page, 1)
      BY <1>5, <1>6, Zenon DEF x
    <2> QED
      BY <1>0, <1>4, <1>5, <1>6, <1>12, <2>1, <2>2, Zenon DEF OpsOK
  <1> QED
    BY <1>2, <1>3, <1>11, <1>12, <1>14, <1>15, Zenon DEF Core, StartOK

\* Taking a page off a range leaves its other bytes, in ranges of their own.
LEMMA Parts ==
  ASSUME NEW x \in Memory, NEW a \in Marks!Bytes(x)
  PROVE  /\ \A z \in Marks!Below(x, a) \cup Marks!From(x, a + 1) :
              /\ z \in Memory
              /\ \A b \in Marks!Bytes(z) : b \in Marks!Bytes(x) /\ b # a
         /\ \A b \in Marks!Bytes(x) : b # a =>
              \E z \in Marks!Below(x, a) \cup Marks!From(x, a + 1) : b \in Marks!Bytes(z)
         /\ \A y, z \in Marks!Below(x, a) \cup Marks!From(x, a + 1) :
              y # z => Marks!Bytes(y) \cap Marks!Bytes(z) = {}
  <1> DEFINE p == x.m_Address
             n == x.m_Size
             l == Marks!Object(p, a - p)
             r == Marks!Object(a + 1, p + n - (a + 1))
  <1>1. /\ p \in Nat /\ n \in Nat /\ n > 0 /\ Marks!Bytes(x) = p .. (p + n - 1)
        /\ Marks!Bytes(x) \subseteq Heap
    BY MemoryBytes, Zenon
  <1>2. a \in Nat /\ p <= a /\ a < p + n
    BY <1>1
  <1>3. /\ \A z : z \in Marks!Below(x, a) <=> p < a /\ z = l
        /\ \A z : z \in Marks!From(x, a + 1) <=> a + 1 < p + n /\ z = r
    BY <1>1, <1>2 DEF Marks!Below, Marks!From, Marks!Limit
  <1>4. l.m_Address = p /\ l.m_Size = a - p /\ r.m_Address = a + 1 /\ r.m_Size = p + n - (a + 1)
    BY Zenon DEF Marks!Object
  <1>5. p < a => Marks!Bytes(l) = p .. (a - 1) /\ l \in Memory
    <2> SUFFICES ASSUME p < a PROVE Marks!Bytes(l) = p .. (a - 1) /\ l \in Memory
      BY Zenon
    <2>1. Marks!Bytes(l) = p .. (a - 1)
      BY <1>1, <1>2, <1>4, SMTT(60) DEF Marks!Bytes
    <2>2. p .. (a - 1) \subseteq Heap /\ p \in Heap /\ a - p \in Nat \ {0}
      BY <1>1, <1>2, SMTT(60)
    <2>3. l \in [m_Address : Heap, m_Size : Nat \ {0}]
      BY <2>2, Zenon DEF Marks!Object
    <2> QED
      BY <2>1, <2>2, <2>3, ZenonT(60) DEF Memory
  <1>6. a + 1 < p + n => Marks!Bytes(r) = (a + 1) .. (p + n - 1) /\ r \in Memory
    <2> SUFFICES ASSUME a + 1 < p + n
                 PROVE  Marks!Bytes(r) = (a + 1) .. (p + n - 1) /\ r \in Memory
      BY Zenon
    <2>1. Marks!Bytes(r) = (a + 1) .. (p + n - 1)
      BY <1>1, <1>2, <1>4, SMTT(60) DEF Marks!Bytes
    <2>2. /\ (a + 1) .. (p + n - 1) \subseteq Heap /\ a + 1 \in Heap
          /\ p + n - (a + 1) \in Nat \ {0}
      BY <1>1, <1>2, SMTT(60)
    <2>3. r \in [m_Address : Heap, m_Size : Nat \ {0}]
      BY <2>2, Zenon DEF Marks!Object
    <2> QED
      BY <2>1, <2>2, <2>3, ZenonT(60) DEF Memory
  <1> HIDE DEF l, r
  <1>7. \A z \in Marks!Below(x, a) \cup Marks!From(x, a + 1) :
          z \in Memory /\ \A b \in Marks!Bytes(z) : b \in Marks!Bytes(x) /\ b # a
    BY <1>1, <1>2, <1>3, <1>5, <1>6, SMTT(60)
  <1>8. \A b \in Marks!Bytes(x) : b # a =>
          \E z \in Marks!Below(x, a) \cup Marks!From(x, a + 1) : b \in Marks!Bytes(z)
    <2> SUFFICES ASSUME NEW b \in Marks!Bytes(x), b # a
                 PROVE  \E z \in Marks!Below(x, a) \cup Marks!From(x, a + 1) : b \in Marks!Bytes(z)
      BY Zenon
    <2>1. CASE b < a
      <3>1. l \in Marks!Below(x, a) /\ b \in Marks!Bytes(l)
        BY <1>1, <1>2, <1>3, <1>5, <2>1
      <3> QED
        BY <3>1, Zenon
    <2>2. CASE b > a
      <3>1. r \in Marks!From(x, a + 1) /\ b \in Marks!Bytes(r)
        BY <1>1, <1>2, <1>3, <1>6, <2>2
      <3> QED
        BY <3>1, Zenon
    <2> QED
      BY <1>1, <1>2, <2>1, <2>2, SMTT(60)
  <1>9. \A y, z \in Marks!Below(x, a) \cup Marks!From(x, a + 1) :
          y # z => Marks!Bytes(y) \cap Marks!Bytes(z) = {}
    BY <1>1, <1>2, <1>3, <1>5, <1>6, SMTT(60)
  <1> QED
    BY <1>7, <1>8, <1>9, Zenon

\* The mark of the page is taken off, and not reported.
LEMMA LateMarkCore ==
  ASSUME Core, LateMark
  PROVE  Core' /\ ret' = 0
  <1>0. OpsOK /\ HeapOK /\ OwnersOK /\ MarksOK
    BY Zenon DEF Core
  <1>1. /\ op[InitThread].pc = "late" /\ UNCHANGED <<heap, held, image, boot>>
        /\ Marks!FreeAnySize(op[InitThread].range.m_Address, op[InitThread].range.m_Size)
    BY Zenon DEF LateMark
  <1>2. PICK w \in {Idle, [pc |-> "loop"]} : op' = [op EXCEPT ![InitThread] = w]
    BY ZenonT(60) DEF LateMark
  <1>3. InitThread \in Thread
    BY HeapAssumption, Zenon
  <1>4. PICK a \in Image : op[InitThread].range = Span(a, 1) /\ a \notin HeapBytes
    BY <1>0, <1>1, <1>3, Zenon DEF OpsOK
  <1>5. /\ a \in Heap /\ a \in Nat /\ a # 0
        /\ op[InitThread].range.m_Address = a /\ op[InitThread].range.m_Size = 1
        /\ Marks!Bytes(op[InitThread].range) = {a} /\ a \in Marks!Bytes(Span(a, 1))
    BY <1>4, ImageInHeap, PageBytes, HeapAssumption, SMTT(60) DEF NULL
  <1>6. \A b : b \in LatePages <=> b = a
    BY <1>0, <1>1, <1>5, LateIs, Zenon
  <1>7. w.pc \in {"idle", "loop"}
    BY DEF Idle
  <1>8. /\ op' = [u \in Thread |-> op'[u]]
        /\ op'[InitThread] = w /\ \A u \in Thread : u # InitThread => op'[u] = op[u]
    BY <1>0, <1>2, <1>3, OpStep, ZenonT(60)
  <1>9. LatePages' = {}
    BY <1>0, <1>7, <1>8 DEF LatePages, OpsOK
  <1>10. a \notin image
    BY <1>0, <1>4, <1>5, Zenon DEF OwnersOK, HeapBytes
  <1>11. \A b : b \in Reserved' <=> b \in Reserved /\ b # a
    BY <1>1, <1>6, <1>9, <1>10, Zenon DEF Reserved
  <1>12. a \in Reserved
    BY <1>6, Zenon DEF Reserved
  <1>13. PICK x \in objects :
           /\ a \in Marks!Bytes(x)
           /\ objects' = (objects \ {x}) \cup Marks!Below(x, a) \cup Marks!From(x, a + 1)
           /\ ret' = 0
    <2>1. ~Marks!FreeNothing(a)
      BY <1>0, <1>5, <1>12, Zenon DEF MarksOK, Marks!FreeNothing
    <2>2. Marks!FreeAnySize(a, 1)
      BY <1>1, <1>5, Zenon
    <2> QED
      BY <2>1, <2>2, Zenon DEF Marks!FreeAnySize
  <1>14. Piece(x) /\ x \in Memory /\ Marks!Bytes(x) \subseteq Reserved
    BY <1>12, <1>13, Separate, Zenon DEF Piece
  <1> DEFINE parts == Marks!Below(x, a) \cup Marks!From(x, a + 1)
  <1>15. /\ \A z \in parts : z \in Memory /\ \A b \in Marks!Bytes(z) : b \in Marks!Bytes(x) /\ b # a
         /\ \A b \in Marks!Bytes(x) : b # a => \E z \in parts : b \in Marks!Bytes(z)
         /\ \A y, z \in parts : y # z => Marks!Bytes(y) \cap Marks!Bytes(z) = {}
         /\ objects' = (objects \ {x}) \cup parts
    BY <1>13, <1>14, Parts
  <1> HIDE DEF parts
  <1>16. /\ \A y : Piece(y)' => Piece(y)
         /\ \A y \in objects : y # x /\ Piece(y) => Piece(y)'
         /\ \A z \in parts : Piece(z)'
    <2>1. \A y : Piece(y)' <=> y \in Memory /\ Marks!Bytes(y) \subseteq Reserved'
      BY Zenon DEF Piece
    <2>2. \A y \in objects : y # x /\ Piece(y) => a \notin Marks!Bytes(y)
      BY <1>0, <1>13, <1>14, Zenon DEF MarksOK
    <2> QED
      BY <1>11, <1>14, <1>15, <2>1, <2>2, Zenon DEF Piece
  <1>17. \A o \in held : HeldRange(o) # x
    BY <1>12, <1>13, Separate, Zenon
  <1>18. MarksOK'
    <2>1. \A o \in held' : HeldRange(o) \in objects'
      BY <1>0, <1>1, <1>15, <1>17, ZenonT(60) DEF MarksOK
    <2>2. \A y \in objects' : y \in Junk \/ (\E o \in held' : y = HeldRange(o)) \/ Piece(y)'
      BY <1>0, <1>1, <1>15, <1>16, ZenonT(60) DEF MarksOK
    <2>3. \A b \in Reserved' : \E y \in objects' : b \in Marks!Bytes(y)
      <3> SUFFICES ASSUME NEW b \in Reserved' PROVE \E y \in objects' : b \in Marks!Bytes(y)
        BY Zenon
      <3>1. PICK y \in objects : b \in Marks!Bytes(y)
        BY <1>0, <1>11, Zenon DEF MarksOK
      <3> QED
        BY <1>11, <1>15, <3>1, Zenon
    <2>4. ASSUME NEW y \in objects', NEW z \in objects', Piece(y)', Piece(z)', y # z
          PROVE  Marks!Bytes(y) \cap Marks!Bytes(z) = {}
      <3>1. ASSUME NEW q \in objects, q # x, Piece(q) PROVE Marks!Bytes(q) \cap Marks!Bytes(x) = {}
        BY <1>0, <1>14, <3>1, Zenon DEF MarksOK
      <3>2. CASE y \in parts /\ z \in parts
        BY <1>15, <2>4, <3>2, Zenon
      <3>3. CASE y \in parts /\ z \notin parts
        BY <1>15, <1>16, <2>4, <3>1, <3>3, Zenon
      <3>4. CASE y \notin parts /\ z \in parts
        BY <1>15, <1>16, <2>4, <3>1, <3>4, Zenon
      <3>5. CASE y \notin parts /\ z \notin parts
        BY <1>0, <1>15, <1>16, <2>4, <3>5, Zenon DEF MarksOK
      <3> QED
        BY <3>2, <3>3, <3>4, <3>5, Zenon
    <2> QED
      BY <2>1, <2>2, <2>3, <2>4, Zenon DEF MarksOK
  <1>19. HeapOK' /\ HeapBytes' = HeapBytes
    BY <1>0, <1>1, Zenon DEF HeapOK, HeapBytes
  <1>20. \A u \in Thread : Owns(u)' => Owns(u) /\ op'[u] = op[u]
    BY <1>1, <1>7, <1>8, Zenon DEF Owns
  <1>21. OwnersOK'
    BY <1>0, <1>1, <1>20 DEF OwnersOK
  <1>22. OpsOK'
    BY <1>0, <1>1, <1>7, <1>8, <1>19, Zenon DEF OpsOK
  <1>23. StartOK'
    BY <1>1, <1>3, Zenon DEF Core, StartOK
  <1> QED
    BY <1>13, <1>18, <1>19, <1>21, <1>22, <1>23, Zenon DEF Core

-----------------------------------------------------------------------------
(***************************************************************************)
(* The theorems.                                                           *)
(***************************************************************************)

\* What a step does to the invariant and what it may report.
LEMMA HeapStep ==
  ASSUME "free_bootmem" \notin Wrapper, zero \in Nat, ~overtaken, Core, Next
  PROVE  /\ ~overtaken' => Core'
         /\ ret' = 1 => \/ zero' < zero
                        \/ \E t \in Thread : /\ op[t].pc = "mark" /\ op'[t] = Idle
                                             /\ op[t].range.m_Address \in {NULL, ZERO_SIZE_PTR}
  <1> DEFINE explained == \/ zero' < zero
                          \/ \E t \in Thread : /\ op[t].pc = "mark" /\ op'[t] = Idle
                                               /\ op[t].range.m_Address \in {NULL, ZERO_SIZE_PTR}
  <1>1. CASE ReserveImage
    BY <1>1, ReserveImageCore
  <1>2. CASE FreeAllBootmem \/ FreeAllBootmemDone
    <2>1. /\ UNCHANGED <<objects, heap, held, image, op>> /\ boot' # "start" /\ ret' = 0
      BY <1>2, Zenon DEF FreeAllBootmem, FreeAllBootmemDone, NoMark
    <2> QED
      BY <2>1, StillCore
  <1>3. CASE FreeBitmapPage \/ FreeInitPage
    <2>1. LateGive /\ ret' = 0
      BY <1>3, Zenon DEF FreeBitmapPage, FreeInitPage, LateGive, NoMark
    <2> QED
      BY <2>1, LateGiveCore
  <1>4. CASE LateMark
    BY <1>4, LateMarkCore
  <1>5. ASSUME NEW t \in Thread, NEW f \in AllocWrapper, NEW n \in Size,
               NEW p \in Heap \cup {NULL, ZERO_SIZE_PTR}, AllocCall(t, f, p, n)
        PROVE  (~overtaken' => Core') /\ (ret' = 1 => explained)
    <2>1. ret' = 0
      BY <1>5, Zenon DEF AllocCall, NoMark
    <2> QED
      BY <1>5, <2>1, AllocCallCore
  <1>6. ASSUME NEW t \in Thread, AllocMark(t)
        PROVE  (~overtaken' => Core') /\ (ret' = 1 => explained)
    <2>1. op[t].pc = "mark"
      BY <1>6, Zenon DEF AllocMark
    <2> QED
      BY <1>6, <2>1, AllocMarkCore, Zenon
  <1>7. ASSUME NEW t \in Thread, NEW f \in FreeWrapper, NEW o \in held, FreeCall(t, f, o)
        PROVE  (~overtaken' => Core') /\ (ret' = 1 => explained)
    BY <1>7, FreeCallCore, SMTT(60)
  <1>8. ASSUME NEW t \in Thread, FreeGive(t)
        PROVE  (~overtaken' => Core') /\ (ret' = 1 => explained)
    <2>1. ret' = 0
      BY <1>8, Zenon DEF FreeGive, NoMark
    <2> QED
      BY <1>8, <2>1, FreeGiveCore, SMTT(60)
  <1>9. ASSUME NEW t \in Thread, NEW p \in {NULL, ZERO_SIZE_PTR}, FreeNoMemory(t, p)
        PROVE  (~overtaken' => Core') /\ (ret' = 1 => explained)
    <2>1. CASE p = NULL
      <3>1. ret' = 0
        BY <1>9, <2>1, Zenon DEF FreeNoMemory, Marks!Free, Marks!FreeNothing, NULL
      <3> QED
        BY <1>9, <3>1, FreeNoMemoryCore
    <2>2. CASE p # NULL
      <3>1. zero' = zero - 1
        BY <1>9, <2>2, Zenon DEF FreeNoMemory
      <3>2. zero' < zero
        BY <3>1
      <3> QED
        BY <1>9, <3>2, FreeNoMemoryCore, Zenon
    <2> QED
      BY <2>1, <2>2, Zenon
  <1> QED
    BY <1>1, <1>2, <1>3, <1>4, <1>5, <1>6, <1>7, <1>8, <1>9, ZenonT(60) DEF Next

LEMMA HeapInit == Init => HInv
  <1> SUFFICES ASSUME Init PROVE HInv
    BY Zenon
  <1>1. /\ objects = {} /\ heap = {} /\ held = {} /\ zero = 0 /\ image = {}
        /\ op = [t \in Thread |-> Idle]
    BY Zenon DEF Init, Marks!Init
  <1>2. \A t \in Thread : op[t].pc = "idle"
    BY <1>1, Zenon DEF Idle
  <1>3. LatePages = {}
    BY <1>2, Zenon DEF LatePages
  <1>4. OpsOK
    BY <1>1, <1>2, Zenon DEF OpsOK
  <1>5. \A t \in Thread : ~Owns(t)
    BY <1>2, Zenon DEF Owns
  <1>6. OwnersOK
    BY <1>1, <1>5, Zenon DEF OwnersOK
  <1>7. HeapOK /\ MarksOK
    BY <1>1, <1>3, Zenon DEF HeapOK, MarksOK, Reserved
  <1>8. StartOK
    BY <1>1, <1>2, Zenon DEF StartOK
  <1> QED
    BY <1>1, <1>4, <1>6, <1>7, <1>8, Zenon DEF HInv, Core

LEMMA HeapNext ==
  ASSUME "free_bootmem" \notin Wrapper, HInv, [Next]_heapVars
  PROVE  HInv'
  <1>1. CASE UNCHANGED heapVars
    <2>1. UNCHANGED <<objects, heap, held, image, op, boot>> /\ UNCHANGED zero /\ UNCHANGED overtaken
      BY <1>1, Zenon DEF heapVars
    <2> QED
      BY <2>1, StillCore, Zenon DEF HInv
  <1>2. CASE Next
    <2>1. overtaken => overtaken'
      BY <1>2, ZenonT(60) DEF Next, ReserveImage, FreeAllBootmem, FreeAllBootmemDone, FreeBitmapPage,
                  FreeInitPage, LateGive, LateMark, AllocCall, AllocMark, FreeCall, FreeGive,
                  FreeNoMemory
    <2>2. zero' \in {zero, zero + 1} \/ (zero > 0 /\ zero' = zero - 1)
      BY <1>2, ZenonT(60) DEF Next, ReserveImage, FreeAllBootmem, FreeAllBootmemDone, FreeBitmapPage,
                  FreeInitPage, LateGive, LateMark, AllocCall, AllocMark, FreeCall, FreeGive,
                  FreeNoMemory
    <2>3. zero' \in Nat
      BY <2>2 DEF HInv
    <2> QED
      BY <1>2, <2>1, <2>3, HeapStep, Zenon DEF HInv
  <1> QED
    BY <1>1, <1>2, Zenon

\* Whatever the threads of the guest do between the two calls of a wrapper,
\* what a client holds is marked as it was handed out, unless a page of the
\* init section was handed out before free_init_pages had unmarked it.
THEOREM HeapHeldIsMarked == "free_bootmem" \notin Wrapper => (Spec => []HeldIsMarked)
  <1> SUFFICES ASSUME "free_bootmem" \notin Wrapper PROVE Spec => []HeldIsMarked
    BY Zenon
  <1>1. HInv => HeldIsMarked
    BY Zenon DEF HInv, Core, MarksOK, HeldIsMarked
  <1>2. HInv /\ [Next]_heapVars => HInv'
    BY HeapNext, Zenon
  <1> QED
    BY <1>1, <1>2, HeapInit, PTL DEF Spec

\* Under the same condition every mark is of memory that the allocator has
\* handed out, of a page that is being given back, or of no memory at all.
THEOREM HeapFreeIsUnmarked == "free_bootmem" \notin Wrapper => (Spec => []FreeIsUnmarked)
  <1> SUFFICES ASSUME "free_bootmem" \notin Wrapper PROVE Spec => []FreeIsUnmarked
    BY Zenon
  <1>1. HInv => FreeIsUnmarked
    <2> SUFFICES ASSUME HInv, ~overtaken, NEW x \in objects,
                        x.m_Address \notin {NULL, ZERO_SIZE_PTR}, NEW b \in Marks!Bytes(x)
                 PROVE  b \in HeapBytes \cup LatePages
      BY Zenon DEF FreeIsUnmarked
    <2>1. Core /\ OwnersOK /\ MarksOK
      BY Zenon DEF HInv, Core
    <2>2. x \notin Junk
      BY JunkBytes, Zenon
    <2>3. CASE \E o \in held : x = HeldRange(o)
      BY <2>1, <2>3, Zenon DEF OwnersOK, HeapBytes
    <2>4. CASE Piece(x)
      <3>1. b \in image \cup LatePages
        BY <2>4, Zenon DEF Piece, Reserved
      <3>2. ASSUME b \in image PROVE b \in HeapBytes
        <4>1. Span(b, 1) \in heap /\ b \in Marks!Bytes(Span(b, 1))
          BY <2>1, <3>2, PageBytes, ImageInHeap, Zenon DEF OwnersOK
        <4> QED
          BY <4>1, Zenon DEF HeapBytes
      <3> QED
        BY <3>1, <3>2, Zenon
    <2> QED
      BY <2>1, <2>2, <2>3, <2>4, Zenon DEF MarksOK
  <1>2. HInv /\ [Next]_heapVars => HInv'
    BY HeapNext, Zenon
  <1> QED
    BY <1>1, <1>2, HeapInit, PTL DEF Spec

\* A correct guest is reported only for marking NULL or ZERO_SIZE_PTR, or for
\* unmarking ZERO_SIZE_PTR, under the same condition.
THEOREM HeapReportsExplained == "free_bootmem" \notin Wrapper => (Spec => ReportsExplained)
  <1> SUFFICES ASSUME "free_bootmem" \notin Wrapper PROVE Spec => ReportsExplained
    BY Zenon
  <1>1. HInv /\ [Next]_heapVars =>
          [ ret' = 1 /\ ~overtaken =>
              \/ zero' < zero
              \/ \E t \in Thread : /\ op[t].pc = "mark" /\ op'[t] = Idle
                                   /\ op[t].range.m_Address \in {NULL, ZERO_SIZE_PTR}
          ]_heapVars
    BY HeapStep, Zenon DEF HInv
  <1>2. HInv /\ [Next]_heapVars => HInv'
    BY HeapNext, Zenon
  <1> QED
    BY <1>1, <1>2, HeapInit, PTL DEF Spec, ReportsExplained
=============================================================================
