---------------------------- MODULE ShadowMemory ----------------------------
(***************************************************************************)
(* The shadow memory of MemCheck: the ordered map of live guest            *)
(* allocations and the four operations the guest's MemCheck_* calls run on *)
(* it (contrib/MemCheck/ShadowMemory.h and ShadowMemory.cpp).              *)
(*                                                                         *)
(* The map is a std::map whose comparator orders allocations by "x ends    *)
(* before y starts", so two overlapping allocations are equivalent keys.   *)
(* It is modelled by the in-order sequence of the search tree's keys.      *)
(* What a lookup or an insertion returns is stated by the gap of the       *)
(* sequence at which the tree walk can end.  In a well-ordered map there   *)
(* is exactly one such gap; in a map that is not well ordered there may be *)
(* several, one for each shape the tree may have, and all are possible.    *)
(***************************************************************************)
EXTENDS Integers, Sequences, Functions

CONSTANT AddressSpace      \* number of addresses of the guest, 2^32

ASSUME AddressSpaceAssumption == AddressSpace \in Nat /\ AddressSpace > 1

VARIABLES
  m_MemoryMap,             \* keys of the std::map, in order
  ret                      \* what the last operation returned: 1 is a report

shadowVars == <<m_MemoryMap, ret>>

Addr32 == 0 .. (AddressSpace - 1)

\* Addr32 and unsigned int arithmetic.
Wrap(i) == i % AddressSpace

MemoryAlloc == [m_Address : Addr32, m_Size : Addr32]

Key(address, size) == [m_Address |-> address, m_Size |-> size]

\* MemoryAlloc::operator(), the comparator of the map.
Less(x, y) ==
  IF x.m_Size # 0
  THEN Wrap(x.m_Address + x.m_Size) <= y.m_Address
  ELSE Wrap(x.m_Address + x.m_Size) < y.m_Address

-----------------------------------------------------------------------------
(***************************************************************************)
(* std::map with that comparator.                                          *)
(***************************************************************************)

\* map.end()
End == 0

\* The positions std::map::find(k) can return: the walk ends where everything
\* passed on the left is less than k, and the key on the right is not.
Find(map, k) ==
  { IF g <= Len(map) /\ ~Less(k, map[g]) THEN g ELSE End :
      g \in { h \in 1 .. (Len(map) + 1) :
                /\ h > 1 => Less(map[h - 1], k)
                /\ h <= Len(map) => ~Less(map[h], k) } }

\* The gaps at which the walk of std::map::insert(k) can end.
InsertGaps(map, k) ==
  { h \in 1 .. (Len(map) + 1) :
      /\ h > 1 => ~Less(k, map[h - 1])
      /\ h <= Len(map) => Less(k, map[h]) }

\* An insertion at gap g is made unless the key on the left is equivalent to k
\* (the "second" member of the returned pair).
Inserts(map, k, g) == g > 1 => Less(map[g - 1], k)

\* The map with k at gap g.
InsertAt(map, g, k) == SubSeq(map, 1, g - 1) \o <<k>> \o SubSeq(map, g, Len(map))

\* The maps std::map::insert(k) can leave behind.
Insert(map, k) ==
  { IF Inserts(map, k, g) THEN InsertAt(map, g, k) ELSE map :
      g \in InsertGaps(map, k) }

\* std::map::erase
Erase(map, pos) == SubSeq(map, 1, pos - 1) \o SubSeq(map, pos + 1, Len(map))

-----------------------------------------------------------------------------
(***************************************************************************)
(* The operations.                                                         *)
(***************************************************************************)

NewMemoryAlloc(allocPtr, size) ==
  LET k == Key(allocPtr, size)
  IN  \E g \in InsertGaps(m_MemoryMap, k) :
        \/ /\ Inserts(m_MemoryMap, k, g)
           /\ m_MemoryMap' = InsertAt(m_MemoryMap, g, k)
           /\ ret' = 0
        \/ /\ ~Inserts(m_MemoryMap, k, g)
           /\ ret' = 1
           /\ UNCHANGED m_MemoryMap

\* The early returns the three frees share: a null pointer is ignored, and a
\* pointer into no allocation is reported.
FreeNull(freePtr) ==
  /\ freePtr = 0
  /\ ret' = 0
  /\ UNCHANGED m_MemoryMap

FreeUnallocated(freePtr) ==
  /\ freePtr # 0
  /\ End \in Find(m_MemoryMap, Key(freePtr, 0))
  /\ ret' = 1
  /\ UNCHANGED m_MemoryMap

\* The positions at which the frees go on to work.
Found(freePtr) ==
  IF freePtr = 0 THEN {} ELSE Find(m_MemoryMap, Key(freePtr, 0)) \ {End}

\* Mutated form: what is left keeps the old address.
TruncateBack(pos, size) ==
  LET e == m_MemoryMap[pos]
  IN  m_MemoryMap' \in Insert(Erase(m_MemoryMap, pos),
                              Key(e.m_Address, Wrap(e.m_Size - size)))

\* The first size bytes of the allocation at pos are freed: the entry is
\* erased and what is left of it inserted again.
TruncateFront(pos, size) ==
  LET e == m_MemoryMap[pos]
  IN  m_MemoryMap' \in
        Insert(Erase(m_MemoryMap, pos),
               Key(Wrap(e.m_Address + size), Wrap(e.m_Size - size)))

\* Mutated form: the entry is not erased.
FreeMemoryKeepsEntry(freePtr) ==
  \/ FreeNull(freePtr)
  \/ FreeUnallocated(freePtr)
  \/ \E pos \in Found(freePtr) :
       /\ ret' = IF m_MemoryMap[pos].m_Address = freePtr THEN 0 ELSE 1
       /\ UNCHANGED m_MemoryMap

FreeMemory(freePtr) ==
  \/ FreeNull(freePtr)
  \/ FreeUnallocated(freePtr)
  \/ \E pos \in Found(freePtr) :
       IF m_MemoryMap[pos].m_Address = freePtr
       THEN /\ m_MemoryMap' = Erase(m_MemoryMap, pos)
            /\ ret' = 0
       ELSE /\ ret' = 1
            /\ UNCHANGED m_MemoryMap

FreeSizeMemory(freePtr, size) ==
  \/ FreeNull(freePtr)
  \/ FreeUnallocated(freePtr)
  \/ \E pos \in Found(freePtr) :
       LET e == m_MemoryMap[pos]
       IN  \/ /\ e.m_Address = freePtr
              /\ e.m_Size = size
              /\ m_MemoryMap' = Erase(m_MemoryMap, pos)
              /\ ret' = 0
           \/ /\ e.m_Address = freePtr
              /\ size < e.m_Size
              /\ TruncateFront(pos, size)
              /\ ret' = 1
           \/ /\ e.m_Address = freePtr => size > e.m_Size
              /\ ret' = 1
              /\ UNCHANGED m_MemoryMap

\* Mutated form: the tail has the size of the whole allocation.
FreeMiddleLongTail(pos, freePtr, size) ==
  LET e    == m_MemoryMap[pos]
      next == Wrap(freePtr + size)
  IN  \E chunk \in Insert(Erase(m_MemoryMap, pos),
                          Key(e.m_Address, Wrap(freePtr - e.m_Address))) :
        m_MemoryMap' \in Insert(chunk, Key(next, e.m_Size))

\* A free in the middle of an allocation: the entry is erased and the chunk
\* at the beginning and the tail are inserted.  The size of the tail wraps when
\* the free runs past the end of the allocation.
FreeMiddle(pos, freePtr, size) ==
  LET e      == m_MemoryMap[pos]
      next   == Wrap(freePtr + size)
      oldEnd == Wrap(e.m_Address + e.m_Size)
  IN  \E chunk \in Insert(Erase(m_MemoryMap, pos),
                          Key(e.m_Address, Wrap(freePtr - e.m_Address))) :
        m_MemoryMap' \in IF next = oldEnd
                         THEN {chunk}
                         ELSE Insert(chunk, Key(next, Wrap(oldEnd - next)))

FreeAnySizeMemory(freePtr, size) ==
  \/ FreeNull(freePtr)
  \/ FreeUnallocated(freePtr)
  \/ \E pos \in Found(freePtr) :
       LET e == m_MemoryMap[pos]
       IN  /\ \/ /\ e.m_Address = freePtr
                 /\ size < e.m_Size
                 /\ TruncateFront(pos, size)
              \/ /\ e.m_Address = freePtr
                 /\ size >= e.m_Size
                 /\ m_MemoryMap' = Erase(m_MemoryMap, pos)
              \/ /\ e.m_Address # freePtr
                 /\ FreeMiddle(pos, freePtr, size)
           /\ ret' = 0

-----------------------------------------------------------------------------
ShadowInit == m_MemoryMap = <<>> /\ ret = 0

\* A guest object lies below the last address of the address space.
InSpace(address, size) == address + size < AddressSpace

\* A free of part of an allocation names bytes of that allocation only.
WithinAllocation(freePtr, size) ==
  \A pos \in Found(freePtr) :
    m_MemoryMap[pos].m_Address # freePtr =>
      freePtr + size <= m_MemoryMap[pos].m_Address + m_MemoryMap[pos].m_Size

CommonNext ==
  \E p, n \in Addr32 :
    \/ InSpace(p, n) /\ NewMemoryAlloc(p, n)
    \/ FreeMemory(p)
    \/ FreeSizeMemory(p, n)

\* The guest frees parts of allocations only within their bounds ...
ShadowNext ==
  \/ CommonNext
  \/ \E p, n \in Addr32 : WithinAllocation(p, n) /\ FreeAnySizeMemory(p, n)

ShadowSpec == ShadowInit /\ [][ShadowNext]_shadowVars

\* ... or with any size at all.
NextAnySize ==
  \/ CommonNext
  \/ \E p, n \in Addr32 : FreeAnySizeMemory(p, n)

SpecAnySize == ShadowInit /\ [][NextAnySize]_shadowVars

-----------------------------------------------------------------------------
(***************************************************************************)
(* Properties.                                                             *)
(***************************************************************************)

\* Keys hold 32-bit values, and an operation returns 0 or 1.
ShadowTypeOK ==
  /\ m_MemoryMap \in Seq(MemoryAlloc)
  /\ ret \in {0, 1}

\* Every entry ends inside the address space and before the next entry
\* starts: the map holds disjoint ranges in order, which is what find and
\* insert of the std::map take for granted.
WellOrdered ==
  /\ \A i \in 1 .. Len(m_MemoryMap) :
       InSpace(m_MemoryMap[i].m_Address, m_MemoryMap[i].m_Size)
  /\ \A i, j \in 1 .. Len(m_MemoryMap) :
       i < j => Less(m_MemoryMap[i], m_MemoryMap[j])

Table == INSTANCE AllocationTable WITH objects <- Range(m_MemoryMap)

\* The bytes the map holds as allocated.
LiveBytes == UNION { Table!Bytes(e) : e \in Range(m_MemoryMap) }

\* The map with its comparator, erasures and insertions behaves as the table
\* of disjoint allocations: every verdict and every remaining allocation of
\* every sequence of calls is the table's.
ImplementsTable == Table!Spec

\* "falling through (allow free with large size)": a free whose size runs past
\* the allocation it points into frees the allocation to its end, wherever in
\* the allocation it starts.
LargeFreeClips ==
  [][ \A p, n \in Addr32 :
        FreeAnySizeMemory(p, n) => Table!FreeAnySize(p, n) ]_shadowVars

=============================================================================
