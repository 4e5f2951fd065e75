------------------------- MODULE ShadowMemoryProofs -------------------------
(***************************************************************************)
(* Proofs about the shadow memory for every size of the address space: the *)
(* std::map with its comparator, find, insert and erase stays well ordered *)
(* and every call does what the table of disjoint allocations does.        *)
(***************************************************************************)
EXTENDS ShadowMemory, SequenceTheorems, TLAPS

\* The first address after the bytes an allocation occupies.
After(x) == IF x.m_Size = 0 THEN x.m_Address + 1 ELSE x.m_Address + x.m_Size

\* A sequence of keys in the order the std::map relies on.
Ordered(s) ==
  /\ s \in Seq(MemoryAlloc)
  /\ \A i \in 1 .. Len(s) : InSpace(s[i].m_Address, s[i].m_Size)
  /\ \A i, j \in 1 .. Len(s) : i < j => After(s[i]) <= s[j].m_Address

Apart(x, y) == After(x) <= y.m_Address \/ After(y) <= x.m_Address

-----------------------------------------------------------------------------
(***************************************************************************)
(* Arithmetic of Addr32.                                                   *)
(***************************************************************************)

\* A value below 2^32 is not changed by the wrap of an Addr32.
LEMMA WrapSmall == \A a \in Addr32 : Wrap(a) = a
  BY AddressSpaceAssumption, SMT DEF Wrap, Addr32

\* An Addr32 operation gives an Addr32.
LEMMA WrapType == \A a \in Int : Wrap(a) \in Addr32
  BY AddressSpaceAssumption, SMT DEF Wrap, Addr32

\* For an allocation inside the address space, the comparator says that it
\* ends before the other one starts; size zero counts as one byte.
LEMMA LessIsBefore ==
  ASSUME NEW x \in MemoryAlloc, NEW y \in MemoryAlloc,
         InSpace(x.m_Address, x.m_Size)
  PROVE  Less(x, y) <=> After(x) <= y.m_Address
  <1>1. x.m_Address + x.m_Size \in Addr32
    BY AddressSpaceAssumption DEF MemoryAlloc, Addr32, InSpace
  <1>2. Wrap(x.m_Address + x.m_Size) = x.m_Address + x.m_Size
    BY <1>1, WrapSmall, Zenon
  <1>3. x.m_Address \in Int /\ x.m_Size \in Nat /\ y.m_Address \in Int
    BY AddressSpaceAssumption DEF MemoryAlloc, Addr32
  <1> QED
    BY <1>2, <1>3 DEF Less, After

\* The order invariant of the specification is the order of the proofs.
LEMMA OrderedIsWellOrdered ==
  ASSUME m_MemoryMap \in Seq(MemoryAlloc)
  PROVE  WellOrdered <=> Ordered(m_MemoryMap)
  <1>1. \A i \in 1 .. Len(m_MemoryMap) : m_MemoryMap[i] \in MemoryAlloc
    BY ElementOfSeq, Zenon
  <1> QED
    BY <1>1, LessIsBefore, Zenon DEF WellOrdered, Ordered

-----------------------------------------------------------------------------
(***************************************************************************)
(* Sequences.                                                              *)
(***************************************************************************)

\* The keys after std::map::insert puts k at gap g.
LEMMA InsertAtProperties ==
  ASSUME NEW S, NEW s \in Seq(S), NEW g \in 1 .. (Len(s) + 1), NEW k \in S
  PROVE  /\ InsertAt(s, g, k) \in Seq(S)
         /\ Len(InsertAt(s, g, k)) = Len(s) + 1
         /\ \A i \in 1 .. (Len(s) + 1) :
              InsertAt(s, g, k)[i] = IF i < g THEN s[i]
                                     ELSE IF i = g THEN k ELSE s[i - 1]
  <1> DEFINE a == SubSeq(s, 1, g - 1)
             b == SubSeq(s, g, Len(s))
  <1>1. /\ a \in Seq(S) /\ Len(a) = g - 1
        /\ \A i \in 1 .. (g - 1) : a[i] = s[i]
    BY SMT
  <1>2. /\ b \in Seq(S) /\ Len(b) = Len(s) - g + 1
        /\ \A i \in 1 .. (Len(s) - g + 1) : b[i] = s[g + i - 1]
    BY SMT
  <1> DEFINE c == a \o <<k>>
  <1>3. InsertAt(s, g, k) = c \o b
    BY Zenon DEF InsertAt
  <1> HIDE DEF a, b
  <1>4. <<k>> \in Seq(S) /\ Len(<<k>>) = 1 /\ <<k>>[1] = k
    OBVIOUS
  <1>5. /\ c \in Seq(S) /\ Len(c) = g
        /\ \A i \in 1 .. g : c[i] = IF i < g THEN s[i] ELSE k
    BY <1>1, <1>4, ConcatProperties
  <1> HIDE DEF c
  <1>6. /\ c \o b \in Seq(S) /\ Len(c \o b) = Len(c) + Len(b)
        /\ \A i \in 1 .. (Len(c) + Len(b)) :
             (c \o b)[i] = IF i <= Len(c) THEN c[i] ELSE b[i - Len(c)]
    BY <1>2, <1>5, ConcatProperties, ZenonT(60)
  <1> HIDE DEF b
  <1>7. Len(c) = g /\ Len(b) = Len(s) - g + 1 /\ Len(s) \in Nat
    BY <1>2, <1>5, LenProperties, Zenon
  <1>8. ASSUME NEW i \in 1 .. (Len(s) + 1)
        PROVE  (c \o b)[i] = IF i < g THEN s[i]
                             ELSE IF i = g THEN k ELSE s[i - 1]
    <2>1. CASE i <= g
      BY <1>5, <1>6, <1>7, <2>1
    <2>2. CASE i > g
      <3>1. (c \o b)[i] = b[i - g] /\ i - g \in 1 .. (Len(s) - g + 1)
        <4>1. /\ i \in 1 .. (Len(c) + Len(b)) /\ ~(i <= Len(c))
              /\ i - g \in 1 .. (Len(s) - g + 1)
          BY <1>7, <2>2
        <4> QED
          BY <1>6, <1>7, <4>1, Zenon
      <3>2. b[i - g] = s[g + (i - g) - 1]
        BY <1>2, <3>1, Zenon
      <3> QED
        BY <1>7, <2>2, <3>1, <3>2
    <2> QED
      BY <1>7, <2>1, <2>2
  <1> QED
    BY <1>3, <1>6, <1>7, <1>8, SMTT(60)

\* The keys after std::map::erase removes the one at pos.
LEMMA EraseProperties ==
  ASSUME NEW S, NEW s \in Seq(S), NEW pos \in 1 .. Len(s)
  PROVE  /\ Erase(s, pos) \in Seq(S)
         /\ Len(Erase(s, pos)) = Len(s) - 1
         /\ \A i \in 1 .. (Len(s) - 1) :
              Erase(s, pos)[i] = IF i < pos THEN s[i] ELSE s[i + 1]
  <1> DEFINE a == SubSeq(s, 1, pos - 1)
             b == SubSeq(s, pos + 1, Len(s))
  <1>1. /\ a \in Seq(S) /\ Len(a) = pos - 1
        /\ \A i \in 1 .. (pos - 1) : a[i] = s[i]
    BY SMT
  <1>2. /\ b \in Seq(S) /\ Len(b) = Len(s) - pos
        /\ \A i \in 1 .. (Len(s) - pos) : b[i] = s[pos + i]
    BY SMT
  <1>3. Erase(s, pos) = a \o b
    BY Zenon DEF Erase
  <1> HIDE DEF a, b
  <1>4. /\ a \o b \in Seq(S) /\ Len(a \o b) = Len(a) + Len(b)
        /\ \A i \in 1 .. (Len(a) + Len(b)) :
             (a \o b)[i] = IF i <= Len(a) THEN a[i] ELSE b[i - Len(a)]
    BY <1>1, <1>2, ConcatProperties, ZenonT(60)
  <1>5. Len(s) \in Nat /\ pos \in Nat /\ pos > 0
    BY LenProperties
  <1>6. Len(a) + Len(b) = Len(s) - 1
    BY <1>1, <1>2, <1>5
  <1>7. ASSUME NEW i \in 1 .. (Len(s) - 1)
        PROVE  (a \o b)[i] = IF i < pos THEN s[i] ELSE s[i + 1]
    <2>1. (a \o b)[i] = IF i <= Len(a) THEN a[i] ELSE b[i - Len(a)]
      BY <1>4, <1>6, Zenon
    <2>2. CASE i < pos
      <3>1. i <= Len(a) /\ i \in 1 .. (pos - 1)
        BY <1>1, <1>5, <2>2
      <3> QED
        BY <1>1, <2>1, <2>2, <3>1, Zenon
    <2>3. CASE ~(i < pos)
      <3>1. /\ ~(i <= Len(a)) /\ i - Len(a) \in 1 .. (Len(s) - pos)
            /\ pos + (i - Len(a)) = i + 1
        BY <1>1, <1>5, <2>3
      <3>2. b[i - Len(a)] = s[i + 1]
        BY <1>2, <3>1, Zenon
      <3> QED
        BY <2>1, <2>3, <3>1, <3>2, Zenon
    <2> QED
      BY <2>2, <2>3, Zenon
  <1> QED
    BY <1>3, <1>4, <1>6, <1>7, Zenon
-----------------------------------------------------------------------------
(***************************************************************************)
(* The std::map on ordered keys.                                           *)
(***************************************************************************)

\* The entries of an ordered map are allocations, and pairwise apart.
LEMMA OrderedEntries ==
  ASSUME NEW s, Ordered(s)
  PROVE  /\ s \in Seq(MemoryAlloc) /\ Len(s) \in Nat
         /\ DOMAIN s = 1 .. Len(s)
         /\ \A i \in 1 .. Len(s) :
              /\ s[i] \in MemoryAlloc
              /\ s[i].m_Address \in Nat /\ s[i].m_Size \in Nat
              /\ After(s[i]) \in Nat /\ s[i].m_Address < After(s[i])
         /\ \A i, j \in 1 .. Len(s) : i # j => Apart(s[i], s[j]) /\ s[i] # s[j]
  <1>1. s \in Seq(MemoryAlloc) /\ Len(s) \in Nat /\ DOMAIN s = 1 .. Len(s)
    BY LenProperties, Zenon DEF Ordered
  <1>2. \A i \in 1 .. Len(s) : s[i] \in MemoryAlloc
    BY <1>1, ElementOfSeq, Zenon
  <1>3. ASSUME NEW i \in 1 .. Len(s)
        PROVE  /\ s[i].m_Address \in Nat /\ s[i].m_Size \in Nat
               /\ After(s[i]) \in Nat /\ s[i].m_Address < After(s[i])
    BY <1>2, AddressSpaceAssumption DEF MemoryAlloc, Addr32, After
  <1>4. ASSUME NEW i \in 1 .. Len(s), NEW j \in 1 .. Len(s), i # j
        PROVE  Apart(s[i], s[j]) /\ s[i] # s[j]
    <2>1. i < j \/ j < i
      BY <1>1, <1>4
    <2>2. After(s[i]) <= s[j].m_Address \/ After(s[j]) <= s[i].m_Address
      BY <2>1, Zenon DEF Ordered
    <2> QED
      BY <2>2, <1>3 DEF Apart
  <1> QED
    BY <1>1, <1>2, <1>3, <1>4, Zenon

\* An insertion into an ordered map is made exactly when the new allocation is
\* apart from every entry, wherever the walk ends; it keeps the order.
LEMMA InsertOrdered ==
  ASSUME NEW s, Ordered(s), NEW k \in MemoryAlloc,
         InSpace(k.m_Address, k.m_Size), NEW g \in InsertGaps(s, k)
  PROVE  /\ Inserts(s, k, g) => \A i \in 1 .. Len(s) : Apart(s[i], k)
         /\ ~Inserts(s, k, g) => \E i \in 1 .. Len(s) : ~Apart(s[i], k)
         /\ Inserts(s, k, g) => /\ Ordered(InsertAt(s, g, k))
                                /\ Range(InsertAt(s, g, k)) = Range(s) \cup {k}
  <1> DEFINE n == Len(s)
  <1>0. /\ s \in Seq(MemoryAlloc) /\ n \in Nat /\ DOMAIN s = 1 .. n
        /\ \A i \in 1 .. n :
              /\ s[i] \in MemoryAlloc
              /\ s[i].m_Address \in Nat /\ s[i].m_Size \in Nat
              /\ After(s[i]) \in Nat /\ s[i].m_Address < After(s[i])
    BY OrderedEntries, Zenon
  <1>1. /\ k.m_Address \in Nat /\ k.m_Size \in Nat /\ After(k) \in Nat
        /\ k.m_Address < After(k)
    BY AddressSpaceAssumption DEF MemoryAlloc, Addr32, After
  <1>2. /\ \A i \in 1 .. n : InSpace(s[i].m_Address, s[i].m_Size)
        /\ \A i, j \in 1 .. n : i < j => After(s[i]) <= s[j].m_Address
    BY Zenon DEF Ordered
  <1>3. /\ g \in 1 .. (n + 1)
        /\ g > 1 => ~(After(k) <= s[g - 1].m_Address)
        /\ g <= n => After(k) <= s[g].m_Address
    BY <1>0, LessIsBefore DEF InsertGaps
  <1>4. Inserts(s, k, g) <=> (g > 1 => After(s[g - 1]) <= k.m_Address)
    BY <1>0, <1>2, <1>3, LessIsBefore DEF Inserts
  <1>5. \A i \in 1 .. n : i >= g => After(k) <= s[i].m_Address
    <2> SUFFICES ASSUME NEW i \in 1 .. n, i >= g
                 PROVE  After(k) <= s[i].m_Address
      BY Zenon
    <2>1. After(k) <= s[g].m_Address /\ g \in 1 .. n
      BY <1>0, <1>3
    <2>2. i = g \/ After(s[g]) <= s[i].m_Address
      BY <1>0, <1>2, <2>1
    <2> QED
      BY <1>0, <1>1, <2>1, <2>2
  <1>6. ASSUME Inserts(s, k, g)
        PROVE  \A i \in 1 .. n : i < g => After(s[i]) <= k.m_Address
    <2> SUFFICES ASSUME NEW i \in 1 .. n, i < g
                 PROVE  After(s[i]) <= k.m_Address
      BY Zenon
    <2>1. g > 1 /\ g - 1 \in 1 .. n
      BY <1>0, <1>3
    <2>2. After(s[g - 1]) <= k.m_Address
      BY <1>4, <1>6, <2>1, Zenon
    <2>3. i = g - 1 \/ After(s[i]) <= s[g - 1].m_Address
      BY <1>0, <1>2, <1>3, <2>1
    <2> QED
      BY <1>0, <1>1, <2>1, <2>2, <2>3
  <1>7. Inserts(s, k, g) => \A i \in 1 .. n : Apart(s[i], k)
    BY <1>0, <1>3, <1>5, <1>6 DEF Apart
  <1>8. ~Inserts(s, k, g) => \E i \in 1 .. n : ~Apart(s[i], k)
    BY <1>0, <1>3, <1>4 DEF Apart
  <1>9. ASSUME Inserts(s, k, g)
        PROVE  /\ Ordered(InsertAt(s, g, k))
               /\ Range(InsertAt(s, g, k)) = Range(s) \cup {k}
    <2> DEFINE t == InsertAt(s, g, k)
    <2>1. /\ t \in Seq(MemoryAlloc) /\ Len(t) = n + 1
          /\ \A i \in 1 .. (n + 1) :
               t[i] = IF i < g THEN s[i] ELSE IF i = g THEN k ELSE s[i - 1]
      <3>1. s \in Seq(MemoryAlloc) /\ g \in 1 .. (Len(s) + 1)
        BY <1>0, <1>3, Zenon
      <3> QED
        BY <3>1, InsertAtProperties
    <2> HIDE DEF t
    <2>2. ASSUME NEW i \in 1 .. Len(t)
          PROVE  InSpace(t[i].m_Address, t[i].m_Size)
      <3>1. CASE i < g
        <4>1. i \in 1 .. n /\ i \in 1 .. (n + 1)
          BY <1>0, <1>3, <2>1, <3>1
        <4> QED
          BY <1>2, <2>1, <3>1, <4>1, Zenon
      <3>2. CASE i = g
        BY <1>3, <2>1, <3>2
      <3>3. CASE i > g
        <4>1. i - 1 \in 1 .. n /\ t[i] = s[i - 1]
          BY <1>0, <1>3, <2>1, <3>3
        <4> QED
          BY <1>2, <4>1, Zenon
      <3> QED
        BY <1>0, <1>3, <2>1, <3>1, <3>2, <3>3
    <2>3. ASSUME NEW i \in 1 .. Len(t), NEW j \in 1 .. Len(t), i < j
          PROVE  After(t[i]) <= t[j].m_Address
      <3>1. CASE j < g
        BY <1>0, <1>2, <1>3, <2>1, <2>3, <3>1
      <3>2. CASE j = g
        BY <1>0, <1>3, <1>6, <1>9, <2>1, <2>3, <3>2
      <3>3. CASE j > g /\ i < g
        BY <1>0, <1>2, <1>3, <2>1, <2>3, <3>3, SMTT(60)
      <3>4. CASE j > g /\ i = g
        <4>1. j - 1 \in 1 .. n /\ j - 1 >= g /\ t[j] = s[j - 1] /\ t[i] = k
          BY <1>0, <1>3, <2>1, <2>3, <3>4
        <4> QED
          BY <1>5, <4>1, Zenon
      <3>5. CASE j > g /\ i > g
        BY <1>0, <1>2, <1>3, <2>1, <2>3, <3>5, SMTT(60)
      <3> QED
        BY <1>0, <1>3, <2>1, <3>1, <3>2, <3>3, <3>4, <3>5
    <2>4. Range(t) = Range(s) \cup {k}
      <3>1. DOMAIN t = 1 .. (n + 1)
        BY <2>1, LenProperties, Zenon
      <3>2. ASSUME NEW x \in Range(t) PROVE x \in Range(s) \cup {k}
        <4>1. PICK i \in 1 .. (n + 1) : x = t[i]
          BY <3>1, Zenon DEF Range
        <4>2. CASE i = g
          <5>1. t[i] = k
            BY <2>1, <4>2
          <5> QED
            BY <4>1, <5>1, Zenon
        <4>3. CASE i # g
          <5>1. PICK j \in 1 .. n : t[i] = s[j]
            <6>1. CASE i < g
              BY <1>0, <1>3, <2>1, <6>1
            <6>2. CASE i > g
              <7>1. i - 1 \in 1 .. n /\ t[i] = s[i - 1]
                BY <1>0, <1>3, <2>1, <6>2
              <7> QED
                BY <7>1, Zenon
            <6> QED
              BY <1>0, <1>3, <4>3, <6>1, <6>2
          <5> QED
            BY <1>0, <4>1, <5>1, Zenon DEF Range
        <4> QED
          BY <4>2, <4>3, Zenon
      <3>3. k \in Range(t)
        <4>1. g \in 1 .. (n + 1) /\ t[g] = k
          BY <1>0, <1>3, <2>1
        <4> QED
          BY <3>1, <4>1, Zenon DEF Range
      <3>4. ASSUME NEW i \in 1 .. n PROVE s[i] \in Range(t)
        <4>1. CASE i < g
          <5>1. i \in 1 .. (n + 1) /\ t[i] = s[i]
            BY <1>0, <1>3, <2>1, <4>1
          <5> QED
            BY <3>1, <5>1, Zenon DEF Range
        <4>2. CASE i >= g
          <5>1. i + 1 \in 1 .. (n + 1) /\ t[i + 1] = s[i]
            BY <1>0, <1>3, <2>1, <4>2
          <5> QED
            BY <3>1, <5>1, Zenon DEF Range
        <4> QED
          BY <1>0, <1>3, <4>1, <4>2
      <3> QED
        BY <1>0, <3>2, <3>3, <3>4, Zenon DEF Range
    <2> QED
      BY <2>1, <2>2, <2>3, <2>4, Zenon DEF Ordered, t
  <1> QED
    BY <1>7, <1>8, <1>9, Zenon

\* Inserting an allocation that is apart from every entry adds it, whatever
\* gap the walk ends at.
LEMMA InsertApart ==
  ASSUME NEW s, Ordered(s), NEW k \in MemoryAlloc,
         InSpace(k.m_Address, k.m_Size),
         \A i \in 1 .. Len(s) : Apart(s[i], k),
         NEW t \in Insert(s, k)
  PROVE  Ordered(t) /\ Range(t) = Range(s) \cup {k}
  <1>1. PICK g \in InsertGaps(s, k) :
          t = IF Inserts(s, k, g) THEN InsertAt(s, g, k) ELSE s
    BY Zenon DEF Insert
  <1>2. Inserts(s, k, g)
    BY InsertOrdered, Zenon
  <1> QED
    BY <1>1, <1>2, InsertOrdered, Zenon

\* Erasing an entry keeps the order and removes that entry only.
LEMMA EraseOrdered ==
  ASSUME NEW s, Ordered(s), NEW pos \in 1 .. Len(s)
  PROVE  /\ Ordered(Erase(s, pos))
         /\ Range(Erase(s, pos)) = Range(s) \ {s[pos]}
         /\ \A i \in 1 .. Len(Erase(s, pos)) :
              Apart(Erase(s, pos)[i], s[pos])
  <1> DEFINE n == Len(s)
             t == Erase(s, pos)
  <1>0. /\ s \in Seq(MemoryAlloc) /\ n \in Nat /\ DOMAIN s = 1 .. n
        /\ \A i, j \in 1 .. n : i # j => Apart(s[i], s[j]) /\ s[i] # s[j]
    BY OrderedEntries, Zenon
  <1>1. /\ t \in Seq(MemoryAlloc) /\ Len(t) = n - 1
        /\ \A i \in 1 .. (n - 1) : t[i] = IF i < pos THEN s[i] ELSE s[i + 1]
    BY <1>0, EraseProperties, ZenonT(60)
  <1> HIDE DEF t
  <1>2. \A i \in 1 .. Len(t) : \E j \in 1 .. n : j # pos /\ t[i] = s[j]
    <2> SUFFICES ASSUME NEW i \in 1 .. Len(t)
                 PROVE  \E j \in 1 .. n : j # pos /\ t[i] = s[j]
      BY Zenon
    <2>1. CASE i < pos
      BY <1>0, <1>1, <2>1
    <2>2. CASE i >= pos
      <3>1. i + 1 \in 1 .. n /\ i + 1 # pos /\ t[i] = s[i + 1]
        BY <1>0, <1>1, <2>2
      <3> QED
        BY <3>1, Zenon
    <2> QED
      BY <1>0, <1>1, <2>1, <2>2
  <1>3. \A i \in 1 .. Len(t) : InSpace(t[i].m_Address, t[i].m_Size)
    BY <1>2, Zenon DEF Ordered
  <1>4. ASSUME NEW i \in 1 .. Len(t), NEW j \in 1 .. Len(t), i < j
        PROVE  After(t[i]) <= t[j].m_Address
    <2>0. \A a, b \in 1 .. n : a < b => After(s[a]) <= s[b].m_Address
      BY Zenon DEF Ordered
    <2>1. CASE j < pos
      <3>1. /\ i \in 1 .. n /\ j \in 1 .. n /\ i \in 1 .. (n - 1) /\ j \in 1 .. (n - 1)
            /\ i < pos
        BY <1>0, <1>1, <1>4, <2>1
      <3>2. t[i] = s[i] /\ t[j] = s[j]
        BY <1>1, <2>1, <3>1, Zenon
      <3> QED
        BY <1>4, <2>0, <3>1, <3>2, Zenon
    <2>2. CASE i < pos /\ j >= pos
      <3>1. j + 1 \in 1 .. n /\ i \in 1 .. n /\ t[j] = s[j + 1] /\ t[i] = s[i]
        <4>1. /\ j + 1 \in 1 .. n /\ i \in 1 .. n /\ ~(j < pos)
              /\ j \in 1 .. (n - 1) /\ i \in 1 .. (n - 1)
          BY <1>0, <1>1, <1>4, <2>2
        <4> QED
          BY <1>1, <2>2, <4>1, Zenon
      <3>2. i < j + 1
        BY <1>0, <1>1, <1>4
      <3> QED
        BY <2>0, <3>1, <3>2, Zenon
    <2>3. CASE i >= pos
      <3>1. /\ j + 1 \in 1 .. n /\ i + 1 \in 1 .. n
            /\ t[j] = s[j + 1] /\ t[i] = s[i + 1]
        <4>1. /\ j + 1 \in 1 .. n /\ i + 1 \in 1 .. n /\ ~(j < pos) /\ ~(i < pos)
              /\ j \in 1 .. (n - 1) /\ i \in 1 .. (n - 1)
          BY <1>0, <1>1, <1>4, <2>3
        <4> QED
          BY <1>1, <4>1, Zenon
      <3>2. i + 1 < j + 1
        BY <1>0, <1>1, <1>4
      <3> QED
        BY <2>0, <3>1, <3>2, Zenon
    <2> QED
      BY <1>0, <1>1, <2>1, <2>2, <2>3
  <1>5. \A i \in 1 .. Len(t) : Apart(t[i], s[pos])
    BY <1>0, <1>2, Zenon
  <1>6. Range(t) = Range(s) \ {s[pos]}
    <2>1. DOMAIN t = 1 .. Len(t)
      BY <1>1, LenProperties, Zenon
    <2>2. ASSUME NEW x \in Range(t) PROVE x \in Range(s) \ {s[pos]}
      <3>1. PICK i \in 1 .. Len(t) : x = t[i]
        BY <2>1, Zenon DEF Range
      <3>2. PICK j \in 1 .. n : j # pos /\ x = s[j]
        BY <1>2, <3>1, Zenon
      <3> QED
        BY <1>0, <3>2, Zenon DEF Range
    <2>3. ASSUME NEW j \in 1 .. n, s[j] # s[pos] PROVE s[j] \in Range(t)
      <3>1. CASE j < pos
        <4>1. j \in 1 .. Len(t) /\ t[j] = s[j]
          BY <1>0, <1>1, <3>1
        <4> QED
          BY <2>1, <4>1, Zenon DEF Range
      <3>2. CASE j > pos
        <4>1. j - 1 \in 1 .. Len(t) /\ t[j - 1] = s[j]
          BY <1>0, <1>1, <3>2
        <4> QED
          BY <2>1, <4>1, Zenon DEF Range
      <3> QED
        BY <1>0, <2>3, <3>1, <3>2
    <2> QED
      BY <1>0, <2>2, <2>3, Zenon DEF Range
  <1> QED
    BY <1>1, <1>3, <1>4, <1>5, <1>6, Zenon DEF Ordered, t

\* In an ordered map find returns an entry that meets the key, and end() only
\* when no entry does.
LEMMA FindOrdered ==
  ASSUME NEW s, Ordered(s), NEW k \in MemoryAlloc,
         InSpace(k.m_Address, k.m_Size), NEW pos \in Find(s, k)
  PROVE  /\ pos = End => \A i \in 1 .. Len(s) : Apart(s[i], k)
         /\ pos # End => pos \in 1 .. Len(s) /\ ~Apart(s[pos], k)
  <1> DEFINE n == Len(s)
  <1>0. /\ s \in Seq(MemoryAlloc) /\ n \in Nat /\ DOMAIN s = 1 .. n
        /\ \A i \in 1 .. n :
              /\ s[i] \in MemoryAlloc
              /\ s[i].m_Address \in Nat /\ s[i].m_Size \in Nat
              /\ After(s[i]) \in Nat /\ s[i].m_Address < After(s[i])
    BY OrderedEntries, Zenon
  <1>1. /\ k.m_Address \in Nat /\ k.m_Size \in Nat /\ After(k) \in Nat
        /\ k.m_Address < After(k)
    BY AddressSpaceAssumption DEF MemoryAlloc, Addr32, After
  <1>2. /\ \A i \in 1 .. n : InSpace(s[i].m_Address, s[i].m_Size)
        /\ \A i, j \in 1 .. n : i < j => After(s[i]) <= s[j].m_Address
    BY Zenon DEF Ordered
  <1>3. PICK g \in 1 .. (n + 1) :
          /\ g > 1 => Less(s[g - 1], k)
          /\ g <= n => ~Less(s[g], k)
          /\ pos = IF g <= n /\ ~Less(k, s[g]) THEN g ELSE End
    BY Zenon DEF Find
  <1>4. /\ g > 1 => After(s[g - 1]) <= k.m_Address
        /\ g <= n => ~(After(s[g]) <= k.m_Address)
        /\ pos = IF g <= n /\ ~(After(k) <= s[g].m_Address) THEN g ELSE End
    <2>1. ASSUME g > 1 PROVE After(s[g - 1]) <= k.m_Address
      <3>1. g - 1 \in 1 .. n
        BY <1>0, <2>1
      <3> QED
        BY <1>0, <1>2, <1>3, <2>1, <3>1, LessIsBefore, Zenon
    <2>2. ASSUME g <= n
          PROVE  /\ Less(s[g], k) <=> After(s[g]) <= k.m_Address
                 /\ Less(k, s[g]) <=> After(k) <= s[g].m_Address
      <3>1. g \in 1 .. n
        BY <1>0, <2>2
      <3> QED
        BY <1>0, <1>2, <3>1, LessIsBefore, Zenon
    <2> QED
      BY <1>3, <2>1, <2>2, Zenon
  <1>5. CASE g <= n /\ ~(After(k) <= s[g].m_Address)
    BY <1>0, <1>4, <1>5 DEF Apart, End
  <1>6. CASE ~(g <= n /\ ~(After(k) <= s[g].m_Address))
    <2> SUFFICES ASSUME NEW i \in 1 .. n
                 PROVE  Apart(s[i], k)
      BY <1>4, <1>6, Zenon
    <2>1. CASE i < g
      <3>1. g - 1 \in 1 .. n /\ After(s[g - 1]) <= k.m_Address
        BY <1>0, <1>4, <2>1
      <3>2. i = g - 1 \/ After(s[i]) <= s[g - 1].m_Address
        BY <1>0, <1>2, <2>1, <3>1
      <3>3. After(s[i]) <= k.m_Address
        <4>1. s[g - 1].m_Address < After(s[g - 1])
          BY <1>0, <3>1, Zenon
        <4>2. /\ After(s[i]) \in Nat /\ s[g - 1].m_Address \in Nat
              /\ After(s[g - 1]) \in Nat /\ k.m_Address \in Nat
          BY <1>0, <1>1, <3>1, Zenon
        <4>3. CASE i = g - 1
          BY <3>1, <4>3, Zenon
        <4>4. CASE After(s[i]) <= s[g - 1].m_Address
          BY <3>1, <4>1, <4>2, <4>4
        <4> QED
          BY <3>2, <4>3, <4>4, Zenon
      <3> QED
        BY <3>3, Zenon DEF Apart
    <2>2. CASE i >= g
      <3>1. g \in 1 .. n /\ After(k) <= s[g].m_Address
        BY <1>0, <1>6, <2>2
      <3>2. i = g \/ After(s[g]) <= s[i].m_Address
        BY <1>0, <1>2, <2>2, <3>1
      <3> QED
        BY <1>0, <1>1, <3>1, <3>2 DEF Apart
    <2> QED
      BY <1>0, <2>1, <2>2
  <1> QED
    BY <1>5, <1>6, Zenon

-----------------------------------------------------------------------------
(***************************************************************************)
(* The operations.                                                         *)
(***************************************************************************)

\* The bytes of an allocation run up to the address After it, and allocations
\* are apart when they share none.
LEMMA BytesOf ==
  ASSUME NEW x \in MemoryAlloc, NEW y \in MemoryAlloc
  PROVE  /\ \A p \in Addr32 :
              p \in Table!Bytes(x) <=> x.m_Address <= p /\ p < After(x)
         /\ Table!Overlaps(x, y) <=> ~Apart(x, y)
  <1>1. /\ x.m_Address \in Nat /\ x.m_Size \in Nat
        /\ y.m_Address \in Nat /\ y.m_Size \in Nat
    BY AddressSpaceAssumption DEF MemoryAlloc, Addr32
  <1>2. \A p \in Int :
          /\ p \in Table!Bytes(x) <=> x.m_Address <= p /\ p < After(x)
          /\ p \in Table!Bytes(y) <=> y.m_Address <= p /\ p < After(y)
    BY <1>1 DEF Table!Bytes, After
  <1>3. \A p \in Table!Bytes(x) : p \in Int
    BY <1>1 DEF Table!Bytes
  <1>4. /\ After(x) \in Nat /\ After(y) \in Nat
        /\ x.m_Address < After(x) /\ y.m_Address < After(y)
    BY <1>1 DEF After
  <1>5. ASSUME ~Apart(x, y) PROVE Table!Overlaps(x, y)
    <2>1. After(x) > y.m_Address /\ After(y) > x.m_Address
      BY <1>1, <1>4, <1>5 DEF Apart
    <2>2. CASE x.m_Address <= y.m_Address
      <3>1. y.m_Address \in Table!Bytes(x) /\ y.m_Address \in Table!Bytes(y)
        BY <1>1, <1>2, <1>4, <2>1, <2>2
      <3> QED
        BY <3>1, Zenon DEF Table!Overlaps
    <2>3. CASE y.m_Address < x.m_Address
      <3>1. x.m_Address \in Table!Bytes(x) /\ x.m_Address \in Table!Bytes(y)
        BY <1>1, <1>2, <1>4, <2>1, <2>3
      <3> QED
        BY <3>1, Zenon DEF Table!Overlaps
    <2> QED
      BY <1>1, <2>2, <2>3
  <1>6. ASSUME Table!Overlaps(x, y) PROVE ~Apart(x, y)
    <2>1. PICK a \in Table!Bytes(x) : a \in Table!Bytes(y)
      BY <1>6, Zenon DEF Table!Overlaps
    <2>2. a \in Int /\ a < After(x) /\ a >= x.m_Address /\ a < After(y) /\ a >= y.m_Address
      BY <1>2, <1>3, <2>1, Zenon
    <2> QED
      BY <1>1, <1>4, <2>2 DEF Apart
  <1>7. Addr32 \subseteq Int
    BY AddressSpaceAssumption DEF Addr32
  <1> QED
    BY <1>2, <1>5, <1>6, <1>7, Zenon

\* A part of an allocation is apart from whatever the allocation is apart from.
LEMMA PartApart ==
  ASSUME NEW x \in MemoryAlloc, NEW e \in MemoryAlloc, NEW k \in MemoryAlloc,
         Apart(x, e), e.m_Address <= k.m_Address, After(k) <= After(e)
  PROVE  Apart(x, k)
  <1>1. /\ x.m_Address \in Nat /\ x.m_Size \in Nat
        /\ e.m_Address \in Nat /\ e.m_Size \in Nat
        /\ k.m_Address \in Nat /\ k.m_Size \in Nat
    BY AddressSpaceAssumption DEF MemoryAlloc, Addr32
  <1> QED
    BY <1>1 DEF Apart, After

\* A key made of Addr32 values is a MemoryAlloc.
LEMMA KeyType ==
  ASSUME NEW p \in Addr32, NEW n \in Addr32
  PROVE  /\ Key(p, n) \in MemoryAlloc
         /\ Key(p, n).m_Address = p /\ Key(p, n).m_Size = n
         /\ Table!Object(p, n) = Key(p, n)
  BY Zenon DEF Key, MemoryAlloc, Table!Object

\* The state after an operation on an ordered map.
Good == Ordered(m_MemoryMap) /\ ret \in {0, 1}

\* NewMemoryAlloc keeps the order, and is an allocation of the table.
LEMMA NewMemoryAllocStep ==
  ASSUME Ordered(m_MemoryMap), NEW p \in Addr32, NEW n \in Addr32,
         InSpace(p, n), NewMemoryAlloc(p, n)
  PROVE  Good' /\ Table!Alloc(p, n)
  <1> DEFINE k == Key(p, n)
             s == m_MemoryMap
  <1>0. /\ k \in MemoryAlloc /\ InSpace(k.m_Address, k.m_Size)
        /\ Table!Object(p, n) = k
    BY KeyType, Zenon
  <1> HIDE DEF k
  <1>1. PICK g \in InsertGaps(s, k) :
          \/ Inserts(s, k, g) /\ s' = InsertAt(s, g, k) /\ ret' = 0
          \/ ~Inserts(s, k, g) /\ ret' = 1 /\ s' = s
    BY Zenon DEF NewMemoryAlloc, k
  <1>2. /\ DOMAIN s = 1 .. Len(s)
        /\ \A i \in 1 .. Len(s) : s[i] \in MemoryAlloc
    BY OrderedEntries, Zenon
  <1>3. \A i \in 1 .. Len(s) : Table!Overlaps(s[i], k) <=> ~Apart(s[i], k)
    BY <1>0, <1>2, BytesOf, Zenon
  <1>4. CASE Inserts(s, k, g)
    <2>1. /\ \A i \in 1 .. Len(s) : Apart(s[i], k)
          /\ Ordered(InsertAt(s, g, k))
          /\ Range(InsertAt(s, g, k)) = Range(s) \cup {k}
      BY <1>0, <1>4, InsertOrdered, Zenon
    <2>2. s' = InsertAt(s, g, k) /\ ret' = 0
      BY <1>1, <1>4, Zenon
    <2>3. \A o \in Range(s) : ~Table!Overlaps(o, k)
      BY <1>2, <1>3, <2>1, Zenon DEF Range
    <2>4. Range(s)' = Range(s) \cup {k}
      BY <2>1, <2>2, Zenon
    <2> QED
      BY <1>0, <2>1, <2>2, <2>3, <2>4, Zenon DEF Good, Table!Alloc
  <1>5. CASE ~Inserts(s, k, g)
    <2>1. PICK i \in 1 .. Len(s) : ~Apart(s[i], k)
      BY <1>0, <1>5, InsertOrdered, Zenon
    <2>2. s[i] \in Range(s) /\ Table!Overlaps(s[i], k)
      BY <1>2, <1>3, <2>1, Zenon DEF Range
    <2>3. s' = s /\ ret' = 1
      BY <1>1, <1>5, Zenon
    <2> QED
      BY <1>0, <2>2, <2>3, Zenon DEF Good, Table!Alloc
  <1> QED
    BY <1>4, <1>5, Zenon

\* The early returns of the frees are the free of nothing of the table.
LEMMA FreeNothingStep ==
  ASSUME Ordered(m_MemoryMap), NEW p \in Addr32,
         FreeNull(p) \/ FreeUnallocated(p)
  PROVE  Good' /\ Table!FreeNothing(p)
  <1> DEFINE s == m_MemoryMap
             k == Key(p, 0)
  <1>0. 0 \in Addr32 /\ p \in Nat /\ p < AddressSpace
    BY AddressSpaceAssumption DEF Addr32
  <1>1. k \in MemoryAlloc /\ k.m_Address = p /\ k.m_Size = 0 /\ InSpace(k.m_Address, k.m_Size)
    BY <1>0, KeyType DEF InSpace
  <1>2. CASE FreeNull(p)
    BY <1>2, Zenon DEF FreeNull, Good, Table!FreeNothing
  <1>3. CASE FreeUnallocated(p)
    <2>1. \A i \in 1 .. Len(s) : Apart(s[i], k)
      BY <1>1, <1>3, FindOrdered, Zenon DEF FreeUnallocated
    <2>2. /\ DOMAIN s = 1 .. Len(s)
          /\ \A i \in 1 .. Len(s) : s[i] \in MemoryAlloc
      BY OrderedEntries, Zenon
    <2>3. ASSUME NEW i \in 1 .. Len(s) PROVE p \notin Table!Bytes(s[i])
      <3>1. After(k) = p + 1
        BY <1>1, Zenon DEF After
      <3>2. After(s[i]) <= p \/ p + 1 <= s[i].m_Address
        BY <1>1, <2>1, <3>1, Zenon DEF Apart
      <3>3. s[i].m_Address \in Nat /\ After(s[i]) \in Nat
        BY OrderedEntries, Zenon
      <3> QED
        BY <1>0, <2>2, <3>2, <3>3, BytesOf
    <2>4. \A o \in Range(s) : p \notin Table!Bytes(o)
      BY <2>2, <2>3, Zenon DEF Range
    <2> QED
      BY <1>3, <2>4, Zenon DEF FreeUnallocated, Good, Table!FreeNothing
  <1> QED
    BY <1>2, <1>3, Zenon

\* The entry a free finds holds the byte the pointer names.
LEMMA FoundEntry ==
  ASSUME Ordered(m_MemoryMap), NEW p \in Addr32, NEW pos \in Found(p)
  PROVE  /\ p # 0 /\ pos \in 1 .. Len(m_MemoryMap)
         /\ m_MemoryMap[pos] \in MemoryAlloc
         /\ m_MemoryMap[pos] \in Range(m_MemoryMap)
         /\ InSpace(m_MemoryMap[pos].m_Address, m_MemoryMap[pos].m_Size)
         /\ m_MemoryMap[pos].m_Address <= p /\ p < After(m_MemoryMap[pos])
         /\ p \in Table!Bytes(m_MemoryMap[pos])
  <1> DEFINE s == m_MemoryMap
             k == Key(p, 0)
  <1>0. 0 \in Addr32 /\ p \in Nat /\ p < AddressSpace
    BY AddressSpaceAssumption DEF Addr32
  <1>1. k \in MemoryAlloc /\ k.m_Address = p /\ k.m_Size = 0 /\ InSpace(k.m_Address, k.m_Size)
    BY <1>0, KeyType DEF InSpace
  <1>2. p # 0 /\ pos \in Find(s, k) /\ pos # End
    BY Zenon DEF Found
  <1>3. pos \in 1 .. Len(s) /\ ~Apart(s[pos], k)
    BY <1>1, <1>2, FindOrdered, Zenon
  <1>4. /\ DOMAIN s = 1 .. Len(s) /\ s[pos] \in MemoryAlloc
        /\ s[pos].m_Address \in Nat /\ After(s[pos]) \in Nat
    BY <1>3, OrderedEntries, Zenon
  <1>5. After(k) = p + 1
    BY <1>1, Zenon DEF After
  <1>6. s[pos].m_Address <= p /\ p < After(s[pos])
    BY <1>0, <1>1, <1>3, <1>4, <1>5 DEF Apart
  <1>7. InSpace(s[pos].m_Address, s[pos].m_Size)
    BY <1>3, Zenon DEF Ordered
  <1>8. s[pos] \in Range(s)
    BY <1>3, <1>4, Zenon DEF Range
  <1> QED
    BY <1>2, <1>3, <1>4, <1>6, <1>7, <1>8, BytesOf, Zenon

\* FreeMemory keeps the order, and is a free of the table.
LEMMA FreeMemoryStep ==
  ASSUME Ordered(m_MemoryMap), NEW p \in Addr32, FreeMemory(p)
  PROVE  Good' /\ Table!Free(p)
  <1>1. CASE FreeNull(p) \/ FreeUnallocated(p)
    BY <1>1, FreeNothingStep, Zenon DEF Table!Free
  <1>2. ASSUME NEW pos \in Found(p),
               IF m_MemoryMap[pos].m_Address = p
               THEN m_MemoryMap' = Erase(m_MemoryMap, pos) /\ ret' = 0
               ELSE ret' = 1 /\ UNCHANGED m_MemoryMap
        PROVE  Good' /\ Table!Free(p)
    <2>1. /\ p # 0 /\ pos \in 1 .. Len(m_MemoryMap)
          /\ m_MemoryMap[pos] \in Range(m_MemoryMap)
          /\ p \in Table!Bytes(m_MemoryMap[pos])
      BY FoundEntry, Zenon
    <2>2. /\ Ordered(Erase(m_MemoryMap, pos))
          /\ Range(Erase(m_MemoryMap, pos)) =
               Range(m_MemoryMap) \ {m_MemoryMap[pos]}
      BY <2>1, EraseOrdered, Zenon
    <2> QED
      BY <1>2, <2>1, <2>2, Zenon DEF Good, Table!Free
  <1> QED
    BY <1>1, <1>2, Zenon DEF FreeMemory

\* Freeing the front of an allocation leaves the rest of it.
LEMMA TruncateFrontStep ==
  ASSUME Ordered(m_MemoryMap), NEW p \in Addr32, NEW n \in Addr32,
         NEW pos \in Found(p), m_MemoryMap[pos].m_Address = p,
         n < m_MemoryMap[pos].m_Size, TruncateFront(pos, n)
  PROVE  /\ Ordered(m_MemoryMap)'
         /\ Range(m_MemoryMap)' = (Range(m_MemoryMap) \ {m_MemoryMap[pos]})
                                   \cup Table!From(m_MemoryMap[pos], p + n)
  <1> DEFINE s == m_MemoryMap
             e == s[pos]
             k == Key(p + n, e.m_Size - n)
             t == Erase(s, pos)
  <1>1. /\ pos \in 1 .. Len(s) /\ e \in MemoryAlloc
        /\ InSpace(e.m_Address, e.m_Size)
    BY FoundEntry, Zenon
  <1>2. /\ p \in Nat /\ n \in Nat /\ e.m_Size \in Nat /\ e.m_Address = p
        /\ p + e.m_Size < AddressSpace
    BY <1>1, AddressSpaceAssumption DEF MemoryAlloc, Addr32, InSpace
  <1>3. p + n \in Addr32 /\ e.m_Size - n \in Addr32 /\ e.m_Size - n > 0
    BY <1>2, AddressSpaceAssumption DEF Addr32
  <1>4. s' \in Insert(t, k)
    BY <1>2, <1>3, WrapSmall, Zenon DEF TruncateFront
  <1>5. /\ k \in MemoryAlloc /\ k.m_Address = p + n /\ k.m_Size = e.m_Size - n
        /\ Table!Object(p + n, e.m_Size - n) = k
    BY <1>3, KeyType, Zenon
  <1>6. /\ Ordered(t) /\ Range(t) = Range(s) \ {e}
        /\ \A i \in 1 .. Len(t) : Apart(t[i], e)
    BY <1>1, EraseOrdered, Zenon
  <1> HIDE DEF k, t
  <1>7. InSpace(k.m_Address, k.m_Size) /\ e.m_Address <= k.m_Address /\ After(k) <= After(e)
    BY <1>2, <1>3, <1>5, SMTT(60) DEF InSpace, After
  <1>8. \A i \in 1 .. Len(t) : t[i] \in MemoryAlloc
    BY <1>6, OrderedEntries, Zenon
  <1>9. \A i \in 1 .. Len(t) : Apart(t[i], k)
    BY <1>1, <1>5, <1>6, <1>7, <1>8, PartApart, Zenon
  <1>10. Ordered(s') /\ Range(s') = Range(t) \cup {k}
    BY <1>4, <1>5, <1>6, <1>7, <1>9, InsertApart
  <1>11. Table!From(e, p + n) = {k}
    <2>1. Table!Limit(e) - (p + n) = e.m_Size - n /\ p + n < Table!Limit(e)
      BY <1>2, <1>3 DEF Table!Limit
    <2> QED
      BY <2>1, <1>5, Zenon DEF Table!From
  <1> QED
    BY <1>6, <1>10, <1>11, Zenon

\* FreeSizeMemory keeps the order, and is a sized free of the table.
LEMMA FreeSizeMemoryStep ==
  ASSUME Ordered(m_MemoryMap), NEW p \in Addr32, NEW n \in Addr32,
         FreeSizeMemory(p, n)
  PROVE  Good' /\ Table!FreeSize(p, n)
  <1> DEFINE s == m_MemoryMap
  <1>1. CASE FreeNull(p) \/ FreeUnallocated(p)
    BY <1>1, FreeNothingStep, Zenon DEF Table!FreeSize
  <1>2. ASSUME NEW pos \in Found(p),
               \/ /\ s[pos].m_Address = p /\ s[pos].m_Size = n
                  /\ s' = Erase(s, pos) /\ ret' = 0
               \/ /\ s[pos].m_Address = p /\ n < s[pos].m_Size
                  /\ TruncateFront(pos, n) /\ ret' = 1
               \/ /\ s[pos].m_Address = p => n > s[pos].m_Size
                  /\ ret' = 1 /\ s' = s
        PROVE  Good' /\ Table!FreeSize(p, n)
    <2> DEFINE e == s[pos]
    <2>1. /\ p # 0 /\ pos \in 1 .. Len(s) /\ e \in MemoryAlloc
          /\ e \in Range(s) /\ p \in Table!Bytes(e)
      BY FoundEntry, Zenon
    <2>2. p \in Nat /\ n \in Nat /\ e.m_Size \in Nat /\ e.m_Address \in Nat
      BY <2>1, AddressSpaceAssumption DEF MemoryAlloc, Addr32
    <2>3. SUFFICES /\ Ordered(s)' /\ ret' \in {0, 1}
                   /\ Range(s)' = IF p = e.m_Address /\ n <= e.m_Size
                                  THEN (Range(s) \ {e}) \cup Table!From(e, p + n)
                                  ELSE Range(s)
                   /\ ret' = IF p = e.m_Address /\ n = e.m_Size THEN 0 ELSE 1
      BY <2>1, ZenonT(60) DEF Good, Table!FreeSize
    <2>4. CASE e.m_Address = p /\ e.m_Size = n /\ s' = Erase(s, pos) /\ ret' = 0
      <3>1. Ordered(Erase(s, pos)) /\ Range(Erase(s, pos)) = Range(s) \ {e}
        BY <2>1, EraseOrdered, Zenon
      <3>2. Table!From(e, p + n) = {}
        BY <2>2, <2>4 DEF Table!From, Table!Limit
      <3> QED
        BY <2>2, <2>4, <3>1, <3>2
    <2>5. CASE e.m_Address = p /\ n < e.m_Size /\ TruncateFront(pos, n) /\ ret' = 1
      <3>1. /\ Ordered(s)'
            /\ Range(s)' = (Range(s) \ {e}) \cup Table!From(e, p + n)
        BY <2>5, TruncateFrontStep, Zenon
      <3> QED
        BY <2>2, <2>5, <3>1
    <2>6. CASE (e.m_Address = p => n > e.m_Size) /\ ret' = 1 /\ s' = s
      BY <2>2, <2>6
    <2> QED
      BY <1>2, <2>4, <2>5, <2>6, Zenon
  <1> QED
    BY <1>1, <1>2, Zenon DEF FreeSizeMemory

\* A free in the middle of an allocation that stays within it leaves the chunk
\* before the freed bytes and the tail after them.
LEMMA FreeMiddleStep ==
  ASSUME Ordered(m_MemoryMap), NEW p \in Addr32, NEW n \in Addr32,
         NEW pos \in Found(p), m_MemoryMap[pos].m_Address # p,
         p + n <= m_MemoryMap[pos].m_Address + m_MemoryMap[pos].m_Size,
         FreeMiddle(pos, p, n)
  PROVE  /\ Ordered(m_MemoryMap)'
         /\ Range(m_MemoryMap)' = (Range(m_MemoryMap) \ {m_MemoryMap[pos]})
                                   \cup Table!Below(m_MemoryMap[pos], p)
                                   \cup Table!From(m_MemoryMap[pos], p + n)
  <1> DEFINE s == m_MemoryMap
             e == s[pos]
             t == Erase(s, pos)
             left == Key(e.m_Address, p - e.m_Address)
             limit == e.m_Address + e.m_Size
             right == Key(p + n, limit - (p + n))
  <1>1. /\ pos \in 1 .. Len(s) /\ e \in MemoryAlloc
        /\ InSpace(e.m_Address, e.m_Size) /\ e.m_Address <= p /\ p < After(e)
    BY FoundEntry, Zenon
  <1>2. /\ p \in Nat /\ n \in Nat /\ e.m_Size \in Nat /\ e.m_Address \in Nat
        /\ e.m_Address \in Addr32 /\ limit < AddressSpace
    BY <1>1, AddressSpaceAssumption, SMTT(60) DEF MemoryAlloc, Addr32, InSpace
  <1>3. e.m_Address < p /\ p < limit /\ After(e) = limit /\ p + n <= limit
    BY <1>1, <1>2, SMTT(60) DEF After
  <1>4. /\ p - e.m_Address \in Addr32 /\ limit \in Addr32 /\ p + n \in Addr32
        /\ limit - (p + n) \in Addr32
    BY <1>2, <1>3, AddressSpaceAssumption DEF Addr32
  <1>5. PICK chunk \in Insert(t, left) :
          s' \in IF p + n = limit THEN {chunk} ELSE Insert(chunk, right)
    <2>1. /\ Wrap(p + n) = p + n /\ Wrap(limit) = limit
          /\ Wrap(limit - (p + n)) = limit - (p + n)
          /\ Wrap(p - e.m_Address) = p - e.m_Address
      BY <1>4, WrapSmall, Zenon
    <2> QED
      BY <2>1, Zenon DEF FreeMiddle
  <1>6. /\ left \in MemoryAlloc /\ left.m_Address = e.m_Address
        /\ left.m_Size = p - e.m_Address
        /\ Table!Object(e.m_Address, p - e.m_Address) = left
    BY <1>2, <1>4, KeyType, Zenon
  <1>7. /\ right \in MemoryAlloc /\ right.m_Address = p + n
        /\ right.m_Size = limit - (p + n)
        /\ Table!Object(p + n, limit - (p + n)) = right
    BY <1>4, KeyType
  <1>8. /\ Ordered(t) /\ Range(t) = Range(s) \ {e}
        /\ \A i \in 1 .. Len(t) : Apart(t[i], e)
    BY <1>1, EraseOrdered, Zenon
  <1> HIDE DEF t, left, right
  <1>9. \A i \in 1 .. Len(t) : t[i] \in MemoryAlloc
    BY <1>8, OrderedEntries, Zenon
  <1>10. /\ InSpace(left.m_Address, left.m_Size) /\ After(left) = p
         /\ \A i \in 1 .. Len(t) : Apart(t[i], left)
    <2>1. After(left) = p /\ InSpace(left.m_Address, left.m_Size)
      BY <1>2, <1>3, <1>6, AddressSpaceAssumption DEF After, InSpace, Addr32
    <2>2. e.m_Address <= left.m_Address /\ After(left) <= After(e)
      BY <1>2, <1>3, <1>6, <2>1
    <2> QED
      BY <1>1, <1>6, <1>8, <1>9, <2>1, <2>2, PartApart, Zenon
  <1>11. Ordered(chunk) /\ Range(chunk) = Range(t) \cup {left}
    BY <1>5, <1>6, <1>8, <1>10, InsertApart
  <1>12. Table!Below(e, p) = {left}
    BY <1>2, <1>3, <1>6, Zenon DEF Table!Below
  <1>13. CASE p + n = limit
    <2>1. Table!From(e, p + n) = {}
      BY <1>2, <1>13, SMTT(60) DEF Table!From, Table!Limit
    <2> QED
      BY <1>5, <1>8, <1>11, <1>12, <1>13, <2>1, Zenon
  <1>14. CASE p + n # limit
    <2>1. p + n < limit
      BY <1>2, <1>3, <1>14, SMTT(60)
    <2>2. /\ InSpace(right.m_Address, right.m_Size) /\ After(right) = limit
          /\ e.m_Address <= right.m_Address /\ p <= right.m_Address
      BY <1>2, <1>3, <1>7, <2>1, SMTT(60) DEF InSpace, After
    <2>3. ASSUME NEW o \in Range(chunk) PROVE Apart(o, right)
      <3>1. CASE o = left
        BY <1>10, <2>2, <3>1, Zenon DEF Apart
      <3>2. CASE o \in Range(t)
        <4>1. PICK i \in 1 .. Len(t) : o = t[i]
          BY <1>8, <3>2, OrderedEntries, Zenon DEF Range
        <4> QED
          <5>1. o \in MemoryAlloc /\ Apart(o, e)
            BY <1>8, <1>9, <4>1, Zenon
          <5>2. e.m_Address <= right.m_Address /\ After(right) <= After(e)
            BY <1>2, <1>3, <2>2, SMTT(60)
          <5> QED
            BY <1>1, <1>7, <5>1, <5>2, PartApart, Zenon
      <3> QED
        BY <1>11, <3>1, <3>2, Zenon
    <2>4. \A i \in 1 .. Len(chunk) : Apart(chunk[i], right)
      BY <1>11, <2>3, OrderedEntries, Zenon DEF Range
    <2>5. s' \in Insert(chunk, right)
      BY <1>5, <1>14, Zenon
    <2>6. Ordered(s') /\ Range(s') = Range(chunk) \cup {right}
      BY <1>7, <1>11, <2>2, <2>4, <2>5, InsertApart, Zenon
    <2>7. Table!From(e, p + n) = {right}
      BY <1>2, <1>7, <2>1, Zenon DEF Table!From, Table!Limit
    <2> QED
      BY <1>8, <1>11, <1>12, <2>6, <2>7, Zenon
  <1> QED
    BY <1>13, <1>14, Zenon

\* FreeAnySizeMemory within an allocation keeps the order, and is the table's
\* free of any part of it.
LEMMA FreeAnySizeMemoryStep ==
  ASSUME Ordered(m_MemoryMap), NEW p \in Addr32, NEW n \in Addr32,
         WithinAllocation(p, n), FreeAnySizeMemory(p, n)
  PROVE  Good' /\ Table!FreeAnySize(p, n)
  <1> DEFINE s == m_MemoryMap
  <1>1. CASE FreeNull(p) \/ FreeUnallocated(p)
    BY <1>1, FreeNothingStep, Zenon DEF Table!FreeAnySize
  <1>2. ASSUME NEW pos \in Found(p), ret' = 0,
               \/ /\ s[pos].m_Address = p /\ n < s[pos].m_Size
                  /\ TruncateFront(pos, n)
               \/ /\ s[pos].m_Address = p /\ n >= s[pos].m_Size
                  /\ s' = Erase(s, pos)
               \/ s[pos].m_Address # p /\ FreeMiddle(pos, p, n)
        PROVE  Good' /\ Table!FreeAnySize(p, n)
    <2> DEFINE e == s[pos]
    <2>1. /\ p # 0 /\ pos \in 1 .. Len(s) /\ e \in MemoryAlloc
          /\ e \in Range(s) /\ p \in Table!Bytes(e)
      BY FoundEntry, Zenon
    <2>2. p \in Nat /\ n \in Nat /\ e.m_Size \in Nat /\ e.m_Address \in Nat
      BY <2>1, AddressSpaceAssumption DEF MemoryAlloc, Addr32
    <2>3. SUFFICES /\ Ordered(s)'
                   /\ Range(s)' = (Range(s) \ {e}) \cup Table!Below(e, p)
                                    \cup Table!From(e, p + n)
      BY <1>2, <2>1, Zenon DEF Good, Table!FreeAnySize
    <2>4. CASE e.m_Address = p
      <3>1. Table!Below(e, p) = {}
        BY <2>2, <2>4 DEF Table!Below
      <3>2. CASE n < e.m_Size /\ TruncateFront(pos, n)
        BY <2>4, <3>1, <3>2, TruncateFrontStep, Zenon
      <3>3. CASE n >= e.m_Size /\ s' = Erase(s, pos)
        <4>1. Ordered(Erase(s, pos)) /\ Range(Erase(s, pos)) = Range(s) \ {e}
          BY <2>1, EraseOrdered, Zenon
        <4>2. Table!From(e, p + n) = {}
          BY <2>2, <2>4, <3>3 DEF Table!From, Table!Limit
        <4> QED
          BY <3>1, <3>3, <4>1, <4>2, Zenon
      <3> QED
        BY <1>2, <2>4, <3>2, <3>3, Zenon
    <2>5. CASE e.m_Address # p
      <3>1. FreeMiddle(pos, p, n)
        BY <1>2, <2>5, Zenon
      <3>2. p + n <= e.m_Address + e.m_Size
        BY <2>5, Zenon DEF WithinAllocation
      <3> QED
        BY <2>5, <3>1, <3>2, FreeMiddleStep, Zenon
    <2> QED
      BY <2>4, <2>5, Zenon
  <1> QED
    BY <1>1, <1>2, Zenon DEF FreeAnySizeMemory

-----------------------------------------------------------------------------
(***************************************************************************)
(* The theorems.                                                           *)
(***************************************************************************)

\* Every step from an ordered map leaves an ordered map, and is a step of the
\* table or leaves it unchanged.
LEMMA ShadowStepGood ==
  ASSUME Good, [ShadowNext]_shadowVars
  PROVE  Good' /\ [Table!Next]_(Table!vars)
  <1>1. CASE UNCHANGED shadowVars
    BY <1>1, Zenon DEF Good, shadowVars, Table!vars
  <1>2. ASSUME NEW p \in Addr32, NEW n \in Addr32,
               \/ InSpace(p, n) /\ NewMemoryAlloc(p, n)
               \/ FreeMemory(p)
               \/ FreeSizeMemory(p, n)
               \/ WithinAllocation(p, n) /\ FreeAnySizeMemory(p, n)
        PROVE  Good' /\ Table!Next
    <2>0. Ordered(m_MemoryMap) /\ p \in Table!Addr32 /\ n \in Table!Addr32
      BY Zenon DEF Good, Addr32, Table!Addr32
    <2>1. CASE InSpace(p, n) /\ NewMemoryAlloc(p, n)
      <3>1. Good' /\ Table!Alloc(p, n)
        BY <2>0, <2>1, NewMemoryAllocStep, Zenon
      <3> QED
        BY <2>0, <3>1, Zenon DEF Table!Next
    <2>2. CASE FreeMemory(p)
      <3>1. Good' /\ Table!Free(p)
        BY <2>0, <2>2, FreeMemoryStep, Zenon
      <3> QED
        BY <2>0, <3>1, Zenon DEF Table!Next
    <2>3. CASE FreeSizeMemory(p, n)
      <3>1. Good' /\ Table!FreeSize(p, n)
        BY <2>0, <2>3, FreeSizeMemoryStep, Zenon
      <3> QED
        BY <2>0, <3>1, Zenon DEF Table!Next
    <2>4. CASE WithinAllocation(p, n) /\ FreeAnySizeMemory(p, n)
      <3>1. Good' /\ Table!FreeAnySize(p, n)
        BY <2>0, <2>4, FreeAnySizeMemoryStep, Zenon
      <3> QED
        BY <2>0, <3>1, Zenon DEF Table!Next
    <2> QED
      BY <1>2, <2>1, <2>2, <2>3, <2>4, Zenon
  <1> QED
    BY <1>1, <1>2, Zenon DEF ShadowNext, CommonNext

\* The empty map is ordered, and is the empty table.
LEMMA ShadowInitGood == ShadowInit => Good /\ Table!Init
  <1> SUFFICES ASSUME ShadowInit PROVE Good /\ Table!Init
    BY Zenon
  <1>1. m_MemoryMap = <<>> /\ ret = 0
    BY Zenon DEF ShadowInit
  <1>2. m_MemoryMap \in Seq(MemoryAlloc) /\ Len(m_MemoryMap) = 0
    BY <1>1, EmptySeq, Zenon
  <1>3. Ordered(m_MemoryMap)
    BY <1>2 DEF Ordered
  <1>4. Range(m_MemoryMap) = {}
    BY <1>1 DEF Range
  <1> QED
    BY <1>1, <1>3, <1>4, Zenon DEF Good, Table!Init

\* The inductive invariant implies the two invariants of the specification.
LEMMA GoodImplies == Good => ShadowTypeOK /\ WellOrdered
  BY OrderedIsWellOrdered, Zenon DEF Good, ShadowTypeOK, Ordered

\* Whatever calls the guest makes, the map holds Addr32 keys and every operation
\* of ShadowMemory.cpp returns 0 or 1.
THEOREM ShadowTypeCorrect == ShadowSpec => []ShadowTypeOK
  <1>1. ShadowInit => Good
    BY ShadowInitGood, Zenon
  <1>2. Good /\ [ShadowNext]_shadowVars => Good'
    BY ShadowStepGood, Zenon
  <1>3. Good => ShadowTypeOK
    BY GoodImplies, Zenon
  <1> QED
    BY <1>1, <1>2, <1>3, PTL DEF ShadowSpec

\* Whatever calls the guest makes, the keys of m_MemoryMap stay disjoint, in
\* order and inside the address space, so that the comparator of MemoryAlloc
\* is the strict weak order std::map requires.
THEOREM AlwaysWellOrdered == ShadowSpec => []WellOrdered
  <1>1. ShadowInit => Good
    BY ShadowInitGood, Zenon
  <1>2. Good /\ [ShadowNext]_shadowVars => Good'
    BY ShadowStepGood, Zenon
  <1>3. Good => WellOrdered
    BY GoodImplies, Zenon
  <1> QED
    BY <1>1, <1>2, <1>3, PTL DEF ShadowSpec

\* The four operations of ShadowMemory.cpp implement the table of disjoint
\* allocations, in what they return and in what they leave allocated.
THEOREM ShadowMemoryImplementsTable == ShadowSpec => ImplementsTable
  <1>1. ShadowInit => Good /\ Table!Init
    BY ShadowInitGood, Zenon
  <1>2. Good /\ [ShadowNext]_shadowVars => Good' /\ [Table!Next]_(Table!vars)
    BY ShadowStepGood, Zenon
  <1> QED
    BY <1>1, <1>2, PTL DEF ShadowSpec, ImplementsTable, Table!Spec
=============================================================================
