-------------------------- MODULE GuestResetProofs --------------------------
(***************************************************************************)
(* Proofs about the whole of MemCheck beside a guest that may be reset,    *)
(* for every set of threads, functions and call sites, every address space *)
(* and window, and any number of resets.                                   *)
(*                                                                         *)
(* KInv has three parts.  Of the interceptor: no return address counts     *)
(* fewer calls than are pending, so every return of a heap function undoes *)
(* its call, and the switch is off by as many levels as calls are pending, *)
(* or by more once a reset has cut calls off.  Of the shadow memory: its   *)
(* map is in order.  Of the guest: what it gave back is not allocated.     *)
(***************************************************************************)
EXTENDS GuestReset, FunctionInterceptorProofs, ShadowMemoryProofs

CountsCover == \A r \in Site : RefCnt(r) >= Cardinality(PendingTo({r}))

GateExact == ~cut => Nesting = Cardinality(PendingTo(HeapSite))

FreedIsDead == freed \subseteq Addr32 \ {0} /\ \A a \in freed : a \notin LiveBytes

GateInv == TypeOK /\ CountsCover /\ GateCoversCalls /\ GateExact

KInv == GateInv /\ Ordered(m_MemoryMap) /\ FreedIsDead

-----------------------------------------------------------------------------
(***************************************************************************)
(* The switch.                                                             *)
(***************************************************************************)

\* No thread is inside the allocator exactly when no call of a heap function
\* is pending.
LEMMA QuietIsNonePending ==
  ASSUME TypeOK
  PROVE  Quiet <=> Cardinality(PendingTo(HeapSite)) = 0
  <1>1. \A t \in Thread : /\ stack[t] \in Seq(Site) /\ Len(stack[t]) \in Nat
                          /\ Len(stack[t]) <= MaxDepth
                          /\ \A i \in 1 .. Len(stack[t]) : stack[t][i] \in Site
    BY ElementOfSeq, LenProperties, Zenon DEF TypeOK
  <1>2. MaxDepth \in Nat
    BY GuestAssumption, Zenon
  <1>3. Quiet => PendingTo(HeapSite) = {}
    <2> SUFFICES ASSUME Quiet, NEW c \in PendingTo(HeapSite) PROVE FALSE
      BY Zenon
    <2>1. /\ c[1] \in Thread /\ c[2] \in 1 .. MaxDepth /\ c[2] <= Len(stack[c[1]])
          /\ stack[c[1]][c[2]] \in HeapSite
      BY Zenon DEF PendingTo
    <2>2. c[2] \in 1 .. Len(stack[c[1]])
      BY <1>1, <1>2, <2>1
    <2> QED
      BY <2>1, <2>2, Zenon DEF Quiet, InHeap, HeapSite
  <1>4. PendingTo(HeapSite) = {} => Quiet
    <2> SUFFICES ASSUME NEW t \in Thread, InHeap(t) PROVE PendingTo(HeapSite) # {}
      BY Zenon DEF Quiet
    <2>1. PICK i \in 1 .. Len(stack[t]) : Callee[stack[t][i]] \in HeapFunction
      BY Zenon DEF InHeap
    <2>2. i \in 1 .. MaxDepth /\ i <= Len(stack[t]) /\ stack[t][i] \in HeapSite
      BY <1>1, <1>2, <2>1 DEF HeapSite
    <2>3. <<t, i>> \in PendingTo(HeapSite)
      BY <2>2, Zenon DEF PendingTo
    <2> QED
      BY <2>3, Zenon
  <1> QED
    BY <1>3, <1>4, PendingFinite, FS_EmptySet, Zenon

\* While a thread is inside the allocator checking is off; while none is, and
\* no reset has cut off a call of the allocator, it is on.
LEMMA SwitchFollowsCalls ==
  ASSUME GateInv
  PROVE  /\ ~Quiet => m_MemoryAccessDisable = TRUE
         /\ Quiet /\ ~cut => m_MemoryAccessDisable = FALSE
  <1>1. GateTypeOK
    BY TypeOKParts, Zenon DEF GateInv
  <1>2. Cardinality(PendingTo(HeapSite)) \in Nat /\ Nesting \in Nat
    BY <1>1, PendingFinite, GateSteps, Zenon
  <1>3. Quiet <=> Cardinality(PendingTo(HeapSite)) = 0
    BY QuietIsNonePending, Zenon DEF GateInv
  <1>4. /\ Nesting >= Cardinality(PendingTo(HeapSite))
        /\ ~cut => Nesting = Cardinality(PendingTo(HeapSite))
    BY Zenon DEF GateInv, GateCoversCalls, GateExact
  <1>5. Nesting >= 1 => m_MemoryAccessDisable = TRUE
    BY <1>1 DEF Nesting, GateTypeOK
  <1>6. Nesting = 0 => m_MemoryAccessDisable = FALSE
    BY <1>1 DEF Nesting, GateTypeOK
  <1> QED
    BY <1>2, <1>3, <1>4, <1>5, <1>6

\* A call preserves the part of the invariant about the interceptor ...
LEMMA CallGateInv ==
  ASSUME GateInv, NEW t \in Thread, NEW r \in Site, Call(t, r), UNCHANGED cut
  PROVE  GateInv'
  <1>1. /\ TypeOK'
        /\ RefCnt(r)' = RefCnt(r) + 1
        /\ \A q \in Site \ {r} : RefCnt(q)' = RefCnt(q)
        /\ Nesting' = IF r \in HeapSite THEN Nesting + 1 ELSE Nesting
        /\ \A S : /\ r \in S => Cardinality(PendingTo(S)') = Cardinality(PendingTo(S)) + 1
                  /\ r \notin S => PendingTo(S)' = PendingTo(S)
    BY CallStep, Zenon DEF GateInv
  <1>2. Nesting \in Nat /\ \A S : Cardinality(PendingTo(S)) \in Nat
    BY TypeOKParts, PendingFinite, GateSteps, Zenon DEF GateInv
  <1>3. CountsCover'
    <2> SUFFICES ASSUME NEW q \in Site
                 PROVE  RefCnt(q)' >= Cardinality(PendingTo({q})')
      BY Zenon DEF CountsCover
    <2>1. RefCnt(q) >= Cardinality(PendingTo({q})) /\ RefCnt(q) \in Nat
      BY TypeOKParts, RefCntNat, Zenon DEF GateInv, CountsCover
    <2> QED
      BY <1>1, <1>2, <2>1
  <1>4. GateCoversCalls' /\ GateExact'
    <2>1. HeapSite' = HeapSite
      BY Zenon DEF HeapSite
    <2> QED
      BY <1>1, <1>2, <2>1 DEF GateInv, GateCoversCalls, GateExact
  <1> QED
    BY <1>1, <1>3, <1>4, Zenon DEF GateInv

\* ... and so does a return: the call it ends is counted.
LEMMA ReturnGateInv ==
  ASSUME GateInv, NEW t \in Thread, Return(t), UNCHANGED cut
  PROVE  GateInv'
  <1>1. TypeOK'
    BY ReturnStep, Zenon DEF GateInv
  <1>2. PICK r \in Site :
          /\ \A q \in Site \ {r} : RefCnt(q)' = RefCnt(q)
          /\ RefCnt(r) \in Nat
          /\ RefCnt(r) = 0 => Nesting' = Nesting /\ RefCnt(r)' = 0
          /\ RefCnt(r) # 0 => RefCnt(r)' = RefCnt(r) - 1
          /\ RefCnt(r) # 0 /\ r \in HeapSite /\ Nesting >= 1 => Nesting' = Nesting - 1
          /\ r \notin HeapSite => Nesting' = Nesting
          /\ \A S : /\ r \in S => /\ Cardinality(PendingTo(S)) >= 1
                                  /\ Cardinality(PendingTo(S)') = Cardinality(PendingTo(S)) - 1
                    /\ r \notin S => PendingTo(S)' = PendingTo(S)
    BY ReturnStep, Zenon DEF GateInv
  <1>3. Nesting \in Nat /\ \A S : Cardinality(PendingTo(S)) \in Nat
    BY TypeOKParts, PendingFinite, GateSteps, Zenon DEF GateInv
  <1>4. RefCnt(r) >= Cardinality(PendingTo({r})) /\ RefCnt(r) # 0
    BY <1>2, <1>3 DEF GateInv, CountsCover
  <1>5. CountsCover'
    <2> SUFFICES ASSUME NEW q \in Site
                 PROVE  RefCnt(q)' >= Cardinality(PendingTo({q})')
      BY Zenon DEF CountsCover
    <2>1. RefCnt(q) >= Cardinality(PendingTo({q})) /\ RefCnt(q) \in Nat
      BY TypeOKParts, RefCntNat, Zenon DEF GateInv, CountsCover
    <2> QED
      BY <1>2, <1>3, <1>4, <2>1
  <1>6. GateCoversCalls' /\ GateExact'
    <2>1. HeapSite' = HeapSite
      BY Zenon DEF HeapSite
    <2>2. r \in HeapSite => Nesting >= 1
      BY <1>2, <1>3 DEF GateInv, GateCoversCalls
    <2> QED
      BY <1>2, <1>3, <1>4, <2>1, <2>2 DEF GateInv, GateCoversCalls, GateExact
  <1> QED
    BY <1>1, <1>5, <1>6, Zenon DEF GateInv

\* A reset forgets the calls that are pending and leaves what is counted.
LEMMA ResetGateInv ==
  ASSUME GateInv, qemu_system_reset
  PROVE  GateInv'
  <1>1. /\ stack' = [t \in Thread |-> <<>>] /\ at' = [t \in Thread |-> Elsewhere]
        /\ cut' = (cut \/ ~Quiet)
        /\ UNCHANGED <<gateVars, m_AddressOfInterestMap, m_Active>>
    BY Zenon DEF qemu_system_reset, interceptorVars
  <1>2. GateTypeOK /\ GuestOK /\ MapOK
    BY TypeOKParts, Zenon DEF GateInv
  <1>3. TypeOK'
    <2>1. GuestOK'
      BY <1>1, GuestAssumption DEF GuestOK
    <2>2. MapOK'
      BY <1>1, <1>2, Zenon DEF MapOK
    <2> QED
      BY <1>1, <1>2, <2>1, <2>2, GateSteps, TypeOKParts, Zenon
  <1>4. \A S : Cardinality(PendingTo(S)') = 0
    <2>1. ASSUME NEW S PROVE PendingTo(S)' = {}
      BY <1>1 DEF PendingTo
    <2> QED
      BY <2>1, FS_EmptySet, Zenon
  <1>5. /\ \A q \in Site : RefCnt(q)' = RefCnt(q) /\ RefCnt(q) \in Nat
        /\ Nesting' = Nesting /\ Nesting \in Nat
    BY <1>1, <1>2, RefCntNat, GateSteps, Zenon DEF RefCnt
  <1>6. ~cut' => Nesting = 0
    BY <1>1, QuietIsNonePending, ZenonT(60) DEF GateInv, GateExact
  <1>7. HeapSite' = HeapSite
    BY Zenon DEF HeapSite
  <1> QED
    BY <1>3, <1>4, <1>5, <1>6, <1>7 DEF GateInv, CountsCover, GateCoversCalls, GateExact

\* A step that leaves interceptor and guest alone preserves this part, too.
LEMMA StillGateInv ==
  ASSUME GateInv, UNCHANGED <<vars, cut>>
  PROVE  GateInv'
  BY ZenonT(60) DEF GateInv, vars, gateVars, interceptorVars, guestVars, TypeOK, GateTypeOK, CountsCover,
         GateCoversCalls, GateExact, RefCnt, PendingTo, HeapSite, Nesting

-----------------------------------------------------------------------------
(***************************************************************************)
(* The shadow memory.                                                      *)
(***************************************************************************)

\* Entries of the map are 32-bit values inside the address space and share no
\* byte.
LEMMA Entries ==
  ASSUME Ordered(m_MemoryMap)
  PROVE  /\ \A e \in Range(m_MemoryMap) :
              /\ e \in MemoryAlloc /\ InSpace(e.m_Address, e.m_Size)
              /\ e.m_Address \in Nat /\ e.m_Size \in Nat
              /\ \E i \in 1 .. Len(m_MemoryMap) : e = m_MemoryMap[i]
         /\ \A i \in 1 .. Len(m_MemoryMap) : m_MemoryMap[i] \in Range(m_MemoryMap)
         /\ \A e, g \in Range(m_MemoryMap) : e # g => \A a \in Table!Bytes(e) : a \notin Table!Bytes(g)
  <1>1. /\ DOMAIN m_MemoryMap = 1 .. Len(m_MemoryMap)
        /\ \A i \in 1 .. Len(m_MemoryMap) :
             /\ m_MemoryMap[i] \in MemoryAlloc
             /\ m_MemoryMap[i].m_Address \in Nat /\ m_MemoryMap[i].m_Size \in Nat
             /\ InSpace(m_MemoryMap[i].m_Address, m_MemoryMap[i].m_Size)
        /\ \A i, j \in 1 .. Len(m_MemoryMap) : i # j => Apart(m_MemoryMap[i], m_MemoryMap[j])
    BY OrderedEntries, Zenon DEF Ordered
  <1>2. \A e \in Range(m_MemoryMap) : \E i \in 1 .. Len(m_MemoryMap) : e = m_MemoryMap[i]
    BY <1>1, Zenon DEF Range
  <1>3. \A i \in 1 .. Len(m_MemoryMap) : m_MemoryMap[i] \in Range(m_MemoryMap)
    BY <1>1, Zenon DEF Range
  <1>4. ASSUME NEW e \in Range(m_MemoryMap), NEW g \in Range(m_MemoryMap), e # g
        PROVE  \A a \in Table!Bytes(e) : a \notin Table!Bytes(g)
    <2>1. e \in MemoryAlloc /\ g \in MemoryAlloc /\ Apart(e, g)
      BY <1>1, <1>2, <1>4, Zenon
    <2>2. ~Table!Overlaps(e, g)
      BY <2>1, BytesOf, Zenon
    <2> QED
      BY <2>2, Zenon DEF Table!Overlaps
  <1> QED
    BY <1>1, <1>2, <1>3, <1>4, Zenon

\* find returns an entry exactly when the access touches an allocated byte.
LEMMA AccessFinds ==
  ASSUME Ordered(m_MemoryMap), NEW a \in Address, NEW l \in AccessLength, InWindow(a),
         NEW pos \in Find(m_MemoryMap, Key(a, l))
  PROVE  /\ pos = End <=> Accessed(a, l) \cap LiveBytes = {}
         /\ Accessed(a, l) # {}
  <1>1. /\ a \in Nat /\ l \in Nat \ {0} /\ AddressSpace \in Nat
        /\ a < m_MemoryAccessStop /\ m_MemoryAccessStop \in Nat
        /\ m_MemoryAccessStop + l <= AddressSpace
    BY WindowAssumption, AddressSpaceAssumption DEF Address, InWindow
  <1>2. a \in Addr32 /\ l \in Addr32 /\ InSpace(a, l)
    BY <1>1 DEF Addr32, InSpace
  <1>3. /\ Key(a, l) \in MemoryAlloc
        /\ InSpace(Key(a, l).m_Address, Key(a, l).m_Size)
    BY <1>2, KeyType, Zenon
  <1>4. Table!Bytes(Key(a, l)) = Accessed(a, l)
    BY <1>1, <1>2, KeyType DEF Table!Bytes, Accessed
  <1>5. /\ pos = End => \A i \in 1 .. Len(m_MemoryMap) : Apart(m_MemoryMap[i], Key(a, l))
        /\ pos # End => pos \in 1 .. Len(m_MemoryMap) /\ ~Apart(m_MemoryMap[pos], Key(a, l))
    BY <1>3, FindOrdered, Zenon
  <1>6. \A e \in Range(m_MemoryMap) :
          ~Apart(e, Key(a, l)) <=> \E b \in Table!Bytes(e) : b \in Accessed(a, l)
    BY <1>3, <1>4, Entries, BytesOf, SMTT(60) DEF Table!Overlaps
  <1>7. a \in Accessed(a, l)
    BY <1>1 DEF Accessed
  <1>8. ASSUME pos = End, NEW b \in Accessed(a, l), b \in LiveBytes PROVE FALSE
    <2>1. PICK e \in Range(m_MemoryMap) : b \in Table!Bytes(e)
      BY <1>8, Zenon DEF LiveBytes
    <2>2. PICK i \in 1 .. Len(m_MemoryMap) : e = m_MemoryMap[i]
      BY Entries, Zenon
    <2> QED
      BY <1>5, <1>6, <1>8, <2>1, <2>2, Zenon
  <1>9. ASSUME pos # End PROVE \E b \in Accessed(a, l) : b \in LiveBytes
    <2>1. m_MemoryMap[pos] \in Range(m_MemoryMap) /\ ~Apart(m_MemoryMap[pos], Key(a, l))
      BY <1>5, <1>9, Entries, Zenon
    <2>2. PICK b \in Table!Bytes(m_MemoryMap[pos]) : b \in Accessed(a, l)
      BY <1>6, <2>1, Zenon
    <2> QED
      BY <2>1, <2>2, Zenon DEF LiveBytes
  <1> QED
    BY <1>7, <1>8, <1>9, Zenon

\* What is left of an allocation after a free of n bytes at p lies within it,
\* without p.
LEMMA PartBytes ==
  ASSUME NEW o \in MemoryAlloc, NEW p \in Addr32, NEW n \in Addr32, p \in Table!Bytes(o),
         NEW x \in Table!Below(o, p) \cup Table!From(o, p + n), NEW a \in Table!Bytes(x)
  PROVE  /\ a \in Table!Bytes(o)
         /\ n > 0 => a # p
  <1>1. /\ o.m_Address \in Nat /\ o.m_Size \in Nat /\ p \in Nat /\ n \in Nat
    BY AddressSpaceAssumption DEF MemoryAlloc, Addr32
  <1>2. o.m_Address <= p
    BY <1>1 DEF Table!Bytes
  <1>3. CASE x \in Table!Below(o, p)
    <2>1. x = Table!Object(o.m_Address, p - o.m_Address) /\ p > o.m_Address
      BY <1>3, Zenon DEF Table!Below
    <2>2. x.m_Address = o.m_Address /\ x.m_Size = p - o.m_Address
      BY <2>1, Zenon DEF Table!Object
    <2> QED
      BY <1>1, <1>2, <2>1, <2>2 DEF Table!Bytes
  <1>4. CASE x \in Table!From(o, p + n)
    <2>1. /\ x = Table!Object(p + n, Table!Limit(o) - (p + n)) /\ p + n < Table!Limit(o)
      BY <1>4, Zenon DEF Table!From
    <2>2. /\ x.m_Address = p + n /\ x.m_Size = o.m_Address + o.m_Size - (p + n)
          /\ p + n < o.m_Address + o.m_Size
      <3>1. Table!Limit(o) = o.m_Address + o.m_Size
        BY Zenon DEF Table!Limit
      <3> QED
        BY <1>1, <2>1, <3>1 DEF Table!Object
    <2> QED
      BY <1>1, <1>2, <2>2 DEF Table!Bytes
  <1> QED
    BY <1>3, <1>4, Zenon

\* A free that takes p and more off an allocation makes no byte live, and p dead.
LEMMA Shrinks ==
  ASSUME Ordered(m_MemoryMap), NEW p \in Addr32, NEW n \in Addr32,
         NEW o \in Range(m_MemoryMap), p \in Table!Bytes(o),
         NEW P \in SUBSET (Table!Below(o, p) \cup Table!From(o, p + n)),
         Range(m_MemoryMap)' = (Range(m_MemoryMap) \ {o}) \cup P
  PROVE  /\ \A a \in LiveBytes' : a \in LiveBytes
         /\ P = {} \/ n > 0 => p \notin LiveBytes'
  <1>1. o \in MemoryAlloc
    BY Entries, Zenon
  <1>2. \A x \in P : \A a \in Table!Bytes(x) : a \in Table!Bytes(o) /\ (n > 0 => a # p)
    BY <1>1, PartBytes, Zenon
  <1>3. \A e \in Range(m_MemoryMap) \ {o} : p \notin Table!Bytes(e)
    BY Entries, Zenon
  <1>4. ASSUME NEW a \in LiveBytes'
        PROVE  a \in LiveBytes /\ (P = {} \/ n > 0 => a # p)
    <2>1. PICK e \in Range(m_MemoryMap)' : a \in Table!Bytes(e)
      BY <1>4, Zenon DEF LiveBytes
    <2>2. CASE e \in Range(m_MemoryMap) \ {o}
      BY <1>3, <2>1, <2>2, Zenon DEF LiveBytes
    <2>3. CASE e \in P
      BY <1>2, <2>1, <2>3, Zenon DEF LiveBytes
    <2> QED
      BY <2>1, <2>2, <2>3, Zenon
  <1> QED
    BY <1>4, Zenon

\* What the three frees of the table do to the bytes that are live: none is
\* added, a pointer whose free is accepted is dead (unless the free was of zero
\* bytes of an allocation), and the free of a dead one is reported.
LEMMA TableFrees ==
  ASSUME Ordered(m_MemoryMap), NEW p \in Addr32, NEW n \in Addr32,
         NEW whole \in BOOLEAN,
         \/ whole /\ (Table!Free(p) \/ Table!FreeSize(p, n))
         \/ ~whole /\ Table!FreeAnySize(p, n)
  PROVE  /\ \A a \in LiveBytes' : a \in LiveBytes
         /\ ret' = 0 /\ p # 0 /\ (whole \/ n > 0) => p \notin LiveBytes'
         /\ p # 0 /\ p \notin LiveBytes => ret' = 1
  <1>1. CASE Table!FreeNothing(p)
    <2>1. Range(m_MemoryMap)' = Range(m_MemoryMap) /\ ret' = IF p = 0 THEN 0 ELSE 1
      BY <1>1, Zenon DEF Table!FreeNothing
    <2>2. \A a \in LiveBytes' : a \in LiveBytes
      BY <2>1, Zenon DEF LiveBytes
    <2> QED
      BY <2>1, <2>2
  <1>2. ASSUME NEW o \in Range(m_MemoryMap), p # 0, p \in Table!Bytes(o),
               NEW P \in SUBSET (Table!Below(o, p) \cup Table!From(o, p + n)),
               Range(m_MemoryMap)' = (Range(m_MemoryMap) \ {o}) \cup P,
               whole /\ ret' = 0 => P = {}
        PROVE  /\ \A a \in LiveBytes' : a \in LiveBytes
               /\ ret' = 0 /\ (whole \/ n > 0) => p \notin LiveBytes'
               /\ p # 0 /\ p \notin LiveBytes => ret' = 1
    <2>1. p \in LiveBytes
      BY <1>2, Zenon DEF LiveBytes
    <2> QED
      BY <1>2, <2>1, Shrinks, ZenonT(60)
  <1>3. ASSUME NEW o \in Range(m_MemoryMap), p # 0, p \in Table!Bytes(o),
               Range(m_MemoryMap)' = Range(m_MemoryMap), ret' = 1
        PROVE  /\ \A a \in LiveBytes' : a \in LiveBytes
               /\ ret' = 0 /\ p # 0 => p \notin LiveBytes'
               /\ p # 0 /\ p \notin LiveBytes => ret' = 1
    BY <1>3 DEF LiveBytes
  <1>4. ASSUME NEW o \in Range(m_MemoryMap)
        PROVE  o.m_Address \in Nat /\ o.m_Size \in Nat /\ p \in Nat /\ n \in Nat
    BY Entries, AddressSpaceAssumption DEF Addr32
  <1>5. CASE whole /\ Table!Free(p) /\ ~Table!FreeNothing(p)
    <2>1. PICK o \in Range(m_MemoryMap) :
            /\ p # 0 /\ p \in Table!Bytes(o)
            /\ Range(m_MemoryMap)' = IF p = o.m_Address THEN Range(m_MemoryMap) \ {o} ELSE Range(m_MemoryMap)
            /\ ret' = IF p = o.m_Address THEN 0 ELSE 1
      BY <1>5, Zenon DEF Table!Free
    <2>2. CASE p = o.m_Address
      <3>1. /\ Range(m_MemoryMap)' = (Range(m_MemoryMap) \ {o}) \cup {}
            /\ {} \in SUBSET (Table!Below(o, p) \cup Table!From(o, p + n))
        BY <2>1, <2>2, Zenon
      <3> QED
        BY <1>2, <2>1, <3>1, ZenonT(60)
    <2>3. CASE p # o.m_Address
      BY <1>3, <2>1, <2>3, Zenon
    <2> QED
      BY <2>2, <2>3, Zenon
  <1>6. CASE whole /\ Table!FreeSize(p, n) /\ ~Table!FreeNothing(p)
    <2>1. PICK o \in Range(m_MemoryMap) :
            /\ p # 0 /\ p \in Table!Bytes(o)
            /\ Range(m_MemoryMap)' = IF p = o.m_Address /\ n <= o.m_Size
                                     THEN (Range(m_MemoryMap) \ {o}) \cup Table!From(o, p + n)
                                     ELSE Range(m_MemoryMap)
            /\ ret' = IF p = o.m_Address /\ n = o.m_Size THEN 0 ELSE 1
      BY <1>6, Zenon DEF Table!FreeSize
    <2>2. CASE p = o.m_Address /\ n <= o.m_Size
      <3>1. n = o.m_Size => Table!From(o, p + n) = {}
        BY <1>4, <2>2 DEF Table!From, Table!Limit
      <3>2. ret' = 0 => Table!From(o, p + n) = {}
        BY <2>1, <3>1
      <3>3. Table!From(o, p + n) \in SUBSET (Table!Below(o, p) \cup Table!From(o, p + n))
        BY Zenon
      <3> QED
        BY <1>2, <2>1, <2>2, <3>2, <3>3, Zenon
    <2>3. CASE ~(p = o.m_Address /\ n <= o.m_Size)
      <3>1. ret' = 1
        BY <1>4, <2>1, <2>3
      <3> QED
        BY <1>3, <2>1, <2>3, <3>1, Zenon
    <2> QED
      BY <2>2, <2>3, Zenon
  <1>7. CASE ~whole /\ Table!FreeAnySize(p, n) /\ ~Table!FreeNothing(p)
    <2>1. PICK o \in Range(m_MemoryMap) :
            /\ p # 0 /\ p \in Table!Bytes(o)
            /\ Range(m_MemoryMap)' = (Range(m_MemoryMap) \ {o}) \cup Table!Below(o, p) \cup Table!From(o, p + n)
            /\ ret' = 0
      BY <1>7, Zenon DEF Table!FreeAnySize
    <2>2. /\ Range(m_MemoryMap)' = (Range(m_MemoryMap) \ {o}) \cup (Table!Below(o, p) \cup Table!From(o, p + n))
          /\ Table!Below(o, p) \cup Table!From(o, p + n)
               \in SUBSET (Table!Below(o, p) \cup Table!From(o, p + n))
      BY <2>1, Zenon
    <2> QED
      BY <1>2, <1>7, <2>1, <2>2, ZenonT(60)
  <1> QED
    BY <1>1, <1>5, <1>6, <1>7, Zenon

\* An allocation that is accepted makes live no other bytes than its own.
LEMMA TableAllocs ==
  ASSUME NEW p \in Addr32, NEW n \in Addr32, Table!Alloc(p, n)
  PROVE  \A a \in LiveBytes' : a \in LiveBytes \/ (ret' = 0 /\ a \in Table!Bytes(Key(p, n)))
  <1>1. Table!Object(p, n) = Key(p, n)
    BY KeyType, Zenon
  <1> QED
    BY <1>1, Zenon DEF Table!Alloc, LiveBytes

\* The MemCheck_* functions keep the map in order and what was given back dead,
\* and every free of a pointer that was given back is reported.
LEMMA CallMarkStep ==
  ASSUME KInv, NEW t \in Thread, NEW r \in Site, NEW p \in Addr32, NEW n \in Addr32,
         CallMark(t, r, p, n)
  PROVE  /\ Ordered(m_MemoryMap)' /\ FreedIsDead'
         /\ Callee[r] # MemCheck_Alloc /\ p \in freed => ret' = 1
  <1>1. p \in Addr32 /\ n \in Addr32
    BY Zenon
  <1>2. /\ Ordered(m_MemoryMap) /\ freed \subseteq Addr32 \ {0}
        /\ \A a \in freed : a \notin LiveBytes
    BY Zenon DEF KInv, FreedIsDead
  <1>3. CASE Callee[r] = MemCheck_Alloc /\ MemCheck_AllocEnter(p, n)
    <2>1. Good' /\ Table!Alloc(p, n)
      BY <1>1, <1>2, <1>3, NewMemoryAllocStep, Zenon DEF MemCheck_AllocEnter
    <2>2. freed' = IF ret' = 0 THEN freed \ Table!Bytes(Key(p, n)) ELSE freed
      BY <1>3, Zenon DEF MemCheck_AllocEnter, HandedOut
    <2> QED
      BY <1>1, <1>2, <1>3, <2>1, <2>2, TableAllocs, Zenon DEF Good, FreedIsDead
  <1>4. ASSUME NEW whole \in BOOLEAN, Good',
               \/ whole /\ (Table!Free(p) \/ Table!FreeSize(p, n))
               \/ ~whole /\ Table!FreeAnySize(p, n),
               IF whole \/ n > 0 THEN GivenBack(p) ELSE UNCHANGED freed
        PROVE  /\ Ordered(m_MemoryMap)' /\ FreedIsDead'
               /\ p \in freed => ret' = 1
    <2>1. /\ \A a \in LiveBytes' : a \in LiveBytes
          /\ ret' = 0 /\ p # 0 /\ (whole \/ n > 0) => p \notin LiveBytes'
          /\ p # 0 /\ p \notin LiveBytes => ret' = 1
      BY <1>1, <1>2, <1>4, TableFrees, Zenon
    <2>2. \A a \in freed' : a \in freed \/ (a = p /\ ret' = 0 /\ p # 0 /\ (whole \/ n > 0))
      BY <1>4, Zenon DEF GivenBack
    <2>3. FreedIsDead'
      BY <1>1, <1>2, <2>1, <2>2, Zenon DEF FreedIsDead
    <2> QED
      BY <1>2, <1>4, <2>1, <2>3, Zenon DEF Good
  <1>5. CASE Callee[r] = MemCheck_Free /\ MemCheck_FreeEnter(p)
    <2>1. Good' /\ Table!Free(p)
      BY <1>1, <1>2, <1>5, FreeMemoryStep, Zenon DEF MemCheck_FreeEnter
    <2> QED
      BY <1>4, <1>5, <2>1, ZenonT(60) DEF MemCheck_FreeEnter
  <1>6. CASE Callee[r] = MemCheck_FreeSize /\ MemCheck_FreeSizeEnter(p, n)
    <2>1. Good' /\ Table!FreeSize(p, n)
      BY <1>1, <1>2, <1>6, FreeSizeMemoryStep, Zenon DEF MemCheck_FreeSizeEnter
    <2> QED
      BY <1>4, <1>6, <2>1, ZenonT(60) DEF MemCheck_FreeSizeEnter
  <1>7. CASE Callee[r] = MemCheck_FreeAnySize /\ MemCheck_FreeAnySizeEnter(p, n)
    <2>1. Good' /\ Table!FreeAnySize(p, n)
      BY <1>1, <1>2, <1>7, FreeAnySizeMemoryStep, Zenon DEF MemCheck_FreeAnySizeEnter
    <2>2. IF FALSE \/ n > 0 THEN GivenBack(p) ELSE UNCHANGED freed
      BY <1>7, Zenon DEF MemCheck_FreeAnySizeEnter
    <2> QED
      BY <1>4, <2>1, <2>2, ZenonT(60)
  <1> QED
    BY <1>3, <1>5, <1>6, <1>7, Zenon DEF CallMark

-----------------------------------------------------------------------------
(***************************************************************************)
(* The invariant.                                                          *)
(***************************************************************************)
LEMMA InitKInv == ResetInit => KInv
  <1> SUFFICES ASSUME ResetInit PROVE KInv
    BY Zenon
  <1>1. Init /\ ShadowInit /\ freed = {} /\ cut = FALSE
    BY Zenon DEF ResetInit, KernelInit
  <1>2. TypeOK
    BY <1>1, InitIInv, Zenon DEF IInv
  <1>3. \A S : Cardinality(PendingTo(S)) = 0
    <2>1. ASSUME NEW S PROVE PendingTo(S) = {}
      BY <1>1 DEF Init, PendingTo
    <2> QED
      BY <2>1, FS_EmptySet, Zenon
  <1>4. Nesting = 0
    BY <1>1, Zenon DEF Init, GateInit, Nesting
  <1>5. \A r \in Site : RefCnt(r) \in Nat
    BY <1>2, TypeOKParts, RefCntNat, Zenon
  <1>6. GateInv
    BY <1>2, <1>3, <1>4, <1>5 DEF GateInv, CountsCover, GateCoversCalls, GateExact
  <1> QED
    BY <1>1, <1>6, ShadowInitGood, Zenon DEF KInv, Good, FreedIsDead

LEMMA NextKInv == KInv /\ [ResetNext]_resetVars => KInv'
  <1> SUFFICES ASSUME KInv, [ResetNext]_resetVars PROVE KInv'
    BY Zenon
  <1>0. GateInv /\ Ordered(m_MemoryMap) /\ FreedIsDead
    BY Zenon DEF KInv
  <1>1. ASSUME UNCHANGED <<shadowVars, freed>> PROVE Ordered(m_MemoryMap)' /\ FreedIsDead'
    BY <1>0, <1>1, Zenon DEF shadowVars, FreedIsDead, LiveBytes
  <1>2. CASE UNCHANGED resetVars
    BY <1>0, <1>1, <1>2, StillGateInv, Zenon DEF KInv, resetVars, kernelVars
  <1>3. CASE qemu_system_reset
    <2>1. GateInv'
      BY <1>0, <1>3, ResetGateInv, Zenon
    <2>2. freed' = {} /\ UNCHANGED shadowVars
      BY <1>3, Zenon DEF qemu_system_reset
    <2> QED
      BY <1>0, <2>1, <2>2, Zenon DEF KInv, FreedIsDead, shadowVars
  <1>4. ASSUME NEW t \in Thread, NEW r \in Site, NEW p \in Pointer, NEW n \in Size,
               CallMark(t, r, p, n), UNCHANGED cut
        PROVE  KInv'
    <2>1. GateInv'
      BY <1>0, <1>4, CallGateInv, Zenon DEF CallMark
    <2>2. p \in Addr32 /\ n \in Addr32
      BY RegisteredAssumption, Zenon DEF Addr32
    <2> QED
      BY <1>4, <2>1, <2>2, CallMarkStep, Zenon DEF KInv
  <1>5. ASSUME NEW t \in Thread, NEW r \in Site, CallHeap(t, r), UNCHANGED cut
        PROVE  KInv'
    <2>1. GateInv'
      BY <1>0, <1>5, CallGateInv, Zenon DEF CallHeap
    <2> QED
      BY <1>1, <1>5, <2>1, Zenon DEF CallHeap, KInv
  <1>6. ASSUME NEW t \in Thread, Return(t), UNCHANGED <<shadowVars, freed>>, UNCHANGED cut
        PROVE  KInv'
    BY <1>0, <1>1, <1>6, ReturnGateInv, Zenon DEF KInv
  <1>7. ASSUME NEW a \in Address, NEW l \in AccessLength, Access(a, l), UNCHANGED cut
        PROVE  KInv'
    BY <1>0, <1>1, <1>7, StillGateInv, Zenon DEF KInv, Access
  <1> QED
    BY <1>2, <1>3, <1>4, <1>5, <1>6, <1>7, Zenon DEF ResetNext, KernelNext

LEMMA InvariantK == ResetSpec => []KInv
  BY InitKInv, NextKInv, PTL DEF ResetSpec

-----------------------------------------------------------------------------
(***************************************************************************)
(* The theorems.                                                           *)
(***************************************************************************)

\* Whatever resets came before, checking is off while a guest thread is inside
\* the allocator: MemoryAccessDisable has been called at least as often beyond
\* MemoryAccessEnable as calls of heap functions are pending.
THEOREM CheckingOffInAllocator == ResetSpec => []GateCoversCalls
  <1>1. KInv => GateCoversCalls
    BY Zenon DEF KInv, GateInv
  <1> QED
    BY <1>1, InvariantK, PTL

\* What MemoryAccess says of an access that the guest makes.
LEMMA AccessVerdict ==
  ASSUME KInv, NEW a \in Address, NEW l \in AccessLength, Access(a, l)
  PROVE  /\ ~Quiet => verdict' = "silent"
         /\ Accessed(a, l) \subseteq LiveBytes => verdict' = "silent"
         /\ Quiet /\ ~cut /\ InWindow(a) /\ Accessed(a, l) \cap LiveBytes = {}
              => verdict' = "reported"
  <1>1. GateInv /\ Ordered(m_MemoryMap)
    BY Zenon DEF KInv
  <1>2. CASE (m_MemoryAccessDisable \/ ~InWindow(a)) /\ verdict' = "silent"
    BY <1>1, <1>2, SwitchFollowsCalls, ZenonT(60)
  <1>3. CASE /\ ~m_MemoryAccessDisable /\ InWindow(a)
             /\ \E pos \in Find(m_MemoryMap, Key(a, l)) :
                  verdict' = IF pos = End THEN "reported" ELSE "silent"
    <2>1. PICK pos \in Find(m_MemoryMap, Key(a, l)) :
            verdict' = IF pos = End THEN "reported" ELSE "silent"
      BY <1>3, Zenon
    <2>2. /\ pos = End <=> Accessed(a, l) \cap LiveBytes = {}
          /\ Accessed(a, l) # {}
      BY <1>1, <1>3, AccessFinds, Zenon
    <2>3. Accessed(a, l) \subseteq LiveBytes => pos # End
      BY <2>2, Zenon
    <2> QED
      BY <1>1, <1>3, <2>1, <2>2, <2>3, SwitchFollowsCalls, ZenonT(60)
  <1> QED
    BY <1>2, <1>3, Zenon DEF Access, MemoryAccess

\* No interleaving of the guest's threads, and no reset, makes MemoryAccess
\* report an access to allocated bytes, or one made while a thread is inside
\* the allocator.
THEOREM NeverFalseAlarm == ResetSpec => NoFalseAlarm
  <1>1. KInv => [ \A a \in Address, l \in AccessLength :
                    /\ Access(a, l)
                    /\ ~Quiet \/ Accessed(a, l) \subseteq LiveBytes
                  => verdict' = "silent" ]_kernelVars
    BY AccessVerdict, Zenon
  <1> QED
    BY <1>1, InvariantK, PTL DEF NoFalseAlarm

\* MemoryAccess reports every access in its window that touches no allocated
\* byte, when no thread is inside the allocator and no reset has cut off a call
\* of the allocator.
THEOREM WildAccessAlwaysReported == ResetSpec => WildAccessReported
  <1>1. KInv => [ \A a \in Address, l \in AccessLength :
                    /\ Access(a, l) /\ Quiet /\ ~cut /\ InWindow(a)
                    /\ Accessed(a, l) \cap LiveBytes = {}
                  => verdict' = "reported" ]_resetVars
    BY AccessVerdict, Zenon
  <1> QED
    BY <1>1, InvariantK, PTL DEF WildAccessReported

\* FreeMemory, FreeSizeMemory and FreeAnySizeMemory report every free of a
\* pointer that the guest gave back and was not handed again.
THEOREM DoubleFreeAlwaysReported == ResetSpec => DoubleFreeReported
  <1>1. ASSUME KInv, NEW t \in Thread, NEW r \in Site, NEW p \in freed, NEW n \in Size,
               Callee[r] # MemCheck_Alloc, CallMark(t, r, p, n)
        PROVE  ret' = 1
    <2>1. p \in Addr32 /\ n \in Addr32
      BY <1>1, RegisteredAssumption, Zenon DEF KInv, FreedIsDead, Addr32
    <2> QED
      BY <1>1, <2>1, CallMarkStep, Zenon
  <1>2. KInv => [ \A t \in Thread, r \in Site, p \in freed, n \in Size :
                    Callee[r] # MemCheck_Alloc /\ CallMark(t, r, p, n)
                      => ret' = 1 ]_kernelVars
    BY <1>1, Zenon
  <1> QED
    BY <1>2, InvariantK, PTL DEF DoubleFreeReported

\* An access to the first byte of a block that the guest gave back and was not
\* handed again is reported, when no thread is inside the allocator and no
\* reset has cut off a call of it.
THEOREM UseAfterFreeAlwaysReported == ResetSpec => UseAfterFreeReported
  <1>1. ASSUME KInv, NEW a \in freed, Access(a, 1), Quiet, ~cut, InWindow(a)
        PROVE  verdict' = "reported"
    <2>1. a \in Address /\ a \notin LiveBytes /\ Accessed(a, 1) = {a}
      BY <1>1, AddressSpaceAssumption DEF KInv, FreedIsDead, Addr32, Address, Accessed
    <2> QED
      BY <1>1, <2>1, AccessVerdict, WindowAssumption, Zenon
  <1>2. KInv => [ \A a \in freed :
                    Access(a, 1) /\ Quiet /\ ~cut /\ InWindow(a) => verdict' = "reported"
                ]_resetVars
    BY <1>1, Zenon
  <1> QED
    BY <1>2, InvariantK, PTL DEF UseAfterFreeReported
=============================================================================
