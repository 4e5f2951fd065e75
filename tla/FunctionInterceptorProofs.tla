---------------------- MODULE FunctionInterceptorProofs ----------------------
(***************************************************************************)
(* Proofs about the interceptor for every set of threads, functions and    *)
(* call sites.  IInv: the reference counts are the numbers of pending      *)
(* calls, and checking is off by as many levels as there are calls of heap *)
(* functions.  RInv, when instructions are executed again: the counts are  *)
(* at most these numbers, and the switch follows the counts.               *)
(***************************************************************************)
EXTENDS FunctionInterceptor, FiniteSetTheorems, SequenceTheorems, TLAPS

IInv == TypeOK /\ RefCountsExact /\ GateBalanced

RInv == TypeOK /\ RefCountsBounded /\ GateMatchesMap

-----------------------------------------------------------------------------
(***************************************************************************)
(* Pending calls.                                                          *)
(***************************************************************************)

\* There are finitely many pending calls.
LEMMA PendingFinite ==
  ASSUME NEW S
  PROVE  /\ IsFiniteSet(PendingTo(S))
         /\ Cardinality(PendingTo(S)) \in Nat
  <1>1. IsFiniteSet(Thread) /\ IsFiniteSet(1 .. MaxDepth)
    BY GuestAssumption, FS_Interval
  <1>2. IsFiniteSet(Thread \X (1 .. MaxDepth))
    BY <1>1, FS_Product, ZenonT(60)
  <1>3. PendingTo(S) \subseteq Thread \X (1 .. MaxDepth)
    BY Zenon DEF PendingTo
  <1>4. IsFiniteSet(PendingTo(S))
    BY <1>2, <1>3, FS_Subset, Zenon
  <1> QED
    BY <1>4, FS_CardinalityType, Zenon

\* A call adds one pending call to the sets its return address is in.
LEMMA PushPending ==
  ASSUME TypeOK, NEW t \in Thread, NEW r \in Site, Len(stack[t]) < MaxDepth,
         stack' = [stack EXCEPT ![t] = Append(@, r)], NEW S
  PROVE  /\ r \in S => Cardinality(PendingTo(S)') = Cardinality(PendingTo(S)) + 1
         /\ r \notin S => PendingTo(S)' = PendingTo(S)
  <1> DEFINE n == Len(stack[t])
             new == <<t, n + 1>>
  <1>1. stack[t] \in Seq(Site) /\ n \in Nat /\ MaxDepth \in Nat
    BY GuestAssumption, LenProperties, Zenon DEF TypeOK
  <1>2. /\ stack'[t] = Append(stack[t], r)
        /\ \A u \in Thread \ {t} : stack'[u] = stack[u]
    BY Zenon DEF TypeOK
  <1>3. /\ Len(stack'[t]) = n + 1 /\ stack'[t][n + 1] = r
        /\ \A i \in 1 .. n : stack'[t][i] = stack[t][i]
    BY <1>1, <1>2, AppendProperties
  <1>4. new \in Thread \X (1 .. MaxDepth)
    BY <1>1
  <1>5. new \notin PendingTo(S)
    BY <1>1 DEF PendingTo
  <1>6. ASSUME NEW c \in Thread \X (1 .. MaxDepth), c # new
        PROVE  c \in PendingTo(S)' <=> c \in PendingTo(S)
    <2>1. c = <<c[1], c[2]>> /\ c[1] \in Thread /\ c[2] \in 1 .. MaxDepth
      OBVIOUS
    <2>2. CASE c[1] # t
      BY <1>2, <2>1, <2>2, Zenon DEF PendingTo
    <2>3. CASE c[1] = t
      <3>1. c[2] # n + 1
        BY <1>6, <2>1, <2>3, Zenon
      <3>2. c[2] <= n + 1 <=> c[2] <= n
        BY <1>1, <2>1, <3>1
      <3>3. c[2] <= n => stack'[t][c[2]] = stack[t][c[2]]
        BY <1>1, <1>3, <2>1
      <3> QED
        BY <1>3, <2>3, <3>2, <3>3 DEF PendingTo
    <2> QED
      BY <2>2, <2>3, Zenon
  <1>7. new \in PendingTo(S)' <=> r \in S
    BY <1>1, <1>3, <1>4 DEF PendingTo
  <1>8. /\ PendingTo(S) \subseteq Thread \X (1 .. MaxDepth)
        /\ PendingTo(S)' \subseteq Thread \X (1 .. MaxDepth)
    BY Zenon DEF PendingTo
  <1> HIDE DEF new
  <1>9. CASE r \in S
    <2>1. PendingTo(S)' = PendingTo(S) \cup {new}
      BY <1>4, <1>6, <1>7, <1>8, <1>9, Zenon
    <2>2. Cardinality(PendingTo(S) \cup {new}) = Cardinality(PendingTo(S)) + 1
      BY <1>5, PendingFinite, FS_AddElement, ZenonT(60)
    <2> QED
      BY <1>9, <2>1, <2>2, Zenon
  <1>10. CASE r \notin S
    <2>1. new \notin PendingTo(S)'
      BY <1>7, <1>10, Zenon
    <2>2. \A c : c \in PendingTo(S)' <=> c \in PendingTo(S)
      BY <1>5, <1>6, <1>8, <2>1, Zenon
    <2> QED
      BY <1>10, <2>2, ZenonT(60)
  <1> QED
    BY <1>9, <1>10, Zenon

\* A return takes one pending call off the sets its return address is in.
LEMMA PopPending ==
  ASSUME TypeOK, NEW t \in Thread, Len(stack[t]) > 0,
         stack' = [stack EXCEPT ![t] = SubSeq(@, 1, Len(@) - 1)], NEW S
  PROVE  /\ Top(t) \in Site
         /\ Top(t) \in S => /\ Cardinality(PendingTo(S)) >= 1
                            /\ Cardinality(PendingTo(S)') =
                                 Cardinality(PendingTo(S)) - 1
         /\ Top(t) \notin S => PendingTo(S)' = PendingTo(S)
  <1> DEFINE n == Len(stack[t])
             old == <<t, n>>
  <1>1. /\ stack[t] \in Seq(Site) /\ n \in Nat /\ n > 0
        /\ MaxDepth \in Nat /\ n <= MaxDepth
    BY GuestAssumption, LenProperties, Zenon DEF TypeOK
  <1>2. /\ stack'[t] = SubSeq(stack[t], 1, n - 1)
        /\ \A u \in Thread \ {t} : stack'[u] = stack[u]
    BY Zenon DEF TypeOK
  <1>3. /\ Len(stack'[t]) = n - 1
        /\ \A i \in 1 .. (n - 1) : stack'[t][i] = stack[t][i]
    BY <1>1, <1>2, SMT
  <1>4. Top(t) \in Site /\ Top(t) = stack[t][n]
    BY <1>1, ElementOfSeq DEF Top
  <1>5. old \in Thread \X (1 .. MaxDepth)
    BY <1>1
  <1>6. old \notin PendingTo(S)'
    BY <1>1, <1>3 DEF PendingTo
  <1>7. ASSUME NEW c \in Thread \X (1 .. MaxDepth), c # old
        PROVE  c \in PendingTo(S)' <=> c \in PendingTo(S)
    <2>1. c = <<c[1], c[2]>> /\ c[1] \in Thread /\ c[2] \in 1 .. MaxDepth
      OBVIOUS
    <2>2. CASE c[1] # t
      BY <1>2, <2>1, <2>2, Zenon DEF PendingTo
    <2>3. CASE c[1] = t
      <3>1. c[2] # n
        BY <1>7, <2>1, <2>3, Zenon
      <3>2. c[2] <= n <=> c[2] <= n - 1
        BY <1>1, <2>1, <3>1
      <3>3. c[2] <= n - 1 => stack'[t][c[2]] = stack[t][c[2]]
        BY <1>1, <1>3, <2>1
      <3> QED
        BY <1>3, <2>3, <3>2, <3>3, Zenon DEF PendingTo
    <2> QED
      BY <2>2, <2>3, Zenon
  <1>8. old \in PendingTo(S) <=> Top(t) \in S
    BY <1>1, <1>4, <1>5 DEF PendingTo
  <1>9. /\ PendingTo(S) \subseteq Thread \X (1 .. MaxDepth)
        /\ PendingTo(S)' \subseteq Thread \X (1 .. MaxDepth)
    BY Zenon DEF PendingTo
  <1>10. PendingTo(S)' = PendingTo(S) \ {old}
    BY <1>5, <1>6, <1>7, <1>9, Zenon
  <1>11. Top(t) \in S => Cardinality(PendingTo(S)) # 0
    BY <1>8, PendingFinite, FS_EmptySet, Zenon
  <1> HIDE DEF old
  <1>12. CASE Top(t) \in S
    <2>1. Cardinality(PendingTo(S) \ {old}) = Cardinality(PendingTo(S)) - 1
      BY <1>8, <1>12, PendingFinite, FS_RemoveElement, ZenonT(60)
    <2>2. Cardinality(PendingTo(S)) >= 1
      BY <1>11, <1>12, PendingFinite
    <2> QED
      BY <1>4, <1>10, <1>12, <2>1, <2>2, Zenon
  <1>13. CASE Top(t) \notin S
    BY <1>4, <1>8, <1>10, <1>13, Zenon
  <1> QED
    BY <1>12, <1>13, Zenon

-----------------------------------------------------------------------------
(***************************************************************************)
(* What DoAddress does to the map and to the switch.                       *)
(***************************************************************************)

\* MemoryAccessDisable and MemoryAccessEnable move the nesting by one.
LEMMA GateSteps ==
  ASSUME GateTypeOK
  PROVE  /\ Nesting \in Nat
         /\ MemoryAccessDisable => GateTypeOK' /\ Nesting' = Nesting + 1
         /\ MemoryAccessEnable /\ Nesting >= 1
              => GateTypeOK' /\ Nesting' = Nesting - 1
         /\ MemoryAccessEnable => GateTypeOK'
         /\ UNCHANGED gateVars => GateTypeOK' /\ Nesting' = Nesting
  <1>1. Nesting \in Nat
    BY DEF GateTypeOK, Nesting
  <1>2. ASSUME MemoryAccessDisable
        PROVE  GateTypeOK' /\ Nesting' = Nesting + 1
    <2>1. CASE m_MemoryAccessDisable = TRUE
      BY <1>2, <2>1 DEF GateTypeOK, Nesting, MemoryAccessDisable
    <2>2. CASE m_MemoryAccessDisable = FALSE
      BY <1>2, <2>2 DEF GateTypeOK, Nesting, MemoryAccessDisable
    <2> QED
      BY <2>1, <2>2, ZenonT(60) DEF GateTypeOK
  <1>3. ASSUME MemoryAccessEnable
        PROVE  GateTypeOK'
    <2>1. CASE m_MemoryAccessDepth = 0
      <3>1. m_MemoryAccessDepth' = 0 /\ m_MemoryAccessDisable' = FALSE
        BY <1>3, <2>1, Zenon DEF MemoryAccessEnable
      <3>2. m_MemoryAccessDepth' \in Nat /\ ~(m_MemoryAccessDepth' > 0)
        BY <3>1
      <3> QED
        BY <3>1, <3>2, ZenonT(60) DEF GateTypeOK
    <2>2. CASE m_MemoryAccessDepth # 0
      <3>1. m_MemoryAccessDepth \in Nat \ {0} /\ m_MemoryAccessDisable = TRUE
        BY <2>2 DEF GateTypeOK
      <3>2. /\ m_MemoryAccessDepth' = m_MemoryAccessDepth - 1
            /\ m_MemoryAccessDisable' = TRUE
        BY <1>3, <2>2, <3>1, Zenon DEF MemoryAccessEnable
      <3> QED
        BY <3>1, <3>2 DEF GateTypeOK
    <2> QED
      BY <2>1, <2>2, Zenon
  <1>4. MemoryAccessEnable /\ Nesting >= 1 => Nesting' = Nesting - 1
    BY DEF GateTypeOK, Nesting, MemoryAccessEnable
  <1>5. UNCHANGED gateVars => GateTypeOK' /\ Nesting' = Nesting
    BY DEF GateTypeOK, Nesting, gateVars
  <1> QED
    BY <1>1, <1>2, <1>3, <1>4, <1>5, Zenon

\* The part of TypeOK that is about the map and the functions' flags.
MapOK ==
  /\ m_Active \in [Function -> BOOLEAN]
  /\ Function \subseteq DOMAIN m_AddressOfInterestMap
  /\ DOMAIN m_AddressOfInterestMap \subseteq Function \cup Site
  /\ \A f \in Function : m_AddressOfInterestMap[f] = NewFunctionEntry(f)
  /\ \A r \in DOMAIN m_AddressOfInterestMap \ Function :
       /\ m_AddressOfInterestMap[r].m_RefCnt \in Nat \ {0}
       /\ m_AddressOfInterestMap[r] =
            AddressOfInterest("RETURNADDRESS", Callee[r],
                              m_AddressOfInterestMap[r].m_RefCnt)

\* The part that is about the guest.
GuestOK ==
  /\ stack \in [Thread -> Seq(Site)]
  /\ \A t \in Thread : Len(stack[t]) <= MaxDepth
  /\ at \in [Thread -> Restartable \cup {Elsewhere}]

\* These parts and the type of the switch make up TypeOK.
LEMMA TypeOKParts ==
  /\ TypeOK <=> GateTypeOK /\ GuestOK /\ MapOK
  /\ TypeOK' <=> GateTypeOK' /\ GuestOK' /\ MapOK'
  BY Zenon DEF TypeOK, GuestOK, MapOK

\* The counts are natural numbers.
LEMMA RefCntNat ==
  /\ MapOK => \A r \in Site : RefCnt(r) \in Nat
  /\ MapOK' => \A r \in Site : RefCnt(r)' \in Nat
  BY GuestAssumption, Zenon DEF MapOK, RefCnt

\* A call adds one to the count of its return address and to no other.
LEMMA EnterStep ==
  ASSUME MapOK, NEW r \in Site, DoAddress(Callee[r], r)
  PROVE  /\ MapOK'
         /\ Enter(Callee[r])
         /\ RefCnt(r)' = RefCnt(r) + 1
         /\ \A q \in Site \ {r} : RefCnt(q)' = RefCnt(q)
  <1> DEFINE f == Callee[r]
             map == m_AddressOfInterestMap
  <1>1. f \in Function /\ r \notin Function
    BY GuestAssumption, Zenon
  <1>2. f \in DOMAIN map /\ map[f] = NewFunctionEntry(f)
    BY <1>1, Zenon DEF MapOK
  <1>3. map[f].m_Type = "FUNCTION" /\ map[f].m_Function = f
    BY <1>2 DEF NewFunctionEntry, AddressOfInterest
  <1>4. DoFunction(f, r)
    BY <1>2, <1>3, Zenon DEF DoAddress
  <1>5. /\ Enter(f)
        /\ m_Active' = [m_Active EXCEPT ![f] = TRUE]
        /\ map' = IF r \in DOMAIN map THEN AddRef(map, r, 1)
                  ELSE Put(map, r, NewReturnAddress(f))
    BY <1>3, <1>4, Zenon DEF DoFunction
  <1>6. m_Active' \in [Function -> BOOLEAN]
    BY <1>1, <1>5, Zenon DEF MapOK
  <1>7. CASE r \in DOMAIN map
    <2>1. /\ map[r].m_RefCnt \in Nat \ {0}
          /\ map[r] = AddressOfInterest("RETURNADDRESS", f, map[r].m_RefCnt)
      BY <1>1, <1>7, Zenon DEF MapOK
    <2>2. map' = [map EXCEPT ![r].m_RefCnt = @ + 1]
      BY <1>5, <1>7, Zenon DEF AddRef
    <2>3. /\ DOMAIN map' = DOMAIN map
          /\ map'[r] = AddressOfInterest("RETURNADDRESS", f, map[r].m_RefCnt + 1)
          /\ \A x \in DOMAIN map \ {r} : map'[x] = map[x]
      BY <1>7, <2>1, <2>2 DEF AddressOfInterest
    <2>4. map'[r].m_RefCnt = map[r].m_RefCnt + 1
      BY <2>3 DEF AddressOfInterest
    <2>5. MapOK'
      BY <1>1, <1>6, <2>1, <2>3, <2>4 DEF MapOK
    <2>6. RefCnt(r)' = RefCnt(r) + 1
      BY <1>7, <2>3, <2>4, Zenon DEF RefCnt
    <2>7. \A q \in Site \ {r} : RefCnt(q)' = RefCnt(q)
      BY <2>3, Zenon DEF RefCnt
    <2> QED
      BY <1>5, <2>5, <2>6, <2>7, Zenon
  <1>8. CASE r \notin DOMAIN map
    <2>1. map' = Put(map, r, NewReturnAddress(f))
      BY <1>5, <1>8, Zenon
    <2>2. /\ DOMAIN map' = (DOMAIN map) \cup {r}
          /\ map'[r] = AddressOfInterest("RETURNADDRESS", f, 1)
          /\ \A x \in DOMAIN map : map'[x] = map[x]
      BY <1>8, <2>1, Zenon DEF Put, NewReturnAddress
    <2>3. map'[r].m_RefCnt = 1
      BY <2>2 DEF AddressOfInterest
    <2>4. MapOK'
      BY <1>1, <1>6, <2>2, <2>3 DEF MapOK
    <2>5. RefCnt(r)' = RefCnt(r) + 1
      BY <1>8, <2>2, <2>3 DEF RefCnt
    <2>6. \A q \in Site \ {r} : RefCnt(q)' = RefCnt(q)
      BY <2>2, Zenon DEF RefCnt
    <2> QED
      BY <1>5, <2>4, <2>5, <2>6, Zenon
  <1> QED
    BY <1>7, <1>8, Zenon

\* An instruction at a return address takes one off the count of the address
\* if it is in the map, and does nothing otherwise.
LEMMA LeaveStep ==
  ASSUME MapOK, NEW r \in Site, DoAddress(r, Elsewhere)
  PROVE  /\ MapOK'
         /\ RefCnt(r) \in Nat
         /\ \A q \in Site \ {r} : RefCnt(q)' = RefCnt(q)
         /\ RefCnt(r) = 0 => UNCHANGED gateVars /\ RefCnt(r)' = 0
         /\ RefCnt(r) # 0 => Leave(Callee[r]) /\ RefCnt(r)' = RefCnt(r) - 1
  <1> DEFINE f == Callee[r]
             map == m_AddressOfInterestMap
  <1>1. f \in Function /\ r \notin Function
    BY GuestAssumption, Zenon
  <1>2. CASE r \notin DOMAIN map
    <2>1. UNCHANGED <<gateVars, m_AddressOfInterestMap, m_Active>>
      BY <1>2, Zenon DEF DoAddress, interceptorVars
    <2>2. RefCnt(r) = 0 /\ RefCnt(r)' = 0
      BY <1>2, <2>1, Zenon DEF RefCnt
    <2>3. \A q \in Site \ {r} : RefCnt(q)' = RefCnt(q)
      BY <2>1, Zenon DEF RefCnt
    <2>4. MapOK'
      BY <2>1, Zenon DEF MapOK
    <2> QED
      BY <2>1, <2>2, <2>3, <2>4
  <1>3. CASE r \in DOMAIN map
    <2>1. /\ map[r].m_RefCnt \in Nat \ {0}
          /\ map[r] = AddressOfInterest("RETURNADDRESS", f, map[r].m_RefCnt)
      BY <1>1, <1>3, Zenon DEF MapOK
    <2>2. map[r].m_Type = "RETURNADDRESS" /\ map[r].m_Function = f
      BY <2>1 DEF AddressOfInterest
    <2>3. DoReturnAddress(r)
      BY <1>3, <2>2, Zenon DEF DoAddress
    <2>4. /\ Leave(f)
          /\ m_Active' = [m_Active EXCEPT ![f] = FALSE]
          /\ map' = IF map[r].m_RefCnt = 1 THEN EraseKey(map, r)
                    ELSE AddRef(map, r, -1)
      BY <2>2, <2>3, Zenon DEF DoReturnAddress
    <2>5. m_Active' \in [Function -> BOOLEAN]
      BY <1>1, <2>4, Zenon DEF MapOK
    <2>6. RefCnt(r) = map[r].m_RefCnt
      BY <1>3, Zenon DEF RefCnt
    <2>7. CASE map[r].m_RefCnt = 1
      <3>1. /\ DOMAIN map' = (DOMAIN map) \ {r}
            /\ \A x \in (DOMAIN map) \ {r} : map'[x] = map[x]
        BY <2>4, <2>7, Zenon DEF EraseKey
      <3>2. MapOK'
        BY <1>1, <2>5, <3>1, Zenon DEF MapOK
      <3>3. RefCnt(r)' = 0 /\ \A q \in Site \ {r} : RefCnt(q)' = RefCnt(q)
        BY <3>1, Zenon DEF RefCnt
      <3> QED
        BY <2>4, <2>6, <2>7, <3>2, <3>3
    <2>8. CASE map[r].m_RefCnt # 1
      <3>1. map' = [map EXCEPT ![r].m_RefCnt = @ + (-1)]
        BY <2>4, <2>8, Zenon DEF AddRef
      <3>2. /\ DOMAIN map' = DOMAIN map
            /\ map'[r] =
                 AddressOfInterest("RETURNADDRESS", f, map[r].m_RefCnt - 1)
            /\ \A x \in DOMAIN map \ {r} : map'[x] = map[x]
        BY <1>3, <2>1, <3>1 DEF AddressOfInterest
      <3>3. /\ map'[r].m_RefCnt = map[r].m_RefCnt - 1
            /\ map'[r].m_RefCnt \in Nat \ {0}
        BY <2>1, <2>8, <3>2 DEF AddressOfInterest
      <3>4. MapOK'
        BY <1>1, <2>5, <3>2, <3>3, Zenon DEF MapOK
      <3>5. RefCnt(r)' = RefCnt(r) - 1
        BY <1>3, <3>2, <3>3, Zenon DEF RefCnt
      <3>6. \A q \in Site \ {r} : RefCnt(q)' = RefCnt(q)
        BY <3>2, Zenon DEF RefCnt
      <3> QED
        BY <2>1, <2>4, <2>6, <3>4, <3>5, <3>6, Zenon
    <2> QED
      BY <2>7, <2>8, Zenon
  <1> QED
    BY <1>2, <1>3, Zenon

-----------------------------------------------------------------------------
(***************************************************************************)
(* The invariant.                                                          *)
(***************************************************************************)

\* Before Init of MemCheckLinuxKernel returns no call is pending.
LEMMA InitIInv == Init => IInv
  <1> SUFFICES ASSUME Init PROVE IInv
    BY Zenon
  <1>1. TypeOK
    <2>1. m_MemoryAccessDepth \in Nat /\ ~(m_MemoryAccessDepth > 0)
      BY DEF Init, GateInit
    <2>2. GateTypeOK
      BY <2>1, ZenonT(60) DEF Init, GateInit, GateTypeOK
    <2>3. GuestOK
      BY GuestAssumption DEF Init, GuestOK
    <2>4. MapOK
      BY Zenon DEF Init, MapOK
    <2> QED
      BY <2>2, <2>3, <2>4, TypeOKParts, Zenon
  <1>2. ASSUME NEW S PROVE PendingTo(S) = {}
    BY DEF Init, PendingTo
  <1>3. ASSUME NEW S PROVE Cardinality(PendingTo(S)) = 0
    BY <1>2, FS_EmptySet, Zenon
  <1>4. \A r \in Site : RefCnt(r) = 0
    BY GuestAssumption, Zenon DEF Init, RefCnt
  <1>5. Nesting = 0
    BY Zenon DEF Init, GateInit, Nesting
  <1> QED
    BY <1>1, <1>3, <1>4, <1>5, Zenon DEF IInv, RefCountsExact, GateBalanced

\* A call of an intercepted function: one more on the count of its return
\* address, on the calls pending and, for a heap function, on the switch.
LEMMA CallStep ==
  ASSUME TypeOK, NEW t \in Thread, NEW r \in Site, Call(t, r)
  PROVE  /\ TypeOK'
         /\ RefCnt(r)' = RefCnt(r) + 1
         /\ \A q \in Site \ {r} : RefCnt(q)' = RefCnt(q)
         /\ Nesting' = IF r \in HeapSite THEN Nesting + 1 ELSE Nesting
         /\ \A S : /\ r \in S => Cardinality(PendingTo(S)') = Cardinality(PendingTo(S)) + 1
                   /\ r \notin S => PendingTo(S)' = PendingTo(S)
  <1>1. GateTypeOK /\ GuestOK /\ MapOK
    BY TypeOKParts, Zenon
  <1>2. /\ Len(stack[t]) < MaxDepth
        /\ stack' = [stack EXCEPT ![t] = Append(@, r)]
        /\ at' = [at EXCEPT ![t] = Elsewhere]
        /\ DoAddress(Callee[r], r)
    BY Zenon DEF Call
  <1>3. /\ MapOK' /\ Enter(Callee[r])
        /\ RefCnt(r)' = RefCnt(r) + 1
        /\ \A q \in Site \ {r} : RefCnt(q)' = RefCnt(q)
    BY <1>1, <1>2, EnterStep, Zenon
  <1>4. GuestOK'
    <2>1. /\ stack[t] \in Seq(Site)
          /\ Append(stack[t], r) \in Seq(Site)
          /\ Len(Append(stack[t], r)) <= MaxDepth
      BY <1>1, <1>2, GuestAssumption, AppendProperties, LenProperties DEF GuestOK
    <2> QED
      BY <1>1, <1>2, <2>1, Zenon DEF GuestOK
  <1>5. /\ GateTypeOK'
        /\ Nesting' = IF r \in HeapSite THEN Nesting + 1 ELSE Nesting
    BY <1>1, <1>3, GateSteps, Zenon DEF Enter, HeapSite
  <1>6. \A S : /\ r \in S => Cardinality(PendingTo(S)') = Cardinality(PendingTo(S)) + 1
               /\ r \notin S => PendingTo(S)' = PendingTo(S)
    BY <1>2, PushPending, ZenonT(60)
  <1> QED
    BY <1>3, <1>4, <1>5, <1>6, TypeOKParts, Zenon

\* The return of an intercepted function to r: one less pending; what is
\* counted of it, in the map and by the switch, is taken off.
LEMMA ReturnStep ==
  ASSUME TypeOK, NEW t \in Thread, Return(t)
  PROVE  /\ TypeOK'
         /\ \E r \in Site :
              /\ \A q \in Site \ {r} : RefCnt(q)' = RefCnt(q)
              /\ RefCnt(r) \in Nat
              /\ RefCnt(r) = 0 => Nesting' = Nesting /\ RefCnt(r)' = 0
              /\ RefCnt(r) # 0 => RefCnt(r)' = RefCnt(r) - 1
              /\ RefCnt(r) # 0 /\ r \in HeapSite /\ Nesting >= 1 => Nesting' = Nesting - 1
              /\ r \notin HeapSite => Nesting' = Nesting
              /\ \A S : /\ r \in S => /\ Cardinality(PendingTo(S)) >= 1
                                      /\ Cardinality(PendingTo(S)') = Cardinality(PendingTo(S)) - 1
                        /\ r \notin S => PendingTo(S)' = PendingTo(S)
  <1>1. GateTypeOK /\ GuestOK /\ MapOK
    BY TypeOKParts, Zenon
  <1>2. PICK r \in Site : r = Top(t)
    BY PopPending, ZenonT(60) DEF Return
  <1>3. /\ Len(stack[t]) > 0
        /\ stack' = [stack EXCEPT ![t] = SubSeq(@, 1, Len(@) - 1)]
        /\ at' = [at EXCEPT ![t] = IF r \in Restartable THEN r ELSE Elsewhere]
        /\ DoAddress(r, Elsewhere)
    BY <1>2, Zenon DEF Return
  <1>4. /\ MapOK' /\ RefCnt(r) \in Nat
        /\ \A q \in Site \ {r} : RefCnt(q)' = RefCnt(q)
        /\ RefCnt(r) = 0 => UNCHANGED gateVars /\ RefCnt(r)' = 0
        /\ RefCnt(r) # 0 => Leave(Callee[r]) /\ RefCnt(r)' = RefCnt(r) - 1
    BY <1>1, <1>3, LeaveStep, Zenon
  <1>5. \A S : /\ r \in S => /\ Cardinality(PendingTo(S)) >= 1
                             /\ Cardinality(PendingTo(S)') = Cardinality(PendingTo(S)) - 1
               /\ r \notin S => PendingTo(S)' = PendingTo(S)
    BY <1>2, <1>3, PopPending, ZenonT(60)
  <1>6. GuestOK'
    <2>1. stack[t] \in Seq(Site) /\ Len(stack[t]) <= MaxDepth
      BY <1>1, Zenon DEF GuestOK
    <2>2. SubSeq(stack[t], 1, Len(stack[t]) - 1) \in Seq(Site) /\ Len(SubSeq(stack[t], 1, Len(stack[t]) - 1)) <= MaxDepth
      BY <1>3, <2>1, GuestAssumption, SMT
    <2> QED
      BY <1>1, <1>3, <2>2, Zenon DEF GuestOK
  <1>7. /\ GateTypeOK'
        /\ RefCnt(r) = 0 => Nesting' = Nesting
        /\ RefCnt(r) # 0 /\ r \in HeapSite /\ Nesting >= 1 => Nesting' = Nesting - 1
        /\ r \notin HeapSite => Nesting' = Nesting
    BY <1>1, <1>4, GateSteps, Zenon DEF Leave, HeapSite
  <1> QED
    BY <1>4, <1>5, <1>6, <1>7, TypeOKParts, Zenon

\* A call of an intercepted function preserves the invariant.
LEMMA CallIInv ==
  ASSUME IInv, NEW t \in Thread, NEW r \in Site, Call(t, r)
  PROVE  IInv'
  <1> USE DEF IInv
  <1>1. /\ TypeOK'
        /\ RefCnt(r)' = RefCnt(r) + 1
        /\ \A q \in Site \ {r} : RefCnt(q)' = RefCnt(q)
        /\ Nesting' = IF r \in HeapSite THEN Nesting + 1 ELSE Nesting
        /\ \A S : /\ r \in S => Cardinality(PendingTo(S)') = Cardinality(PendingTo(S)) + 1
                  /\ r \notin S => PendingTo(S)' = PendingTo(S)
    BY CallStep, Zenon
  <1>2. RefCountsExact'
    BY <1>1, ZenonT(60) DEF RefCountsExact
  <1>3. GateBalanced'
    BY <1>1, Zenon DEF GateBalanced, HeapSite
  <1> QED
    BY <1>1, <1>2, <1>3, Zenon

\* The return of an intercepted function preserves the invariant: the address
\* returned to is in the map because its count is that of the calls pending.
LEMMA ReturnIInv ==
  ASSUME IInv, NEW t \in Thread, Return(t)
  PROVE  IInv'
  <1> USE DEF IInv
  <1>1. TypeOK'
    BY ReturnStep, Zenon
  <1>2. PICK r \in Site :
          /\ \A q \in Site \ {r} : RefCnt(q)' = RefCnt(q)
          /\ RefCnt(r) \in Nat
          /\ RefCnt(r) = 0 => Nesting' = Nesting /\ RefCnt(r)' = 0
          /\ RefCnt(r) # 0 => RefCnt(r)' = RefCnt(r) - 1
          /\ RefCnt(r) # 0 /\ r \in HeapSite /\ Nesting >= 1 => Nesting' = Nesting - 1
          /\ r \notin HeapSite => Nesting' = Nesting
          /\ \A S : /\ r \in S => /\ Cardinality(PendingTo(S)) >= 1
                                  /\ Cardinality(PendingTo(S)') = Cardinality(PendingTo(S)) - 1
                    /\ r \notin S => PendingTo(S)' = PendingTo(S)
    BY ReturnStep, Zenon
  <1>3. RefCountsExact'
    <2> SUFFICES ASSUME NEW q \in Site \ Restartable
                 PROVE  RefCnt(q)' = Cardinality(PendingTo({q})')
      BY ZenonT(60) DEF RefCountsExact
    <2>1. RefCnt(q) = Cardinality(PendingTo({q}))
      BY Zenon DEF RefCountsExact
    <2> QED
      BY <1>2, <2>1
  <1>4. GateBalanced'
    <2> SUFFICES ASSUME HeapSite \cap Restartable = {}
                 PROVE  Nesting' = Cardinality(PendingTo(HeapSite)')
      BY Zenon DEF GateBalanced, HeapSite
    <2>1. Nesting = Cardinality(PendingTo(HeapSite))
      BY Zenon DEF GateBalanced
    <2>2. r \in HeapSite => RefCnt(r) # 0
      <3>1. r \in HeapSite => RefCnt(r) = Cardinality(PendingTo({r}))
        BY Zenon DEF RefCountsExact
      <3> QED
        BY <1>2, <3>1
    <2> QED
      BY <1>2, <2>1, <2>2, Zenon
  <1> QED
    BY <1>1, <1>3, <1>4, Zenon

\* A restarted instruction changes nothing the invariant speaks of: it is at
\* a restartable return address.
LEMMA RestartIInv ==
  ASSUME IInv, NEW t \in Thread, Restart(t)
  PROVE  IInv'
  <1> USE DEF IInv
  <1>1. GateTypeOK /\ GuestOK /\ MapOK
    BY TypeOKParts, Zenon
  <1>2. PICK r \in Restartable : r = at[t]
    BY <1>1, Zenon DEF Restart, GuestOK
  <1>3. r \in Site /\ DoAddress(r, Elsewhere) /\ UNCHANGED <<stack, at>>
    BY <1>2, GuestAssumption, Zenon DEF Restart, guestVars
  <1>4. /\ MapOK'
        /\ \A q \in Site \ {r} : RefCnt(q)' = RefCnt(q)
        /\ UNCHANGED gateVars \/ Leave(Callee[r])
    BY <1>1, <1>3, LeaveStep, Zenon
  <1>5. GuestOK' /\ \A S : PendingTo(S)' = PendingTo(S)
    BY <1>1, <1>3, Zenon DEF GuestOK, PendingTo
  <1>6. GateTypeOK'
    BY <1>1, <1>4, GateSteps, Zenon DEF Leave
  <1>7. RefCountsExact'
    BY <1>2, <1>4, <1>5, Zenon DEF RefCountsExact
  <1>8. GateBalanced'
    <2> SUFFICES ASSUME HeapSite \cap Restartable = {}
                 PROVE  Nesting' = Cardinality(PendingTo(HeapSite)')
      BY Zenon DEF GateBalanced, HeapSite
    <2>1. UNCHANGED gateVars
      BY <1>3, <1>4, Zenon DEF Leave, HeapSite
    <2> QED
      BY <1>1, <1>5, <2>1, GateSteps, Zenon DEF GateBalanced
  <1> QED
    BY <1>4, <1>5, <1>6, <1>7, <1>8, TypeOKParts, Zenon

\* A step that changes neither the map, the switch nor the stacks preserves
\* the invariant.
LEMMA QuietIInv ==
  ASSUME IInv, UNCHANGED <<gateVars, interceptorVars, stack>>, GuestOK'
  PROVE  IInv'
  <1> USE DEF IInv
  <1>1. GateTypeOK /\ MapOK
    BY TypeOKParts, Zenon
  <1>2. GateTypeOK' /\ Nesting' = Nesting
    BY <1>1, GateSteps, Zenon
  <1>3. MapOK'
    BY <1>1, Zenon DEF MapOK, interceptorVars
  <1>4. \A S : PendingTo(S)' = PendingTo(S)
    BY Zenon DEF PendingTo
  <1>5. \A q \in Site : RefCnt(q)' = RefCnt(q)
    BY Zenon DEF RefCnt, interceptorVars
  <1>6. RefCountsExact' /\ GateBalanced'
    BY <1>2, <1>4, <1>5, Zenon DEF RefCountsExact, GateBalanced, HeapSite
  <1> QED
    BY <1>2, <1>3, <1>6, TypeOKParts, Zenon

\* Every step of the guest preserves the invariant.
LEMMA NextIInv == IInv /\ [Next]_vars => IInv'
  <1> SUFFICES ASSUME IInv, [Next]_vars PROVE IInv'
    BY Zenon
  <1>1. GuestOK
    BY TypeOKParts, Zenon DEF IInv
  <1>2. ASSUME NEW t \in Thread, NEW r \in Site, Call(t, r) PROVE IInv'
    BY <1>2, CallIInv, Zenon
  <1>3. ASSUME NEW t \in Thread, Return(t) PROVE IInv'
    BY <1>3, ReturnIInv, Zenon
  <1>4. ASSUME NEW t \in Thread, Restart(t) PROVE IInv'
    BY <1>4, RestartIInv, Zenon
  <1>5. ASSUME NEW t \in Thread, GoOn(t) PROVE IInv'
    <2>1. GuestOK'
      BY <1>1, <1>5, Zenon DEF GuestOK, GoOn
    <2> QED
      BY <1>5, <2>1, QuietIInv, Zenon DEF GoOn
  <1>6. CASE UNCHANGED vars
    <2>1. GuestOK'
      BY <1>1, <1>6, Zenon DEF GuestOK, vars, guestVars
    <2> QED
      BY <1>6, <2>1, QuietIInv, Zenon DEF vars, guestVars
  <1> QED
    BY <1>2, <1>3, <1>4, <1>5, <1>6, Zenon DEF Next

-----------------------------------------------------------------------------
\* Every guest execution keeps the map of the interceptor well formed: the
\* entries of the registered functions are never overwritten or erased, and a
\* return address is kept with the function called from it.
THEOREM InterceptorTypeCorrect == Spec => []TypeOK
  <1>1. IInv => TypeOK
    BY Zenon DEF IInv
  <1> QED
    BY <1>1, InitIInv, NextIInv, PTL DEF Spec

\* However the threads of the guest interleave and recurse, the reference
\* count of a return address is the number of calls that will come back to it.
THEOREM InterceptorCountsCalls == Spec => []RefCountsExact
  <1>1. IInv => RefCountsExact
    BY Zenon DEF IInv
  <1> QED
    BY <1>1, InitIInv, NextIInv, PTL DEF Spec

\* However the threads of the guest interleave and recurse, every
\* MemoryAccessDisable is undone by the MemoryAccessEnable of its own call.
THEOREM InterceptorBalancesGate == Spec => []GateBalanced
  <1>1. IInv => GateBalanced
    BY Zenon DEF IInv
  <1> QED
    BY <1>1, InitIInv, NextIInv, PTL DEF Spec

-----------------------------------------------------------------------------
(***************************************************************************)
(* Instructions that are executed again.                                   *)
(***************************************************************************)

\* No more calls are pending than the stacks of all threads hold.
LEMMA PendingBound ==
  ASSUME NEW S
  PROVE  /\ Cardinality(Thread) * MaxDepth \in Nat
         /\ Cardinality(PendingTo(S)) <= Cardinality(Thread) * MaxDepth
         /\ Cardinality(PendingTo(S)') \in Nat
         /\ Cardinality(PendingTo(S)') <= Cardinality(Thread) * MaxDepth
  <1>1. /\ IsFiniteSet(Thread) /\ IsFiniteSet(1 .. MaxDepth)
        /\ Cardinality(1 .. MaxDepth) = MaxDepth /\ MaxDepth \in Nat
    BY GuestAssumption, FS_Interval
  <1>2. /\ IsFiniteSet(Thread \X (1 .. MaxDepth))
        /\ Cardinality(Thread \X (1 .. MaxDepth)) =
             Cardinality(Thread) * MaxDepth
        /\ Cardinality(Thread \X (1 .. MaxDepth)) \in Nat
    BY <1>1, FS_Product, FS_CardinalityType, Zenon
  <1>3. /\ PendingTo(S) \subseteq Thread \X (1 .. MaxDepth)
        /\ PendingTo(S)' \subseteq Thread \X (1 .. MaxDepth)
    BY Zenon DEF PendingTo
  <1>4. Cardinality(PendingTo(S)) <= Cardinality(Thread \X (1 .. MaxDepth))
    BY <1>2, <1>3, FS_Subset, Zenon
  <1>5. /\ Cardinality(PendingTo(S)') <= Cardinality(Thread \X (1 .. MaxDepth))
        /\ IsFiniteSet(PendingTo(S)')
    BY <1>2, <1>3, FS_Subset, Zenon
  <1> QED
    BY <1>2, <1>4, <1>5, FS_CardinalityType, Zenon

\* The map counts finitely many calls.
LEMMA CountedFinite ==
  /\ IsFiniteSet(CountedCalls) /\ Cardinality(CountedCalls) \in Nat
  /\ IsFiniteSet(CountedCalls') /\ Cardinality(CountedCalls') \in Nat
  <1> DEFINE K == Cardinality(Thread) * MaxDepth
  <1>1. IsFiniteSet(HeapSite)
    BY GuestAssumption, FS_Subset, Zenon DEF HeapSite
  <1>2. K \in Int
    BY PendingBound
  <1> HIDE DEF K
  <1>3. IsFiniteSet(1 .. K)
    BY <1>2, FS_Interval
  <1>4. IsFiniteSet(HeapSite \X (1 .. K))
    BY <1>1, <1>3, FS_Product, ZenonT(60)
  <1>5. /\ CountedCalls \subseteq HeapSite \X (1 .. K)
        /\ CountedCalls' \subseteq HeapSite \X (1 .. K)
    BY Zenon DEF CountedCalls, K, HeapSite
  <1>6. IsFiniteSet(CountedCalls) /\ IsFiniteSet(CountedCalls')
    BY <1>4, <1>5, FS_Subset, Zenon
  <1> QED
    BY <1>6, FS_CardinalityType, Zenon

\* One more on the count of r is one more counted call, if r is the return
\* address of a heap function.
LEMMA CountedPush ==
  ASSUME MapOK, NEW r \in Site, RefCnt(r)' = RefCnt(r) + 1,
         \A q \in Site \ {r} : RefCnt(q)' = RefCnt(q),
         RefCnt(r)' <= Cardinality(Thread) * MaxDepth
  PROVE  Cardinality(CountedCalls') =
           IF r \in HeapSite THEN Cardinality(CountedCalls) + 1
           ELSE Cardinality(CountedCalls)
  <1> DEFINE K == Cardinality(Thread) * MaxDepth
             n == RefCnt(r)
             new == <<r, n + 1>>
  <1>1. n \in Nat /\ K \in Nat /\ n + 1 <= K
    BY RefCntNat, PendingBound, Zenon
  <1> HIDE DEF K
  <1>2. ASSUME NEW c \in HeapSite \X (1 .. K), c # new
        PROVE  c \in CountedCalls' <=> c \in CountedCalls
    <2>1. c = <<c[1], c[2]>> /\ c[1] \in HeapSite /\ c[2] \in 1 .. K
      OBVIOUS
    <2>2. c[1] \in Site
      BY <2>1, Zenon DEF HeapSite
    <2>3. CASE c[1] # r
      BY <2>1, <2>2, <2>3, Zenon DEF CountedCalls, K, HeapSite
    <2>4. CASE c[1] = r
      <3>1. c[2] # n + 1
        BY <1>2, <2>1, <2>4, Zenon
      <3>2. c[2] <= n + 1 <=> c[2] <= n
        BY <1>1, <2>1, <3>1
      <3> QED
        BY <2>1, <2>4, <3>2, Zenon DEF CountedCalls, K, HeapSite
    <2> QED
      BY <2>3, <2>4, Zenon
  <1>3. /\ CountedCalls \subseteq HeapSite \X (1 .. K)
        /\ CountedCalls' \subseteq HeapSite \X (1 .. K)
    BY Zenon DEF CountedCalls, K, HeapSite
  <1>4. CASE r \in HeapSite
    <2>1. new \in HeapSite \X (1 .. K)
      BY <1>1, <1>4
    <2>2. new \notin CountedCalls
      BY <1>1 DEF CountedCalls
    <2>3. new \in CountedCalls'
      BY <1>1, <2>1 DEF CountedCalls, K, HeapSite
    <2> HIDE DEF new
    <2>4. CountedCalls' = CountedCalls \cup {new}
      BY <1>2, <1>3, <2>1, <2>3, Zenon
    <2>5. Cardinality(CountedCalls \cup {new}) = Cardinality(CountedCalls) + 1
      BY <2>2, CountedFinite, FS_AddElement, ZenonT(60)
    <2> QED
      BY <1>4, <2>4, <2>5, Zenon
  <1>5. CASE r \notin HeapSite
    <2>1. new \notin HeapSite \X (1 .. K)
      BY <1>5, Zenon
    <2> HIDE DEF new
    <2>2. CountedCalls' = CountedCalls
      BY <1>2, <1>3, <2>1, Zenon
    <2> QED
      BY <1>5, <2>2, Zenon
  <1> QED
    BY <1>4, <1>5, Zenon

\* One less on the count of r is one counted call less.
LEMMA CountedPop ==
  ASSUME MapOK, NEW r \in Site, RefCnt(r) # 0, RefCnt(r)' = RefCnt(r) - 1,
         \A q \in Site \ {r} : RefCnt(q)' = RefCnt(q),
         RefCnt(r) <= Cardinality(Thread) * MaxDepth
  PROVE  /\ r \in HeapSite => /\ Cardinality(CountedCalls) >= 1
                              /\ Cardinality(CountedCalls') =
                                   Cardinality(CountedCalls) - 1
         /\ r \notin HeapSite => CountedCalls' = CountedCalls
  <1> DEFINE K == Cardinality(Thread) * MaxDepth
             n == RefCnt(r)
             old == <<r, n>>
  <1>1. n \in Nat /\ K \in Nat /\ n >= 1 /\ n <= K
    BY RefCntNat, PendingBound
  <1> HIDE DEF K
  <1>2. ASSUME NEW c \in HeapSite \X (1 .. K), c # old
        PROVE  c \in CountedCalls' <=> c \in CountedCalls
    <2>1. c = <<c[1], c[2]>> /\ c[1] \in HeapSite /\ c[2] \in 1 .. K
      OBVIOUS
    <2>2. c[1] \in Site
      BY <2>1, Zenon DEF HeapSite
    <2>3. CASE c[1] # r
      BY <2>1, <2>2, <2>3, Zenon DEF CountedCalls, K, HeapSite
    <2>4. CASE c[1] = r
      <3>1. c[2] # n
        BY <1>2, <2>1, <2>4, Zenon
      <3>2. c[2] <= n - 1 <=> c[2] <= n
        BY <1>1, <2>1, <3>1
      <3> QED
        BY <2>1, <2>4, <3>2, Zenon DEF CountedCalls, K, HeapSite
    <2> QED
      BY <2>3, <2>4, Zenon
  <1>3. /\ CountedCalls \subseteq HeapSite \X (1 .. K)
        /\ CountedCalls' \subseteq HeapSite \X (1 .. K)
    BY Zenon DEF CountedCalls, K, HeapSite
  <1>4. CASE r \in HeapSite
    <2>1. old \in CountedCalls
      BY <1>1, <1>4 DEF CountedCalls, K
    <2>2. old \notin CountedCalls'
      BY <1>1 DEF CountedCalls
    <2> HIDE DEF old
    <2>3. CountedCalls' = CountedCalls \ {old}
      BY <1>2, <1>3, <2>2, Zenon
    <2>4. Cardinality(CountedCalls \ {old}) = Cardinality(CountedCalls) - 1
      BY <2>1, CountedFinite, FS_RemoveElement, ZenonT(60)
    <2>5. Cardinality(CountedCalls) # 0
      BY <2>1, CountedFinite, FS_EmptySet, Zenon
    <2> QED
      BY <1>4, <2>3, <2>4, <2>5, CountedFinite
  <1>5. CASE r \notin HeapSite
    <2>1. old \notin HeapSite \X (1 .. K)
      BY <1>5, Zenon
    <2> HIDE DEF old
    <2>2. CountedCalls' = CountedCalls
      BY <1>2, <1>3, <2>1, Zenon
    <2> QED
      BY <1>5, <2>2, Zenon
  <1> QED
    BY <1>4, <1>5, Zenon

\* An instruction at a return address, whether a call returned to it or it is
\* executed again, takes as much off the switch as off the counts.
LEMMA LeaveMatches ==
  ASSUME RInv, NEW r \in Site, DoAddress(r, Elsewhere)
  PROVE  /\ GateTypeOK' /\ MapOK'
         /\ GateMatchesMap'
         /\ RefCnt(r) \in Nat
         /\ RefCnt(r)' = IF RefCnt(r) = 0 THEN 0 ELSE RefCnt(r) - 1
         /\ \A q \in Site \ {r} : RefCnt(q)' = RefCnt(q)
  <1> USE DEF RInv
  <1>1. GateTypeOK /\ MapOK /\ Nesting = Cardinality(CountedCalls)
    BY TypeOKParts, Zenon DEF GateMatchesMap
  <1>2. /\ MapOK' /\ RefCnt(r) \in Nat
        /\ \A q \in Site \ {r} : RefCnt(q)' = RefCnt(q)
        /\ RefCnt(r) = 0 => UNCHANGED gateVars /\ RefCnt(r)' = 0
        /\ RefCnt(r) # 0 => Leave(Callee[r]) /\ RefCnt(r)' = RefCnt(r) - 1
    BY <1>1, LeaveStep, Zenon
  <1>3. RefCnt(r) <= Cardinality(Thread) * MaxDepth
    <2>1. RefCnt(r) <= Cardinality(PendingTo({r}))
      BY Zenon DEF RefCountsBounded
    <2>2. /\ Cardinality(PendingTo({r})) <= Cardinality(Thread) * MaxDepth
          /\ Cardinality(PendingTo({r})) \in Nat
          /\ Cardinality(Thread) * MaxDepth \in Nat
      BY PendingBound, PendingFinite, Zenon
    <2> HIDE DEF RInv
    <2> QED
      BY <1>2, <2>1, <2>2
  <1>4. CASE RefCnt(r) = 0
    <2>1. CountedCalls' = CountedCalls
      <3>1. \A q \in HeapSite : RefCnt(q)' = RefCnt(q)
        BY <1>2, <1>4, Zenon DEF HeapSite
      <3> QED
        BY <3>1, Zenon DEF CountedCalls, HeapSite
    <2> QED
      BY <1>1, <1>2, <1>4, <2>1, GateSteps, Zenon DEF GateMatchesMap
  <1>5. CASE RefCnt(r) # 0 /\ r \in HeapSite
    <2>1. /\ Cardinality(CountedCalls) >= 1
          /\ Cardinality(CountedCalls') = Cardinality(CountedCalls) - 1
      BY <1>1, <1>2, <1>3, <1>5, CountedPop, Zenon
    <2>2. MemoryAccessEnable
      BY <1>2, <1>5, Zenon DEF Leave, HeapSite
    <2> QED
      BY <1>1, <1>2, <1>5, <2>1, <2>2, GateSteps, Zenon DEF GateMatchesMap
  <1>6. CASE RefCnt(r) # 0 /\ r \notin HeapSite
    <2>1. CountedCalls' = CountedCalls
      BY <1>1, <1>2, <1>3, <1>6, CountedPop, Zenon
    <2>2. UNCHANGED gateVars
      BY <1>2, <1>6, Zenon DEF Leave, HeapSite
    <2> QED
      BY <1>1, <1>2, <1>6, <2>1, <2>2, GateSteps, Zenon DEF GateMatchesMap
  <1> QED
    BY <1>4, <1>5, <1>6, Zenon

\* A step of the guest preserves the invariant.
LEMMA CallRInv ==
  ASSUME RInv, NEW t \in Thread, NEW r \in Site, Call(t, r), TypeOK'
  PROVE  RInv'
  <1> USE DEF RInv
  <1>1. GateTypeOK /\ MapOK /\ MapOK' /\ Nesting = Cardinality(CountedCalls)
    BY TypeOKParts, Zenon DEF GateMatchesMap
  <1>2. /\ Len(stack[t]) < MaxDepth
        /\ stack' = [stack EXCEPT ![t] = Append(@, r)]
        /\ DoAddress(Callee[r], r)
    BY Zenon DEF Call
  <1>3. /\ Enter(Callee[r])
        /\ RefCnt(r)' = RefCnt(r) + 1
        /\ \A q \in Site \ {r} : RefCnt(q)' = RefCnt(q)
    BY <1>1, <1>2, EnterStep, Zenon
  <1>4. /\ Cardinality(PendingTo({r})') = Cardinality(PendingTo({r})) + 1
        /\ \A q \in Site \ {r} : PendingTo({q})' = PendingTo({q})
    BY <1>2, PushPending, ZenonT(60)
  <1>5. \A q \in Site : RefCnt(q) <= Cardinality(PendingTo({q}))
    BY Zenon DEF RefCountsBounded
  <1>6. RefCnt(r)' <= Cardinality(PendingTo({r})')
    BY <1>1, <1>3, <1>4, <1>5, RefCntNat, PendingFinite
  <1>7. RefCountsBounded'
    BY <1>3, <1>4, <1>5, <1>6, ZenonT(60) DEF RefCountsBounded
  <1>8. RefCnt(r)' <= Cardinality(Thread) * MaxDepth
    <2>1. /\ Cardinality(PendingTo({r})') <= Cardinality(Thread) * MaxDepth
          /\ Cardinality(PendingTo({r})') \in Nat
          /\ Cardinality(Thread) * MaxDepth \in Nat
      BY PendingBound, Zenon
    <2>2. RefCnt(r)' \in Nat
      BY <1>1, RefCntNat, Zenon
    <2> HIDE DEF RInv
    <2> QED
      BY <1>6, <2>1, <2>2
  <1>9. Cardinality(CountedCalls') =
          IF r \in HeapSite THEN Cardinality(CountedCalls) + 1
          ELSE Cardinality(CountedCalls)
    BY <1>1, <1>3, <1>8, CountedPush, Zenon
  <1>10. Nesting' = IF r \in HeapSite THEN Nesting + 1 ELSE Nesting
    BY <1>1, <1>3, GateSteps, Zenon DEF Enter, HeapSite
  <1>11. GateMatchesMap'
    BY <1>1, <1>9, <1>10, Zenon DEF GateMatchesMap
  <1> QED
    BY <1>7, <1>11, Zenon

\* The same for the return of a call ...
LEMMA ReturnRInv ==
  ASSUME RInv, NEW t \in Thread, Return(t), TypeOK'
  PROVE  RInv'
  <1> USE DEF RInv
  <1>1. PICK r \in Site : r = Top(t)
    BY PopPending, ZenonT(60) DEF Return
  <1>2. /\ Len(stack[t]) > 0
        /\ stack' = [stack EXCEPT ![t] = SubSeq(@, 1, Len(@) - 1)]
        /\ DoAddress(r, Elsewhere)
    BY <1>1, Zenon DEF Return
  <1>3. /\ GateMatchesMap'
        /\ RefCnt(r) \in Nat
        /\ RefCnt(r)' = IF RefCnt(r) = 0 THEN 0 ELSE RefCnt(r) - 1
        /\ \A q \in Site \ {r} : RefCnt(q)' = RefCnt(q)
    BY <1>2, LeaveMatches, Zenon
  <1>4. /\ Cardinality(PendingTo({r})) >= 1
        /\ Cardinality(PendingTo({r})') = Cardinality(PendingTo({r})) - 1
        /\ \A q \in Site \ {r} : PendingTo({q})' = PendingTo({q})
    BY <1>1, <1>2, PopPending, ZenonT(60)
  <1>5. \A q \in Site : RefCnt(q) <= Cardinality(PendingTo({q}))
    BY Zenon DEF RefCountsBounded
  <1>6. RefCnt(r)' <= Cardinality(PendingTo({r})')
    BY <1>3, <1>4, <1>5, PendingFinite
  <1> QED
    BY <1>3, <1>4, <1>5, <1>6, ZenonT(60) DEF RefCountsBounded

\* ... and for an instruction that is executed again.
LEMMA RestartRInv ==
  ASSUME RInv, NEW t \in Thread, Restart(t), TypeOK'
  PROVE  RInv'
  <1> USE DEF RInv
  <1>1. PICK r \in Restartable : r = at[t]
    BY Zenon DEF Restart, TypeOK
  <1>2. r \in Site /\ DoAddress(r, Elsewhere) /\ UNCHANGED stack
    BY <1>1, GuestAssumption, Zenon DEF Restart, guestVars
  <1>3. /\ GateMatchesMap'
        /\ RefCnt(r) \in Nat
        /\ RefCnt(r)' = IF RefCnt(r) = 0 THEN 0 ELSE RefCnt(r) - 1
        /\ \A q \in Site \ {r} : RefCnt(q)' = RefCnt(q)
    BY <1>2, LeaveMatches, Zenon
  <1>4. \A q \in Site : PendingTo({q})' = PendingTo({q})
    BY <1>2, Zenon DEF PendingTo
  <1>5. \A q \in Site : RefCnt(q) <= Cardinality(PendingTo({q}))
    BY Zenon DEF RefCountsBounded
  <1>6. RefCnt(r)' <= Cardinality(PendingTo({r})')
    BY <1>2, <1>3, <1>4, <1>5, PendingFinite
  <1> QED
    BY <1>3, <1>4, <1>5, <1>6, ZenonT(60) DEF RefCountsBounded

\* Every step of the guest preserves the second invariant.
LEMMA NextRInv == TypeOK' /\ RInv /\ [Next]_vars => RInv'
  <1> SUFFICES ASSUME TypeOK', RInv, [Next]_vars PROVE RInv'
    BY Zenon
  <1>1. ASSUME UNCHANGED <<gateVars, interceptorVars, stack>> PROVE RInv'
    <2>1. GateTypeOK
      BY TypeOKParts, Zenon DEF RInv
    <2>2. Nesting' = Nesting
      BY <1>1, <2>1, GateSteps, Zenon
    <2>3. \A q \in Site : PendingTo({q})' = PendingTo({q})
      BY <1>1, Zenon DEF PendingTo
    <2>4. \A q \in Site : RefCnt(q)' = RefCnt(q)
      BY <1>1, Zenon DEF RefCnt, interceptorVars
    <2>5. CountedCalls' = CountedCalls
      BY <1>1, Zenon DEF CountedCalls, HeapSite, RefCnt, interceptorVars
    <2> QED
      BY <2>2, <2>3, <2>4, <2>5, Zenon DEF RInv, RefCountsBounded, GateMatchesMap
  <1>2. ASSUME NEW t \in Thread, NEW r \in Site, Call(t, r) PROVE RInv'
    BY <1>2, CallRInv, Zenon
  <1>3. ASSUME NEW t \in Thread, Return(t) PROVE RInv'
    BY <1>3, ReturnRInv, Zenon
  <1>4. ASSUME NEW t \in Thread, Restart(t) PROVE RInv'
    BY <1>4, RestartRInv, Zenon
  <1>5. ASSUME NEW t \in Thread, GoOn(t) PROVE RInv'
    BY <1>1, <1>5, Zenon DEF GoOn
  <1>6. CASE UNCHANGED vars
    BY <1>1, <1>6, Zenon DEF vars, guestVars
  <1> QED
    BY <1>2, <1>3, <1>4, <1>5, <1>6, Zenon DEF Next

\* The second invariant holds of every guest execution.
LEMMA AlwaysRInv == Spec => [](IInv /\ RInv)
  <1>1. Init => RInv
    <2> SUFFICES ASSUME Init PROVE RInv
      BY Zenon
    <2>1. TypeOK
      BY InitIInv, Zenon DEF IInv
    <2>2. \A r \in Site : RefCnt(r) = 0
      BY GuestAssumption, Zenon DEF Init, RefCnt
    <2>3. \A q \in Site : Cardinality(PendingTo({q})) \in Nat
      BY PendingFinite, Zenon
    <2>4. RefCountsBounded
      BY <2>2, <2>3 DEF RefCountsBounded
    <2>5. CountedCalls = {}
      <3> SUFFICES ASSUME NEW c \in CountedCalls PROVE FALSE
        BY Zenon
      <3>1. c[1] \in Site /\ c[2] <= RefCnt(c[1]) /\ c[2] >= 1 /\ c[2] \in Int
        BY PendingBound DEF CountedCalls, HeapSite
      <3> QED
        BY <2>2, <3>1
    <2>6. Nesting = 0
      BY Zenon DEF Init, GateInit, Nesting
    <2> QED
      BY <2>1, <2>4, <2>5, <2>6, FS_EmptySet, Zenon DEF RInv, GateMatchesMap
  <1>2. IInv /\ RInv /\ [Next]_vars => (IInv /\ RInv)'
    <2>1. IInv => TypeOK
      BY Zenon DEF IInv
    <2>2. IInv' => TypeOK'
      BY Zenon DEF IInv
    <2> QED
      BY <2>2, NextIInv, NextRInv, Zenon
  <1> QED
    BY <1>1, <1>2, InitIInv, PTL DEF Spec

\* With instructions that are executed again, the count of a return address
\* never exceeds the number of calls that will come back to it.
THEOREM InterceptorBoundsCounts == Spec => []RefCountsBounded
  <1>1. RInv => RefCountsBounded
    BY Zenon DEF RInv
  <1> QED
    BY <1>1, AlwaysRInv, PTL

\* Checking is off by as many levels as the map counts calls of heap functions.
THEOREM InterceptorGateFollowsMap == Spec => []GateMatchesMap
  <1>1. RInv => GateMatchesMap
    BY Zenon DEF RInv
  <1> QED
    BY <1>1, AlwaysRInv, PTL

\* However threads interleave and whatever instructions are executed again,
\* checking is on whenever no thread is inside a heap function.
THEOREM InterceptorQuietMeansEnabled == Spec => []QuietMeansEnabled
  <1>1. RInv => QuietMeansEnabled
    <2> SUFFICES ASSUME RInv, \A t \in Thread : ~InHeap(t)
                 PROVE  ~m_MemoryAccessDisable
      BY Zenon DEF QuietMeansEnabled
    <2>1. \A r \in HeapSite : PendingTo({r}) = {}
      <3> SUFFICES ASSUME NEW r \in HeapSite, NEW c \in PendingTo({r})
                   PROVE  FALSE
        BY Zenon
      <3>1. /\ c[1] \in Thread /\ c[2] \in 1 .. MaxDepth
            /\ c[2] <= Len(stack[c[1]]) /\ stack[c[1]][c[2]] = r
        BY Zenon DEF PendingTo
      <3>2. stack[c[1]] \in Seq(Site)
        BY <3>1, Zenon DEF RInv, TypeOK
      <3>3. c[2] \in 1 .. Len(stack[c[1]])
        BY <3>1, <3>2, GuestAssumption, LenProperties, SMTT(60)
      <3>4. Callee[r] \in HeapFunction
        BY Zenon DEF HeapSite
      <3> QED
        BY <3>1, <3>3, <3>4, Zenon DEF InHeap
    <2>2. \A r \in HeapSite : RefCnt(r) <= 0
      BY <2>1, FS_EmptySet, ZenonT(60) DEF RInv, RefCountsBounded, HeapSite
    <2>3. CountedCalls = {}
      <3> SUFFICES ASSUME NEW c \in CountedCalls PROVE FALSE
        BY Zenon
      <3>1. /\ c[1] \in HeapSite /\ c[2] <= RefCnt(c[1])
            /\ c[2] >= 1 /\ c[2] \in Int
        BY PendingBound DEF CountedCalls
      <3>2. MapOK
        BY TypeOKParts, Zenon DEF RInv
      <3>3. RefCnt(c[1]) \in Nat
        BY <3>1, <3>2, RefCntNat, Zenon DEF HeapSite
      <3> QED
        BY <2>2, <3>1, <3>3
    <2>4. Nesting = 0
      BY <2>3, FS_EmptySet, Zenon DEF RInv, GateMatchesMap
    <2>5. GateTypeOK
      BY TypeOKParts, Zenon DEF RInv
    <2>6. CASE m_MemoryAccessDisable = TRUE
      BY <2>4, <2>5, <2>6 DEF Nesting, GateTypeOK
    <2>7. CASE m_MemoryAccessDisable = FALSE
      BY <2>7, Zenon
    <2> QED
      BY <2>5, <2>6, <2>7, ZenonT(60) DEF GateTypeOK
  <1> QED
    BY <1>1, AlwaysRInv, PTL
=============================================================================
