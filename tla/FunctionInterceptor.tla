------------------------- MODULE FunctionInterceptor -------------------------
(***************************************************************************)
(* The interception of guest functions (FunctionInterceptor.cpp) with the  *)
(* functions MemCheckLinuxKernel registers, run by the threads of the      *)
(* guest: its tasks and its interrupt handlers.                            *)
(*                                                                         *)
(* QEMU calls DoAddress before every instruction of the guest kernel.  The *)
(* interceptor keeps one table of addresses of interest for all threads:   *)
(* the entry of each intercepted function, and the return address of each  *)
(* call of one that is under way, with a count.  A guest thread is modelled*)
(* by the return addresses on its stack that belong to calls of            *)
(* intercepted functions.                                                  *)
(*                                                                         *)
(* An intercepted function is identified with the address of its entry,    *)
(* and a call site with its return address.                                *)
(***************************************************************************)
EXTENDS Integers, Sequences, FiniteSets, AccessGate

CONSTANTS
  Thread,                  \* tasks and interrupt handlers of the guest
  HeapFunction,            \* LinuxKernelHeapFunction: __kmalloc, mykfree, ...
  MarkFunction,            \* MemCheck_Alloc, _Free, _FreeSize, _FreeAnySize
  Site,                    \* return addresses of calls to these functions
  Callee,                  \* the function each call site calls
  Restartable,             \* those whose instruction may be executed again
  MaxDepth,                \* bound: nested intercepted calls of a thread
  Elsewhere                \* a thread is at no return address

Function == HeapFunction \cup MarkFunction

\* Intercepted functions are called directly, so a return address belongs to
\* one function, and no call of one is the last instruction of a function.
ASSUME GuestAssumption ==
  /\ IsFiniteSet(Thread)
  /\ IsFiniteSet(Site)
  /\ HeapFunction \cap MarkFunction = {}
  /\ Site \cap Function = {}
  /\ Callee \in [Site -> Function]
  /\ Restartable \subseteq Site
  /\ MaxDepth \in Nat
  /\ Elsewhere \notin Site

VARIABLES
  m_AddressOfInterestMap,  \* address to AddressOfInterest
  m_Active,                \* the m_Active flag of each function
  stack,                   \* guest: pending intercepted calls of each thread
  at                       \* guest: restartable return address a thread is at

interceptorVars == <<m_AddressOfInterestMap, m_Active>>
guestVars == <<stack, at>>
vars == <<gateVars, interceptorVars, guestVars>>

AddressOfInterest(type, f, refCnt) ==
  [m_Type |-> type, m_Function |-> f, m_RefCnt |-> refCnt]

\* AddressOfInterest::NewFunction and AddressOfInterest::NewReturnAddress
NewFunctionEntry(f) == AddressOfInterest("FUNCTION", f, 1)
NewReturnAddress(f) == AddressOfInterest("RETURNADDRESS", f, 1)

\* map[a] = v, and map.erase(a)
Put(map, a, v) ==
  [x \in (DOMAIN map) \cup {a} |-> IF x = a THEN v ELSE map[x]]
EraseKey(map, a) == [x \in (DOMAIN map) \ {a} |-> map[x]]

\* ++m_RefCnt and --m_RefCnt of the entry of a
AddRef(map, a, d) == [map EXCEPT ![a].m_RefCnt = @ + d]

-----------------------------------------------------------------------------
(***************************************************************************)
(* Function::Enter and Function::Leave: the heap functions switch the      *)
(* checking of accesses; what the MemCheck_* functions do to the shadow    *)
(* memory on Enter is the subject of MemCheckLinuxKernel.                  *)
(***************************************************************************)
Enter(f) == IF f \in HeapFunction THEN MemoryAccessDisable ELSE UNCHANGED gateVars

\* Mutated form: a function that is not marked active is not left.
LeaveActive(f) ==
  IF f \in HeapFunction /\ m_Active[f]
  THEN MemoryAccessEnable ELSE UNCHANGED gateVars

Leave(f) == IF f \in HeapFunction THEN MemoryAccessEnable ELSE UNCHANGED gateVars

\* Mutated form: the entry is always erased.
ReturnAlwaysErases(pc) ==
  LET aoi == m_AddressOfInterestMap[pc]
  IN  /\ Leave(aoi.m_Function)
      /\ m_Active' = [m_Active EXCEPT ![aoi.m_Function] = FALSE]
      /\ m_AddressOfInterestMap' = EraseKey(m_AddressOfInterestMap, pc)

\* DoAddress at a return address: the call is over.
DoReturnAddress(pc) ==
  LET aoi == m_AddressOfInterestMap[pc]
  IN  /\ Leave(aoi.m_Function)
      /\ m_Active' = [m_Active EXCEPT ![aoi.m_Function] = FALSE]
      /\ m_AddressOfInterestMap' =
           IF aoi.m_RefCnt = 1
           THEN EraseKey(m_AddressOfInterestMap, pc)
           ELSE AddRef(m_AddressOfInterestMap, pc, -1)

\* Mutated form: an address that is in the map already starts anew.
FunctionOverwrites(pc, returnAddress) ==
  LET f == m_AddressOfInterestMap[pc].m_Function
  IN  /\ Enter(f)
      /\ m_Active' = [m_Active EXCEPT ![f] = TRUE]
      /\ m_AddressOfInterestMap' =
           Put(m_AddressOfInterestMap, returnAddress, NewReturnAddress(f))

\* DoAddress at a function's entry, with the return address on the stack: an
\* address that is in the map already, whatever its type and function, is
\* only counted once more.
DoFunction(pc, returnAddress) ==
  LET f == m_AddressOfInterestMap[pc].m_Function
  IN  /\ Enter(f)
      /\ m_Active' = [m_Active EXCEPT ![f] = TRUE]
      /\ m_AddressOfInterestMap' =
           IF returnAddress \in DOMAIN m_AddressOfInterestMap
           THEN AddRef(m_AddressOfInterestMap, returnAddress, 1)
           ELSE Put(m_AddressOfInterestMap, returnAddress, NewReturnAddress(f))

DoAddress(pc, returnAddress) ==
  \/ /\ pc \notin DOMAIN m_AddressOfInterestMap
     /\ UNCHANGED <<gateVars, interceptorVars>>
  \/ /\ pc \in DOMAIN m_AddressOfInterestMap
     /\ m_AddressOfInterestMap[pc].m_Type = "RETURNADDRESS"
     /\ DoReturnAddress(pc)
  \/ /\ pc \in DOMAIN m_AddressOfInterestMap
     /\ m_AddressOfInterestMap[pc].m_Type = "FUNCTION"
     /\ DoFunction(pc, returnAddress)

-----------------------------------------------------------------------------
(***************************************************************************)
(* The guest.  Threads interleave between any two instructions: tasks are  *)
(* switched and interrupts come in.                                        *)
(***************************************************************************)
Top(t) == stack[t][Len(stack[t])]

\* A thread is inside a heap function.
InHeap(t) == \E i \in 1 .. Len(stack[t]) : Callee[stack[t][i]] \in HeapFunction

\* Thread t calls an intercepted function and comes to its first instruction.
\* The bodies of the MemCheck_* functions are empty and call nothing.
Call(t, r) ==
  /\ Len(stack[t]) < MaxDepth
  /\ Len(stack[t]) > 0 => Callee[Top(t)] \in HeapFunction
  /\ stack' = [stack EXCEPT ![t] = Append(@, r)]
  /\ at' = [at EXCEPT ![t] = Elsewhere]
  /\ DoAddress(Callee[r], r)

\* The innermost intercepted call of t returns, and t comes to the
\* instruction at the return address.
Return(t) ==
  /\ Len(stack[t]) > 0
  /\ stack' = [stack EXCEPT ![t] = SubSeq(@, 1, Len(@) - 1)]
  /\ at' = [at EXCEPT ![t] =
               IF Top(t) \in Restartable THEN Top(t) ELSE Elsewhere]
  /\ DoAddress(Top(t), Elsewhere)

\* The instruction at the return address did not complete (a page fault, an
\* iteration of a string instruction) and t comes to it again.  Nothing tells
\* DoAddress that this is not the return of a call.
Restart(t) ==
  /\ at[t] # Elsewhere
  /\ DoAddress(at[t], Elsewhere)
  /\ UNCHANGED guestVars

\* Thread t goes on to instructions that are no addresses of interest.
GoOn(t) ==
  /\ at[t] # Elsewhere
  /\ at' = [at EXCEPT ![t] = Elsewhere]
  /\ UNCHANGED <<gateVars, interceptorVars, stack>>

\* Init of MemCheckLinuxKernel has registered every function.
Init ==
  /\ GateInit
  /\ m_AddressOfInterestMap = [f \in Function |-> NewFunctionEntry(f)]
  /\ m_Active = [f \in Function |-> FALSE]
  /\ stack = [t \in Thread |-> <<>>]
  /\ at = [t \in Thread |-> Elsewhere]

Next ==
  \E t \in Thread :
    \/ \E r \in Site : Call(t, r)
    \/ Return(t)
    \/ Restart(t)
    \/ GoOn(t)

Spec == Init /\ [][Next]_vars

-----------------------------------------------------------------------------
(***************************************************************************)
(* Properties.                                                             *)
(***************************************************************************)

\* The pending calls that return to an address of S.
PendingTo(S) ==
  { c \in Thread \X (1 .. MaxDepth) :
      c[2] <= Len(stack[c[1]]) /\ stack[c[1]][c[2]] \in S }

HeapSite == { r \in Site : Callee[r] \in HeapFunction }

RefCnt(r) ==
  IF r \in DOMAIN m_AddressOfInterestMap
  THEN m_AddressOfInterestMap[r].m_RefCnt ELSE 0

\* The calls of heap functions the map counts: one element for each unit of
\* the reference count of each of their return addresses.
CountedCalls ==
  { c \in HeapSite \X (1 .. Cardinality(Thread) * MaxDepth) :
      c[2] <= RefCnt(c[1]) }

TypeOK ==
  /\ GateTypeOK
  /\ stack \in [Thread -> Seq(Site)]
  /\ \A t \in Thread : Len(stack[t]) <= MaxDepth
  /\ at \in [Thread -> Restartable \cup {Elsewhere}]
  /\ m_Active \in [Function -> BOOLEAN]
  /\ Function \subseteq DOMAIN m_AddressOfInterestMap
  /\ DOMAIN m_AddressOfInterestMap \subseteq Function \cup Site
  /\ \A f \in Function : m_AddressOfInterestMap[f] = NewFunctionEntry(f)
  /\ \A r \in DOMAIN m_AddressOfInterestMap \ Function :
       /\ m_AddressOfInterestMap[r].m_RefCnt \in Nat \ {0}
       /\ m_AddressOfInterestMap[r] =
            AddressOfInterest("RETURNADDRESS", Callee[r],
                              m_AddressOfInterestMap[r].m_RefCnt)

\* The reference count of a return address is the number of calls, of all
\* threads and recursive ones included, that will come back to it.
RefCountsExact ==
  \A r \in Site \ Restartable : RefCnt(r) = Cardinality(PendingTo({r}))

\* MemoryAccessDisable and MemoryAccessEnable are balanced: checking is off by
\* as many levels as there are calls of heap functions under way, so it is
\* off while a thread is inside the allocator and on when none is.
GateBalanced ==
  HeapSite \cap Restartable = {} => Nesting = Cardinality(PendingTo(HeapSite))

\* A restarted instruction takes calls off its count that are still pending,
\* and never puts any on.
RefCountsBounded == \A r \in Site : RefCnt(r) <= Cardinality(PendingTo({r}))

\* Even so, checking is off by as many levels as the map counts calls of heap
\* functions: no MemoryAccessDisable is forgotten ...
GateMatchesMap == Nesting = Cardinality(CountedCalls)

\* ... and checking is on whenever no thread is inside a heap function: no
\* interleaving of calls, returns and restarts leaves it off.
QuietMeansEnabled ==
  (\A t \in Thread : ~InHeap(t)) => ~m_MemoryAccessDisable

\* A heap function of the guest returns when its thread is scheduled.
FairSpec == Spec /\ \A t \in Thread : WF_vars(Return(t))

\* Once the guest makes no more allocator calls, checking comes on for good.
EventuallyEnabled ==
  (<>[][\A t \in Thread, r \in Site : ~Call(t, r)]_vars)
    => <>[](~m_MemoryAccessDisable)
=============================================================================
