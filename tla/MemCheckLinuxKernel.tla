------------------------- MODULE MemCheckLinuxKernel -------------------------
(***************************************************************************)
(* The whole of MemCheck beside a running guest: the threads of the guest  *)
(* call intercepted functions and access memory, DoAddress dispatches to   *)
(* the heap functions and to the MemCheck_* functions, and these work on   *)
(* the shadow memory that the accesses are checked against.                *)
(***************************************************************************)
EXTENDS FunctionInterceptor, MemCheck

CONSTANTS
  MemCheck_Alloc, MemCheck_Free, MemCheck_FreeSize, MemCheck_FreeAnySize,
  Pointer, Size            \* arguments the guest passes

ASSUME RegisteredAssumption ==
  /\ MarkFunction = {MemCheck_Alloc, MemCheck_Free,
                     MemCheck_FreeSize, MemCheck_FreeAnySize}
  /\ Pointer \subseteq 0 .. (AddressSpace - 1)
  /\ Size \subseteq 0 .. (AddressSpace - 1)

VARIABLE
  freed                    \* history: pointers given back and not handed out since

kernelVars == <<vars, shadowVars, verdict, freed>>

\* History of an accepted free of p, and of an accepted allocation.
GivenBack(p) == freed' = IF ret' = 0 /\ p # 0 THEN freed \cup {p} ELSE freed

HandedOut(p, n) ==
  freed' = IF ret' = 0
           THEN freed \ Table!Bytes(Key(p, n)) ELSE freed

(***************************************************************************)
(* Enter of the four MemCheck_* functions: the arguments are read from the *)
(* registers of the guest and passed to the shadow memory; ret = 1 makes   *)
(* it dump a stack trace.                                                  *)
(***************************************************************************)
MemCheck_AllocEnter(p, n) ==
  InSpace(p, n) /\ NewMemoryAlloc(p, n) /\ HandedOut(p, n)

MemCheck_FreeEnter(p) == FreeMemory(p) /\ GivenBack(p)

MemCheck_FreeSizeEnter(p, n) == FreeSizeMemory(p, n) /\ GivenBack(p)

MemCheck_FreeAnySizeEnter(p, n) ==
  /\ WithinAllocation(p, n)
  /\ FreeAnySizeMemory(p, n)
  /\ IF n > 0 THEN GivenBack(p) ELSE UNCHANGED freed

CallMark(t, r, p, n) ==
  /\ Call(t, r)
  /\ \/ Callee[r] = MemCheck_Alloc /\ MemCheck_AllocEnter(p, n)
     \/ Callee[r] = MemCheck_Free /\ MemCheck_FreeEnter(p)
     \/ Callee[r] = MemCheck_FreeSize /\ MemCheck_FreeSizeEnter(p, n)
     \/ Callee[r] = MemCheck_FreeAnySize /\ MemCheck_FreeAnySizeEnter(p, n)
  /\ verdict' = "none"

CallHeap(t, r) ==
  /\ Callee[r] \in HeapFunction
  /\ Call(t, r)
  /\ verdict' = "none"
  /\ UNCHANGED <<shadowVars, freed>>

\* A load or store by any thread: MemoryAccess is not told which.
Access(address, length) ==
  /\ UNCHANGED <<vars, shadowVars, freed>>
  /\ MemoryAccess(address, length)

Address == 0 .. (AddressSpace - 1)

KernelInit ==
  /\ Init
  /\ ShadowInit
  /\ verdict = "none"
  /\ freed = {}

KernelNext ==
  \/ \E t \in Thread :
       \/ \E r \in Site, p \in Pointer, n \in Size : CallMark(t, r, p, n)
       \/ \E r \in Site : CallHeap(t, r)
       \/ /\ Return(t)
          /\ verdict' = "none"
          /\ UNCHANGED <<shadowVars, freed>>
  \/ \E a \in Address, l \in AccessLength : Access(a, l)

KernelSpec == KernelInit /\ [][KernelNext]_kernelVars

-----------------------------------------------------------------------------
(***************************************************************************)
(* Properties.                                                             *)
(***************************************************************************)
\* No thread is inside the allocator.
Quiet == \A t \in Thread : ~InHeap(t)

\* No interleaving makes MemoryAccess report an access to bytes that are all
\* allocated, nor any access while a thread is inside the allocator.
NoFalseAlarm ==
  [][ \A a \in Address, l \in AccessLength :
        /\ Access(a, l)
        /\ ~Quiet \/ Accessed(a, l) \subseteq LiveBytes
      => verdict' = "silent" ]_kernelVars

\* "a double free": a pointer the guest gave back and was not handed again is
\* reported by every kind of free, whatever was allocated and freed between.
DoubleFreeReported ==
  [][ \A t \in Thread, r \in Site, p \in freed, n \in Size :
        Callee[r] # MemCheck_Alloc /\ CallMark(t, r, p, n)
          => ret' = 1 ]_kernelVars

\* "If there is an out of bounds heap access [...] then you'll get a kernel
\* stack trace of the guest": an access in the window of which a byte is not
\* allocated is reported, at least when no thread is inside the allocator.
OutOfBoundsReported ==
  [][ \A a \in Address, l \in AccessLength :
        /\ Access(a, l) /\ Quiet /\ InWindow(a)
        /\ ~(Accessed(a, l) \subseteq LiveBytes)
      => verdict' = "reported" ]_kernelVars
=============================================================================
