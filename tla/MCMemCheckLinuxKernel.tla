---------------------- MODULE MCMemCheckLinuxKernel ----------------------
(***************************************************************************)
(* Two threads, one heap function and the four MemCheck_* functions, each  *)
(* called from one place.  The machine is reset in behaviours in which the *)
(* guest does no more than allocate blocks of one byte at address 2.       *)
(***************************************************************************)
EXTENDS GuestReset, TLC

CONSTANTS t1, t2, kmalloc, rHeap, rAlloc, rFree, rFreeSize, rFreeAnySize

MCThread == {t1, t2}
MCHeapFunction == {kmalloc}
MCMarkFunction ==
  {MemCheck_Alloc, MemCheck_Free, MemCheck_FreeSize, MemCheck_FreeAnySize}
MCSite == {rHeap, rAlloc, rFree, rFreeSize, rFreeAnySize}
MCCallee ==
  rHeap :> kmalloc @@ rAlloc :> MemCheck_Alloc @@ rFree :> MemCheck_Free @@
  rFreeSize :> MemCheck_FreeSize @@ rFreeAnySize :> MemCheck_FreeAnySize

VARIABLE machine           \* whether it is reset

AllocatesOnly ==
  /\ DOMAIN m_AddressOfInterestMap' \cap Site \subseteq {rHeap, rAlloc}
  /\ LiveBytes' \subseteq {2}

MCInit == machine \in {"stays on", "is reset"} /\ ResetInit

MCNext ==
  /\ \/ machine = "stays on" /\ KernelNext /\ UNCHANGED <<resets, cut>>
     \/ machine = "is reset" /\ ResetNext /\ AllocatesOnly
  /\ UNCHANGED machine

MCSpec == MCInit /\ [][MCNext]_<<resetVars, machine>>

Symmetry == Permutations(MCThread)
=============================================================================
