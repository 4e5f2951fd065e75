------------------------------ MODULE GuestReset ------------------------------
(***************************************************************************)
(* A reset of the emulated machine (qemu_system_reset of vl.c): the        *)
(* registered handlers reset the CPU and the devices, and the guest boots  *)
(* again.  MemCheck registers no handler and its Init has run before       *)
(* main_loop, so the table of addresses, the switch and the shadow memory  *)
(* are kept.  main_loop serves the request between any two instructions.   *)
(***************************************************************************)
EXTENDS MemCheckLinuxKernel

CONSTANT MaxResets         \* bound: resets of the machine

VARIABLES
  resets,                  \* resets so far
  cut                      \* history: a reset has cut off a call of a heap function

resetVars == <<kernelVars, resets, cut>>

qemu_system_reset ==
  /\ resets < MaxResets /\ resets' = resets + 1
  /\ stack' = [t \in Thread |-> <<>>] /\ at' = [t \in Thread |-> Elsewhere]
  /\ freed' = {} /\ cut' = (cut \/ ~Quiet)
  /\ UNCHANGED <<gateVars, interceptorVars, shadowVars, verdict>>

ResetInit == KernelInit /\ resets = 0 /\ cut = FALSE

ResetNext ==
  \/ qemu_system_reset
  \/ KernelNext /\ UNCHANGED <<resets, cut>>

ResetSpec == ResetInit /\ [][ResetNext]_resetVars

-----------------------------------------------------------------------------
\* Whatever resets came before, checking is off while a thread is inside the
\* allocator: what a reset leaves behind is never taken off by a later call.
GateCoversCalls == Nesting >= Cardinality(PendingTo(HeapSite))

\* An access in the window that touches no allocated byte is reported when no
\* thread is inside the allocator, unless a reset came while one was.
WildAccessReported ==
  [][ \A a \in Address, l \in AccessLength :
        /\ Access(a, l) /\ Quiet /\ ~cut /\ InWindow(a)
        /\ Accessed(a, l) \cap LiveBytes = {}
      => verdict' = "reported" ]_resetVars

\* So is an access to a byte that was given back and not handed out since.
UseAfterFreeReported ==
  [][ \A a \in freed :
        Access(a, 1) /\ Quiet /\ ~cut /\ InWindow(a) => verdict' = "reported"
    ]_resetVars
=============================================================================
