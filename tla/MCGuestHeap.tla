----------------------------- MODULE MCGuestHeap -----------------------------
(***************************************************************************)
(* Instance of GuestHeap for TLC: four addresses, two of them the init     *)
(* section and one the bitmap of bootmem.                                  *)
(***************************************************************************)
EXTENDS GuestHeap

MCHeap == 4 .. 7
\* The properties say nothing of what follows an overtaken late mark.
NotOvertaken == ~overtaken

MCPhysical == [a \in MCHeap |-> a + 100]
=============================================================================
