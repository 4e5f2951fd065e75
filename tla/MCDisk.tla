-------------------------------- MODULE MCDisk --------------------------------
(***************************************************************************)
(* The two sides of the block layer for TLC: requests to the host and the  *)
(* disk image.  They share no variable, so what holds of a side in the     *)
(* behaviours in which only that side moves holds in all behaviours, and   *)
(* only those are explored.                                                *)
(*                                                                         *)
(* The image has L2 tables of two entries and clusters of three sectors;   *)
(* requests are for the middle sector or the whole cluster.                *)
(***************************************************************************)
EXTENDS RawAio

CONSTANTS
  NbClusters, L2Size, ClusterSectors, VmStateSize, Name, ReopenAllowed, MaxOps

VARIABLES
  side,                    \* the side that moves
  s, pending, ops, view

MCRequest == {<<0, 2, 2>>, <<1, 2, 2>>, <<1, 1, 3>>}

Image == INSTANCE Qcow2 WITH Request <- MCRequest

DiskInit ==
  /\ side \in {"aio", "image"} /\ Init /\ Image!Init
  /\ side = "aio" => s = Image!qcow_create

DiskNext ==
  \/ side = "aio" /\ Next /\ UNCHANGED <<side, s, pending, ops, view>>
  \/ side = "image" /\ Image!Next /\ UNCHANGED <<side, vars>>

DiskSpec ==
  DiskInit /\ [][DiskNext]_<<side, vars, s, pending, ops, view>> /\ Fairness

-----------------------------------------------------------------------------
\* The count of a cluster of the image is the number of references to it.
RefcountsExact == Image!RefcountsExact

\* The copied flag tells the clusters that may be written in place.
CopiedIsExact == Image!CopiedIsExact

\* The image keeps the promises of a disk with snapshots.
ImplementsSnapshotDisk == Image!ImplementsSnapshotDisk
=============================================================================
