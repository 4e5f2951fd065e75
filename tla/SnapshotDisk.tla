----------------------------- MODULE SnapshotDisk -----------------------------
(***************************************************************************)
(* What a disk image with snapshots promises its user: the disk keeps what *)
(* was last written to it, a snapshot keeps what the disk held when it was *)
(* taken, and going back to a snapshot brings back exactly that.  A sector *)
(* is undefined while a request that writes it is under way.               *)
(***************************************************************************)
EXTENDS Naturals

CONSTANTS
  Sector,                  \* sectors of the disk and of the saved machine state
  Part,                    \* the sets of sectors one request of the guest writes
  MachineState,            \* the sets of sectors a saved machine state takes
  Content,                 \* what a sector may hold
  Undefined,               \* a sector that is being written
  Name                     \* names of snapshots

VARIABLES
  disk,                    \* what a read of each sector gives
  saved                    \* what each snapshot keeps of them

NotThere == [s \in Sector |-> Undefined]

Init ==
  /\ disk \in [Sector -> Content]
  /\ saved = [n \in Name |-> NotThere]

StartWrite(S) ==
  /\ disk' = [s \in Sector |-> IF s \in S THEN Undefined ELSE disk[s]]
  /\ UNCHANGED saved

EndWrite(S, c) ==
  /\ \A s \in S : disk[s] = Undefined
  /\ disk' = [s \in Sector |-> IF s \in S THEN c ELSE disk[s]]
  /\ UNCHANGED saved

\* The machine state is saved in the sectors S and a snapshot is taken.
Save(n, S, c) ==
  /\ disk' = [s \in Sector |-> IF s \in S THEN c ELSE disk[s]]
  /\ saved' = [saved EXCEPT ![n] = disk']

Load(n) ==
  /\ saved[n] # NotThere
  /\ disk' = saved[n]
  /\ UNCHANGED saved

Delete(n) == saved' = [saved EXCEPT ![n] = NotThere] /\ UNCHANGED disk

Next ==
  \/ \E S \in Part : StartWrite(S) \/ \E c \in Content : EndWrite(S, c)
  \/ \E n \in Name, S \in MachineState, c \in Content : Save(n, S, c)
  \/ \E n \in Name : Load(n) \/ Delete(n)

Spec == Init /\ [][Next]_<<disk, saved>>
=============================================================================
