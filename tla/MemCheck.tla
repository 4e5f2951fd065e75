------------------------------ MODULE MemCheck ------------------------------
(***************************************************************************)
(* The check of a memory access of the guest (MemCheck::MemoryAccess of    *)
(* contrib/MemCheck/MemCheck.cpp) against the shadow memory, behind the    *)
(* switch of AccessGate and the window of addresses that are checked.      *)
(***************************************************************************)
EXTENDS ShadowMemory, AccessGate

CONSTANTS
  m_MemoryAccessStart,     \* __bss_stop of the guest
  m_MemoryAccessStop,      \* 0xdfff0000
  AccessLength             \* 1, 2, 4 and 8 bytes

ASSUME WindowAssumption ==
  /\ AccessLength \subseteq Nat \ {0} /\ 1 \in AccessLength
  /\ m_MemoryAccessStart \in Nat
  /\ m_MemoryAccessStop \in Nat
  /\ \A l \in AccessLength : m_MemoryAccessStop + l <= AddressSpace

VARIABLE
  verdict                  \* of the last step, when it was an access

InWindow(address) ==
  /\ m_MemoryAccessStart <= address
  /\ address < m_MemoryAccessStop

\* Mutated forms: the switch is not looked at, or the access is looked up one
\* byte too long.
MemoryAccessUngated(address, length) ==
  \/ ~InWindow(address) /\ verdict' = "silent"
  \/ /\ InWindow(address)
     /\ \E pos \in Find(m_MemoryMap, Key(address, length)) :
          verdict' = IF pos = End THEN "reported" ELSE "silent"

MemoryAccessOneMore(address, length) ==
  \/ /\ m_MemoryAccessDisable \/ ~InWindow(address)
     /\ verdict' = "silent"
  \/ /\ ~m_MemoryAccessDisable /\ InWindow(address)
     /\ \E pos \in Find(m_MemoryMap, Key(address, length + 1)) :
          verdict' = IF pos = End THEN "reported" ELSE "silent"

\* An access is reported when it is checked and the map has no entry that is
\* equivalent to it, that is, none that it overlaps.
MemoryAccess(address, length) ==
  \/ /\ m_MemoryAccessDisable \/ ~InWindow(address)
     /\ verdict' = "silent"
  \/ /\ ~m_MemoryAccessDisable /\ InWindow(address)
     /\ \E pos \in Find(m_MemoryMap, Key(address, length)) :
          verdict' = IF pos = End THEN "reported" ELSE "silent"

\* The bytes of an access.
Accessed(address, length) == address .. (address + length - 1)
=============================================================================
