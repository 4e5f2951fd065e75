----------------------------- MODULE AccessGate -----------------------------
(***************************************************************************)
(* The switch that turns the checking of memory accesses off while guest   *)
(* code runs inside the allocator (MemCheck::MemoryAccessEnable and        *)
(* MemCheck::MemoryAccessDisable of contrib/MemCheck/MemCheck.cpp).  There *)
(* is one switch for the whole guest.                                      *)
(***************************************************************************)
EXTENDS Integers

VARIABLES
  m_MemoryAccessDepth,     \* disablings beyond the first
  m_MemoryAccessDisable    \* checking is off

gateVars == <<m_MemoryAccessDepth, m_MemoryAccessDisable>>

MemoryAccessEnable ==
  IF m_MemoryAccessDepth # 0
  THEN /\ m_MemoryAccessDepth' = m_MemoryAccessDepth - 1
       /\ UNCHANGED m_MemoryAccessDisable
  ELSE /\ m_MemoryAccessDisable' = FALSE
       /\ UNCHANGED m_MemoryAccessDepth

\* Mutated form: nested disablings are not counted.
MemoryAccessDisableFlat ==
  /\ m_MemoryAccessDisable' = TRUE
  /\ UNCHANGED m_MemoryAccessDepth

MemoryAccessDisable ==
  IF m_MemoryAccessDisable
  THEN /\ m_MemoryAccessDepth' = m_MemoryAccessDepth + 1
       /\ UNCHANGED m_MemoryAccessDisable
  ELSE /\ m_MemoryAccessDisable' = TRUE
       /\ UNCHANGED m_MemoryAccessDepth

\* The constructor of MemCheck, then the MemoryAccessEnable() of Init, which
\* finds checking enabled and leaves it so.
GateInit ==
  /\ m_MemoryAccessDepth = 0
  /\ m_MemoryAccessDisable = FALSE

\* How many more MemoryAccessEnable calls it takes to turn checking on.
Nesting ==
  IF m_MemoryAccessDisable THEN m_MemoryAccessDepth + 1 ELSE 0

GateTypeOK ==
  /\ m_MemoryAccessDepth \in Nat
  /\ m_MemoryAccessDisable \in BOOLEAN
  /\ m_MemoryAccessDepth > 0 => m_MemoryAccessDisable
=============================================================================
