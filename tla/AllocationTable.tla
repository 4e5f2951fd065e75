--------------------------- MODULE AllocationTable ---------------------------
(***************************************************************************)
(* What the shadow memory promises, without trees, comparators or modular  *)
(* arithmetic: a set of live allocations that share no byte, and for each  *)
(* call the verdict and the allocations that remain.  An allocation of     *)
(* size zero occupies the byte at its address.                             *)
(***************************************************************************)
EXTENDS Integers

CONSTANT AddressSpace

VARIABLES
  objects,                 \* live allocations
  ret                      \* 1 when the last call was reported

vars == <<objects, ret>>

Addr32 == 0 .. (AddressSpace - 1)

Object(p, n) == [m_Address |-> p, m_Size |-> n]

\* The bytes an allocation occupies.
Bytes(o) ==
  o.m_Address .. (IF o.m_Size = 0 THEN o.m_Address
                  ELSE o.m_Address + o.m_Size - 1)

Overlaps(o, q) == \E a \in Bytes(o) : a \in Bytes(q)

Limit(o) == o.m_Address + o.m_Size

\* What is left of o below p and from q on.
Below(o, p) ==
  IF p > o.m_Address THEN {Object(o.m_Address, p - o.m_Address)} ELSE {}
From(o, q) ==
  IF q < Limit(o) THEN {Object(q, Limit(o) - q)} ELSE {}

-----------------------------------------------------------------------------
\* Accepted exactly when no live byte is allocated again.
Alloc(p, n) ==
  \/ /\ \A o \in objects : ~Overlaps(o, Object(p, n))
     /\ objects' = objects \cup {Object(p, n)}
     /\ ret' = 0
  \/ /\ \E o \in objects : Overlaps(o, Object(p, n))
     /\ ret' = 1
     /\ UNCHANGED objects

\* A free of no live byte: null is accepted, the rest reported.
FreeNothing(p) ==
  /\ p = 0 \/ \A o \in objects : p \notin Bytes(o)
  /\ ret' = IF p = 0 THEN 0 ELSE 1
  /\ UNCHANGED objects

Free(p) ==
  \/ FreeNothing(p)
  \/ \E o \in objects :
       /\ p # 0 /\ p \in Bytes(o)
       /\ objects' = IF p = o.m_Address THEN objects \ {o} ELSE objects
       /\ ret' = IF p = o.m_Address THEN 0 ELSE 1

\* A free that must name a whole allocation: one that names a shorter part at
\* its start is carried out, and reported.
FreeSize(p, n) ==
  \/ FreeNothing(p)
  \/ \E o \in objects :
       /\ p # 0 /\ p \in Bytes(o)
       /\ objects' = IF p = o.m_Address /\ n <= o.m_Size
                     THEN (objects \ {o}) \cup From(o, p + n)
                     ELSE objects
       /\ ret' = IF p = o.m_Address /\ n = o.m_Size THEN 0 ELSE 1

\* A free of any part of an allocation leaves exactly the rest of it.
FreeAnySize(p, n) ==
  \/ FreeNothing(p)
  \/ \E o \in objects :
       /\ p # 0 /\ p \in Bytes(o)
       /\ objects' = (objects \ {o}) \cup Below(o, p) \cup From(o, p + n)
       /\ ret' = 0

Init == objects = {} /\ ret = 0

Next ==
  \E p, n \in Addr32 :
    \/ Alloc(p, n)
    \/ Free(p)
    \/ FreeSize(p, n)
    \/ FreeAnySize(p, n)

Spec == Init /\ [][Next]_vars
=============================================================================
