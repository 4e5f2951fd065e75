-------------------------------- MODULE CpuExec --------------------------------
(***************************************************************************)
(* How the checker gets to see instructions: cpu_exec calls DoAddress for  *)
(* the program counter before it runs a translation block, so a block must *)
(* end before the next kernel instruction (translate.c) and blocks must    *)
(* not be chained past cpu_exec's loop.  Any guest program is run, with    *)
(* interrupts between blocks and faults of the fetch and inside a block.   *)
(*                                                                         *)
(* Each address holds one instruction.  A "jump" is any that ends a block: *)
(* also calls, returns and, since they jump to themselves or on, repeated  *)
(* string instructions.                                                    *)
(***************************************************************************)
EXTENDS Integers, Sequences

CONSTANTS
  Size,                    \* addresses: 0 .. Size - 1, pc_ptr wraps
  KernelStart,             \* 0xc0000000
  MaxBlock,                \* TARGET_PAGE_SIZE - 32: longest block
  MaxNest                  \* bound: handlers that interrupt each other

Addr == 0 .. Size - 1
Handler == { a \in Addr : a >= KernelStart }
None == -1

ASSUME CpuAssumption ==
  /\ Size \in Nat \ {0} /\ KernelStart \in Addr /\ MaxBlock \in Nat \ {0} /\ MaxNest \in Nat

VARIABLES
  kind,                    \* the guest's program: "plain" or "jump" at each address
  loop,                    \* the CPU is in cpu_exec's loop, not in a block
  pc,                      \* cs_base + eip
  start,                   \* tb->pc of the block that runs
  length,                  \* instructions of it that were begun
  T0,                      \* the block that may be patched to jump to the next, or None
  chained,                 \* patched jumps, tb_add_jump
  asked,                   \* DoAddress was called for pc, and pc not begun since
  saved,                   \* where the interrupted code goes on
  begun                    \* history: the last instruction begun, and whether asked then

vars == <<kind, loop, pc, start, length, T0, chained, asked, saved, begun>>

Init ==
  /\ kind \in [Addr -> {"plain", "jump"}]
  /\ loop = TRUE /\ pc \in Addr /\ start = 0 /\ length = 0
  /\ T0 = None /\ chained = {} /\ asked = FALSE /\ saved = <<>>
  /\ begun = [at |-> 0, asked |-> TRUE]

-----------------------------------------------------------------------------
\* gen_intermediate_code_internal: whether translation stops behind the
\* instruction at a, the n-th of the block.  Trap flag, single stepping and
\* inhibited interrupts may stop it as well.
NextPc(a) == (a + 1) % Size

\* Mutated form: the test is on the instruction that was translated.
StopsBehindKernel(a, n) == kind[a] = "jump" \/ n >= MaxBlock \/ a >= KernelStart

Stops(a, n) == kind[a] = "jump" \/ n >= MaxBlock \/ NextPc(a) >= KernelStart

\* Mutated form: blocks are chained, as in the line that is commented out.
Chaining(a) == kind[a] = "jump"

\* dc->jmp_opt is 0: a jump ends in gen_eob, which clears T0.
jmp_opt(a) == FALSE

\* do_interrupt: the handler runs and the code that was interrupted is resumed.
do_interrupt(resume) ==
  /\ Len(saved) < MaxNest
  /\ saved' = <<resume>> \o saved
  /\ pc' \in Handler
  /\ loop' = TRUE /\ T0' = None

-----------------------------------------------------------------------------
\* The head of the loop: a hardware interrupt is taken, or tb_find_fast faults
\* since the page of pc is not present.
Interrupt ==
  /\ loop /\ do_interrupt(pc)
  /\ UNCHANGED <<kind, start, length, chained, asked, begun>>

\* The block is found, DoAddress called, and the block before it patched.
RunBlock ==
  /\ loop /\ loop' = FALSE
  /\ asked' = (pc >= KernelStart)
  /\ chained' = IF T0 = None THEN chained ELSE chained \cup {<<T0, pc>>}
  /\ start' = pc /\ length' = 0 /\ T0' = None
  /\ UNCHANGED <<kind, pc, saved, begun>>

Begin == begun' = [at |-> pc, asked |-> asked] /\ asked' = FALSE

\* The instruction at pc is carried out: the block goes on, or ends with the
\* guest at next.
Goto(next) ==
  /\ pc' = next
  /\ IF ~Stops(pc, length + 1)
     THEN length' = length + 1 /\ UNCHANGED <<loop, T0, start>>
     ELSE IF jmp_opt(pc) /\ <<start, next>> \in chained
     THEN start' = next /\ length' = 0 /\ UNCHANGED <<loop, T0>>
     ELSE /\ loop' = TRUE /\ T0' = (IF jmp_opt(pc) THEN start ELSE None)
          /\ UNCHANGED <<start, length>>
  /\ UNCHANGED <<kind, chained>>

Execute ==
  /\ ~loop /\ Begin
  /\ IF kind[pc] = "jump" THEN \E a \in Addr : Goto(a) ELSE Goto(NextPc(pc))
  /\ UNCHANGED saved

\* The handler returns to the code that was interrupted.
Iret ==
  /\ ~loop /\ kind[pc] = "jump" /\ saved # <<>>
  /\ Begin /\ Goto(Head(saved)) /\ saved' = Tail(saved)

\* The instruction at pc faults: it is executed again after the handler.
Fault ==
  /\ ~loop /\ Begin /\ do_interrupt(pc)
  /\ UNCHANGED <<kind, start, length, chained>>

\* cpu_resume_from_signal: the instruction at pc wrote to the block it is in
\* and is executed again, in a block of its own.
ResumeFromSignal ==
  /\ ~loop /\ Begin
  /\ loop' = TRUE /\ T0' = None
  /\ UNCHANGED <<kind, pc, start, length, chained, saved>>

Next == Interrupt \/ RunBlock \/ Execute \/ Iret \/ Fault \/ ResumeFromSignal

Spec == Init /\ [][Next]_vars

-----------------------------------------------------------------------------
\* No kernel instruction escapes the interceptor: each time the CPU begins one,
\* after a jump, from user code, after a fault or an interrupt, DoAddress was
\* called for it and for nothing else since the one before.
KernelIsWatched == begun.at >= KernelStart => begun.asked
=============================================================================
