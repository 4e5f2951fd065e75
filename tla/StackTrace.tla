------------------------------ MODULE StackTrace ------------------------------
(***************************************************************************)
(* The stack trace of a report (MachineQEMUi386.cpp): the return addresses *)
(* found by following the saved frame pointers of the guest.  The guest's  *)
(* memory is whatever it is at that moment: frames may form a cycle, and   *)
(* words may be unreadable, in which case cpu_memory_rw_debug leaves the   *)
(* variable it should fill alone.                                          *)
(***************************************************************************)
EXTENDS Integers

CONSTANTS
  Frame,                   \* values of frame pointers into readable memory
  Wild,                    \* a frame pointer into unreadable memory
  Unreadable, Code,        \* kinds of words, apart from 0
  Eip, Caller, Junk,       \* program counter, word at %esp, uninitialised word
  DepthLimit               \* depth at which the walk stops, 20

\* What the constants are.
ASSUME TraceAssumption ==
  /\ DepthLimit \in Nat /\ DepthLimit > 2
  /\ Frame \cap {0, Wild, Unreadable, Code, Eip, Caller, Junk} = {}
  /\ Wild \notin {0, Unreadable} /\ Unreadable \notin {0, Code, Junk} /\ Code # 0

VARIABLES
  word,                    \* guest memory at frame pointer and frame pointer + 4
  framePointer, depth,     \* the loop of RecurseStackTrace
  returnAddress,           \* its local variable
  trace,                   \* depth to printed address
  done

traceVars == <<word, framePointer, depth, returnAddress, trace, done>>

\* The word at p (saved frame pointer) and at p + 4 (return address): a return
\* address is named after the frame it is found in.
Words == [Frame -> [saved : Frame \cup {0, Wild, Unreadable},
                    ret : {Code, 0, Unreadable}]]
Saved(p) == IF p = Wild THEN Unreadable ELSE word[p].saved
Ret(p) ==
  CASE p = Wild -> Unreadable
    [] p # Wild /\ word[p].ret = Code -> p
    [] OTHER -> word[p].ret

\* cpu_memory_rw_debug into a variable that holds old.
Read(value, old) == IF value = Unreadable THEN old ELSE value

\* The trace with one line more.
Printed(d, address) == [e \in DOMAIN trace \cup {d} |-> IF e = d THEN address ELSE trace[e]]

-----------------------------------------------------------------------------
\* Mutated forms: an unreadable frame is skipped and not counted; the frame
\* pointer is read first.
LoopSkips ==
  LET ret == Read(Ret(framePointer), returnAddress)
      skip == Ret(framePointer) = Unreadable
  IN  /\ returnAddress' = ret
      /\ trace' = IF skip \/ ret = 0 THEN trace ELSE Printed(depth, ret)
      /\ framePointer' = Read(Saved(framePointer), framePointer)
      /\ depth' = IF skip \/ ret = 0 THEN depth ELSE depth + 1
      /\ done' = (~skip /\ ret = 0)

LoopFrameFirst ==
  LET next == Read(Saved(framePointer), framePointer)
      ret == IF next = 0 THEN 0 ELSE Read(Ret(next), returnAddress)
  IN  /\ returnAddress' = ret
      /\ framePointer' = next
      /\ depth' = depth + 1
      /\ trace' = IF ret = 0 THEN trace ELSE Printed(depth, ret)
      /\ done' = (ret = 0)

\* The body of the loop, which breaks at a return address of 0.
Loop ==
  LET ret == Read(Ret(framePointer), returnAddress)
  IN  /\ returnAddress' = ret
      /\ \/ ret = 0 /\ done' = TRUE /\ UNCHANGED <<framePointer, depth, trace>>
         \/ /\ ret # 0
            /\ trace' = Printed(depth, ret)
            /\ framePointer' = Read(Saved(framePointer), framePointer)
            /\ depth' = depth + 1
            /\ UNCHANGED done

RecurseStackTrace ==
  /\ ~done
  /\ \/ depth < DepthLimit /\ framePointer # 0 /\ Loop
     \/ /\ ~(depth < DepthLimit /\ framePointer # 0)
        /\ done' = TRUE
        /\ UNCHANGED <<framePointer, depth, returnAddress, trace>>
  /\ UNCHANGED word

\* StackTrace prints the program counter, StackTraceAtFunction also the return
\* address on top of the stack, before the walk starts at %ebp.
TraceInit ==
  /\ word \in Words
  /\ framePointer \in Frame \cup {0, Wild}
  /\ returnAddress \in {0, Junk}
  /\ \/ depth = 1 /\ trace = [d \in {0} |-> Eip]
     \/ depth = 2 /\ trace = [d \in {0, 1} |-> IF d = 0 THEN Eip ELSE Caller]
  /\ done = FALSE

TraceSpec == TraceInit /\ [][RecurseStackTrace]_traceVars /\ WF_traceVars(RecurseStackTrace)

-----------------------------------------------------------------------------
(***************************************************************************)
(* Properties.                                                             *)
(***************************************************************************)

\* The depths printed are 0, 1, ... below the limit, and of two lines whose
\* frames and return addresses were readable the second is the return address
\* of the frame the first one's frame was called from.
TraceFollowsFrames ==
  /\ DOMAIN trace = 0 .. (depth - 1) /\ depth <= DepthLimit
  /\ \A d \in DOMAIN trace :
       /\ trace[d] \in Frame /\ d + 1 \in DOMAIN trace
       /\ word[trace[d]].saved \in Frame
       /\ word[word[trace[d]].saved].ret = Code
       /\ \A e \in 1 .. d : trace[e] \in Frame =>
            word[trace[e]].saved \notin {Wild, Unreadable}
       => trace[d + 1] = word[trace[d]].saved
=============================================================================
