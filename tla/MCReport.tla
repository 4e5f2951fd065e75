------------------------------- MODULE MCReport -------------------------------
(***************************************************************************)
(* What a report is made of, for TLC: the names of System.map and the walk *)
(* of the guest's stack.  The models share no variable, so what holds of   *)
(* one in the behaviours in which only it moves holds in all behaviours,   *)
(* and only those are explored.                                            *)
(*                                                                         *)
(* Every System.map of up to three lines over three addresses and three    *)
(* names, in any order, and every stack of three frames.                   *)
(***************************************************************************)
EXTENDS SymbolTable, StackTrace

VARIABLE part              \* the one that moves

MCIntercepted == <<"MemCheck_Alloc", "mykfree">>

\* Values for the one that does not move.
AFile == <<[addr |-> 1, type |-> "T", name |-> "mykfree"],
           [addr |-> 3, type |-> "T", name |-> "__bss_stop"]>>
AStack == [f \in Frame |-> [saved |-> 0, ret |-> 0]]

ReportInit ==
  \/ part = "symbols" /\ word = AStack /\ framePointer = 0 /\ returnAddress = 0 /\ depth = 1
     /\ Init /\ TraceInit
  \/ part = "walk" /\ file = AFile /\ junk = 0
     /\ Init /\ TraceInit

ReportNext ==
  \/ part = "symbols" /\ LoadStep /\ UNCHANGED <<part, traceVars>>
  \/ part = "walk" /\ RecurseStackTrace /\ UNCHANGED <<part, symbolVars>>

\* The walk is a loop of sequential code, which goes on.
ReportSpec ==
  /\ ReportInit /\ [][ReportNext]_<<part, symbolVars, traceVars>>
  /\ WF_traceVars(part = "walk" /\ RecurseStackTrace)

-----------------------------------------------------------------------------
\* Every trace ends, on cyclic and on unreadable frames too.
WalkEnds == part = "walk" => <>done
=============================================================================
