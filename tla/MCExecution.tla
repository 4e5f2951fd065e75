------------------------------ MODULE MCExecution ------------------------------
(***************************************************************************)
(* What runs the guest's instructions, for TLC: the loop of cpu_exec and   *)
(* the cache of translated code.  The models share no variable (each       *)
(* leaves what it needs of the other to chance), so what holds of one in   *)
(* the behaviours in which only it moves holds in all behaviours, and only *)
(* those are explored.                                                     *)
(*                                                                         *)
(* cpu_exec runs every program of six instructions, three of them in the   *)
(* kernel.  The cache has three virtual pages of two bytes in three        *)
(* frames, the last an alias of the first; a byte starts an instruction of *)
(* its length, so the instruction at the end of the first page may span    *)
(* two pages.                                                              *)
(***************************************************************************)
EXTENDS CpuExec, TranslationCache, TLC

VARIABLE moves             \* the one that moves

MCByte == {1, 2}
MCLength == [b \in MCByte |-> b]
MCInitMem == [p \in 0 .. 2 |-> <<1, 2>>]
MCInitMap == [v \in 0 .. 2 |-> IF v = 1 THEN 1 ELSE 0]
MCEntry == {<<0, 1>>, <<0, 2>>}
MCData == {<<1, 1>>, <<2, 1>>}
MCTransfer == {{1, 2}}

ExecutionInit ==
  /\ Init /\ CacheInit
  /\ moves \in {"cpu", "cache"}
  /\ moves = "cache" => pc = 0 /\ \A a \in Addr : kind[a] = "plain"

ExecutionNext ==
  \/ moves = "cpu" /\ Next /\ UNCHANGED <<moves, cacheVars>>
  \/ moves = "cache" /\ CacheNext /\ UNCHANGED <<moves, vars>>

ExecutionSpec ==
  ExecutionInit /\ [][ExecutionNext]_<<moves, vars, cacheVars>>

=============================================================================
