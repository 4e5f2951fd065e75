-------------------------------- MODULE MCPic --------------------------------
(* Four lines a controller, with the slave at line 2 of the master. *)
EXTENDS Pic, TLC
MCElcrMask == 0 :> {} @@ 1 :> {1, 3}
MCDevice == {<<0, 3>>, <<1, 3>>}
MCIcw1 == {[init4 |-> TRUE, single |-> FALSE], [init4 |-> FALSE, single |-> FALSE]}
\* Normal mode is that of a reset.
MCIcw4 == {[sfnm |-> TRUE, aeoi |-> FALSE], [sfnm |-> FALSE, aeoi |-> TRUE]}
=============================================================================
