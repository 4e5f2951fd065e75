------------------------------- MODULE MCPckbd -------------------------------
(***************************************************************************)
(* Instances of Pckbd for TLC.                                             *)
(***************************************************************************)
EXTENDS Pckbd

\* The modes a guest sets.
MCMode == {{"kbdint", "auxint"}, {"auxint"}}

ASSUME RoomForReply
=============================================================================
