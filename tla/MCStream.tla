------------------------------ MODULE MCStream ------------------------------
(***************************************************************************)
(* An instance of PacketStream for TLC.  A byte has two values, so the     *)
(* eight bytes of a length count to 255; all lengths here are below 64,    *)
(* where the two highest bytes of a length are 0 as they are in any        *)
(* message that fits into memory.                                          *)
(***************************************************************************)
EXTENDS PacketStream

MCTrees == {<<1>>, <<0, 1>>}
MCTables == {<<1, 0, 1>>}

=============================================================================
