--------------------------- MODULE MCPacketBuffer ---------------------------
(* Small instances of PacketBuffer for TLC: integers of one and two bytes. *)
EXTENDS PacketBuffer

Bits == {0, 1}
ShortStrings == {<<>>, <<1>>, <<0, 1>>}
ShortInts == {<<0>>, <<0, 1>>}
=============================================================================
