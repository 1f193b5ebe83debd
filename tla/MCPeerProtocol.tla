--------------------------- MODULE MCPeerProtocol ---------------------------
(* Instances of one sub-game for TLC: the cop in one corner of the grid, the *)
(* thief in the opposite one, as in config/*/game.json on the larger grid.   *)
EXTENDS PeerProperties

MCCopStart   == <<0, 0>>
MCThiefStart == <<GridSize - 1, GridSize - 1>>

=============================================================================
