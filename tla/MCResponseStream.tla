-------------------------- MODULE MCResponseStream --------------------------
(* ResponseStream with a small buffer, answers of up to three pieces, two    *)
(* tool calls and one ping, in each of the five protocols.                   *)
EXTENDS ResponseStream
CONSTANTS this, that
MCPieces == {this, that}
=============================================================================
