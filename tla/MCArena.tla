------------------------------ MODULE MCArena ------------------------------
(* One user and one robot in a strip of three blocks.  A view port always  *)
(* reaches the last block (topRight in updateViewPort).                    *)
EXTENDS Arena, TLC

CONSTANTS near, far, last, u1, r1

MCAreas == {{near}, {near, far}}
MCPorts == {{far, last}, {near, far, last}}
Alike == Permutations(Ball)
=============================================================================
