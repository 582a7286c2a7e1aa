--------------------------- MODULE MCStreamSocket ---------------------------
(* Instances of StreamSocket: buffers of one or two bytes.                  *)
EXTENDS StreamSocket

CONSTANTS b1, b2
MCSize == [b \in Buffer |-> IF b = b1 THEN 1 ELSE 2]
=============================================================================
