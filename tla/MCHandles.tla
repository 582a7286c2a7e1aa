----------------------------- MODULE MCHandles -----------------------------
EXTENDS Handles
CONSTANTS c1, c2, a1, d1, s1, g1
=============================================================================
