---------------------------- MODULE MCTimerWheel ----------------------------
(* Instances of TimerWheel: wheels of a few slots, the real ones have 1000,  *)
(* 3600 and 24.                                                             *)
EXTENDS TimerWheel

MCAsked == {0, 3, 12}    \* at the end of a wheel, and past MAX_TIMEOUT
MCReturned == {-1, 0, 7}
=============================================================================
