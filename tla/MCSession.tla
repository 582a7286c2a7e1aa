------------------------------ MODULE MCSession ------------------------------
(* Instances of Session for TLC: the numbers 1 (a robot's), 3 and 4 (real). *)
EXTENDS Session

MCUserID == {1, 3, 4}
=============================================================================
