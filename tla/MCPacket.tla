------------------------------ MODULE MCPacket ------------------------------
(* The instance of Packet that packet.cfg checks. *)
EXTENDS Packet, TLC
Slots == Permutations(Slot)
=============================================================================
