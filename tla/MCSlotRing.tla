----------------------------- MODULE MCSlotRing ------------------------------
(* SlotRing on small instances. *)
EXTENDS SlotRing

MCSizes == {0, 2}         \* "you pick" and another size
MCModes == AllModes
MCListener == {"listener"}
MCCompositors == AllCompositors
MCSlow == {"slow"}
==============================================================================
