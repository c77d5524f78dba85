---------------------------- MODULE MCVkPresent ------------------------------
(* VkPresent on small instances. *)
EXTENDS VkPresent

MCSizes == {1, 2}
==============================================================================
