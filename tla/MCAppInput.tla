------------------------------ MODULE MCAppInput -----------------------------
(* AppInput on small instances: one kind of input at a time. *)
EXTENDS AppInput

Input(n, kinds) == [kinds |-> kinds, events |-> n]
MCInputs ==
  {Input(6, {"caps", "enter", "motion", "button", "axis", "pframe"}),
   Input(8, {"caps", "pbegin", "pupdate", "pend", "camera"}),
   Input(7, {"caps", "keymap", "mods", "key", "Escape", "q", "e", "c", "1", "2"}),
   Input(7, {"caps", "keymap", "key", "space", "frame"}),
   Input(6, {"caps", "axis", "pframe", "frame"}),
   Input(5, {"ping", "close", "frame", "camera"})}
==============================================================================
