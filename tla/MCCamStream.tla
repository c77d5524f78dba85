----------------------------- MODULE MCCamStream -----------------------------
(* CamStream on small instances: the sets of scenes the runs consider. *)
EXTENDS CamStream

MCBackends == AllBackends
MCFenced == {"egl", "serial", "staging"}
==============================================================================
