----------------------------- MODULE MCCamChain ------------------------------
(* CamChain on small instances. *)
EXTENDS CamChain

\* no effect; the effect of two passes, on the cube; every effect
MCLooks == {<<{}, FALSE>>, <<{"blur"}, TRUE>>, <<Effects, FALSE>>}
MCPlain == {<<{}, FALSE>>}
MCVk == {"vk"}
MCScenes == AllScenes
==============================================================================
