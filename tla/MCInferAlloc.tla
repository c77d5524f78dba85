----------------------------- MODULE MCInferAlloc ----------------------------
(* InferAlloc on small instances. *)
EXTENDS InferAlloc

R(m) == [mod |-> m, external |-> FALSE]
X(m) == [mod |-> m, external |-> TRUE]

MCBringUps == {Domains, {"cpu", "gl", "dmabuf"}}
\* no query; NVIDIA's layouts before another, then around it; one of them only samples
MCEglLists ==
  {<<>>,
   <<R(<<"nv", 3>>), R(<<"nv", 0>>), R(<<"other", 0>>)>>,
   <<R(<<"nv", 3>>), R(<<"other", 0>>), R(<<"nv", 0>>)>>,
   <<R(<<"other", 0>>), R(<<"nv", 3>>), X(<<"nv", 0>>)>>}
MCVkLists == {Layouts, {<<"nv", 3>>, <<"other", 0>>}}
MCGbmAccepts == {{}, {<<"nv", 3>>, <<"nv", 0>>}, {<<"nv", 3>>, <<"other", 0>>}}
==============================================================================
