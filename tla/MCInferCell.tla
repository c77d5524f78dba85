----------------------------- MODULE MCInferCell -----------------------------
EXTENDS InferCell

\* A WebGPU device that imports and exports sync files, GL and Vulkan with or
\* without: all cells.  One that does not: the consumers that need no file of it.
MCSetups ==
  {s \in AllCells \X SUBSET Apis :
     "wgpu" \in s[2] \/ s[1].ep = "cpu" \/ s[1].dst \in {"cpu", "wgpu"}}
==============================================================================
