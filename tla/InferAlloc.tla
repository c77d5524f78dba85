------------------------------ MODULE InferAlloc -----------------------------
(***************************************************************************)
(* What hello_inference.c's run_cell allocates, borrows and gives back,    *)
(* over a sweep of cells and with every call able to fail: the tensors of  *)
(* the five domains, the views and dma-buf imports the edges make of them, *)
(* the engine that binds them, and the layout that a GL tensor gets.       *)
(*                                                                         *)
(* One thread runs it all.  A cell has one output here; a tensor holds a   *)
(* set of driver objects and a descriptor.  InferCell has the same cell    *)
(* with its queues and sync files, which are left out here.                *)
(***************************************************************************)
EXTENDS Integers, Sequences, FiniteSets, SequencesExt

CONSTANTS
  BringUps,    \* which sets of domains infer_ctx_init_all may bring up
  EglLists,    \* what EGL may list as renderable: sequences of [mod, external]
  VkLists,     \* what Vulkan may list as importable: sets of layouts
  GbmAccepts,  \* what GBM may accept for a tensor of some size: sets of layouts
  MaxCells,    \* bound: cells, the reference among them
  MaxIters,    \* warm-up and timed iterations of a cell
  MaxFd        \* bound: descriptors 0 .. MaxFd, one for each tensor beside standard input's

Domains == {"cpu", "gl", "vk", "wgpu", "dmabuf"}
Tensors == {"src", "in", "out", "dst"}
Layouts == {<<"nv", 0>>, <<"nv", 3>>, <<"other", 0>>}   \* vendor, log2 of the block height
NoLayout == <<"none", 0>>

ASSUME AllocAssumption ==
  /\ EglLists \subseteq Seq([mod : Layouts, external : BOOLEAN])
  /\ \A H \in BringUps : "cpu" \in H /\ H \subseteq Domains
  /\ VkLists \subseteq SUBSET Layouts /\ GbmAccepts \subseteq SUBSET Layouts
  /\ MaxCells \in Nat /\ MaxIters \in Nat \ {0}
  /\ MaxFd \in Nat /\ MaxFd >= 4

VARIABLES
  have, caps,        \* domains brought up, and what they can do
  layouts,           \* what EGL and Vulkan answered to negotiate_modifier
  bo_modifiers,      \* the layouts to try, once negotiated
  cells, it,         \* cells run, iterations of this one
  rc,                \* has the last cell come to its end?
  pc, src, ep, dst,  \* where run_cell is, and its cell
  t,                 \* the four tensors
  bound,             \* tensors the engine's OrtValues wrap
  cache,             \* the import cache: tensors imported
  todo,              \* tensors still to release
  live,              \* driver objects that exist
  fds                \* who each open descriptor belongs to

ctxVars == <<have, caps, layouts, bo_modifiers>>
cellVars == <<src, ep, dst, cells, rc>>
vars == <<ctxVars, cellVars, it, pc, t, bound, cache, todo, live, fds>>

\* A driver object: when and for which tensor it was made, and what it is.
Objects(x, kinds) == {<<cells, it, x, k>> : k \in kinds}
Kind(o) == o[4]

NoTensor == [dom |-> "none", owned |-> FALSE, mem |-> {}, fd |-> -1,
             mod |-> NoLayout, accepts |-> {}]

------------------------------------------------------------------------------
(* Faulty variants of the operators below *)

UnsortedInsert(list, m) == Append(list, m)                   \* EGL's order as it is
AlwaysFresh(x) == TRUE                                       \* allocates every iteration
OwningView(x, y, dom) == [t[x] EXCEPT !.dom = dom]           \* owned copied along

------------------------------------------------------------------------------
(* infer_tensor.c: contexts.  infer_edge.c: the table *)

\* What a driver that was brought up may lack.
Capabilities == [gl_import : BOOLEAN, vk_export : BOOLEAN, wgpu_dmabuf : BOOLEAN]

Native(e) == IF e = "webgpu" THEN "wgpu" ELSE "cpu"

\* infer_registry_init; "none" where no row has this (from, to)
Mechanism(from, to) ==
  CASE from = to /\ from \in {"cpu", "wgpu"} -> "identity"
    [] from \in {"gl", "vk", "dmabuf"} /\ to = "wgpu" -> "dmabuf_import"
    [] from = "wgpu" /\ to \in {"gl", "vk", "dmabuf"} -> "dmabuf_write"
    [] {from, to} = {"cpu", "dmabuf"} -> "mmap"
    [] from = "cpu" /\ to = "wgpu" -> "write_buffer"
    [] from = "cpu" /\ to \in {"gl", "vk"} -> "upload"
    [] from \in {"gl", "vk", "wgpu"} /\ to = "cpu" -> "readback"
    [] OTHER -> "none"

\* infer_registry_probe
Available(from, to) ==
  /\ Mechanism(from, to) # "none" /\ {from, to} \subseteq have
  /\ Mechanism(from, to) \in {"dmabuf_import", "dmabuf_write"} =>
       /\ caps.wgpu_dmabuf
       /\ "gl" \in {from, to} => caps.gl_import
       /\ "vk" \in {from, to} => caps.vk_export

HandOver(from, to) == Mechanism(from, to) \in {"identity", "mmap"}

------------------------------------------------------------------------------
(* infer_ctx_gl.c: the layout of a GL tensor *)

\* A layout moves before its neighbour if both are NVIDIA's and its blocks are lower.
Overtakes(m, other) == m[1] = "nv" /\ other[1] = "nv" /\ other[2] > m[2]

\* One round of the insertion sort.
InsertLayout(list, m) ==
  LET at == CHOOSE j \in 0 .. Len(list) :
              /\ \A k \in j + 1 .. Len(list) : Overtakes(m, list[k])
              /\ j = 0 \/ ~Overtakes(m, list[j])
  IN InsertAt(list, at + 1, m)

\* May a layout that EGL lists be shared with Vulkan?
Shared(e, vk) == ~e.external /\ e.mod \in vk

\* negotiate_modifier: what EGL renders to and Vulkan imports, preferred first.
Negotiated(egl, vk) ==
  LET list[i \in 0 .. Len(egl)] ==
        IF i = 0 THEN <<>>
        ELSE IF Shared(egl[i], vk) THEN InsertLayout(list[i - 1], egl[i].mod)
        ELSE list[i - 1]
  IN list[Len(egl)]

\* create_bo: the first that allocates at this size, else what the driver likes.
Created(list, accepts) ==
  LET fits == {i \in DOMAIN list : list[i] \in accepts}
  IN IF fits = {} THEN Layouts
     ELSE {list[CHOOSE i \in fits : \A j \in fits : i <= j]}

------------------------------------------------------------------------------
(* Allocating: infer_tensor_alloc *)

\* A tensor that has its memory is left alone.
Fresh(x) == t[x].mem = {}

\* What an allocation may leave behind.  fd: "own", "none", or "zero" where the memset
\* tensor is still untouched.
Left(ok, has, fd) == [ok |-> ok, has |-> has, fd |-> fd]

CpuAlloc == {Left(TRUE, {"ptr"}, "none"), Left(FALSE, {}, "none")}

\* What infer_wgpu_gen makes for the producer's tensor, once, behind its buffer.
GenObjects(x) == IF x = "src" THEN {"uniform", "bind_group"} ELSE {}

WgpuAlloc(x) ==
  {Left(TRUE, {"buffer"} \cup GenObjects(x), "none"), Left(FALSE, {}, "none")} \cup
  {Left(FALSE, {"buffer"} \cup made, "none") : made \in (SUBSET GenObjects(x)) \ {GenObjects(x)}}

GlAlloc ==
  IF ~caps.gl_import THEN {Left(FALSE, {}, "zero")}
  ELSE {Left(FALSE, {}, "zero"),                              \* gbm_bo_create
        Left(FALSE, {"bo"}, "zero"),                          \* odd plane count
        Left(FALSE, {"bo"}, "none"),                          \* gbm_bo_get_fd
        Left(FALSE, {"bo"}, "own"),                           \* eglCreateImage
        Left(FALSE, {"bo", "image", "rbo", "fbo"}, "own"),    \* incomplete
        Left(TRUE, {"bo", "image", "rbo", "fbo"}, "own")}

\* Is there a linear exportable image, with storage usage or without, at some pitch?
VkImage == {Left(FALSE, {}, "none"), Left(TRUE, {"image"}, "none")}

\* The buffer alias: there, or refused, which the storage usage has to make up for.
VkWriters == {[ok |-> TRUE, has |-> {"alias"}], [ok |-> TRUE, has |-> {"view"}],
              [ok |-> FALSE, has |-> {}]}

\* What follows the memory: VK_CHECK ends the program if one of these fails.
VkRest == {"memory", "set", "done", "release", "fence"}

VkAlloc ==
  IF ~caps.vk_export THEN {Left(FALSE, {}, "none")}
  ELSE UNION {
    IF ~i.ok THEN {i}
    ELSE UNION {
      IF ~w.ok THEN {Left(FALSE, i.has, "none")}
      ELSE {Left(FALSE, i.has \cup (w.has \ {"view"}), "none"),    \* no memory type
            Left(TRUE, i.has \cup w.has \cup VkRest, "own")} : w \in VkWriters}
    : i \in VkImage}

DmabufAlloc == {Left(TRUE, {"map"}, "own"), Left(FALSE, {}, "none")}

Allocs(x, d) == CASE d = "cpu" -> CpuAlloc [] d = "gl" -> GlAlloc [] d = "vk" -> VkAlloc
                  [] d = "wgpu" -> WgpuAlloc(x) [] d = "dmabuf" -> DmabufAlloc

Lowest == CHOOSE f \in 0 .. MaxFd : fds[f] = "none" /\ \A g \in 0 .. f - 1 : fds[g] # "none"

\* Tensor x after an allocation.  A dma-buf is entered into the tensor at the end only.
Allocated(x, d, l, mod, accepts) ==
  IF d = "dmabuf" /\ ~l.ok THEN t[x]
  ELSE [dom |-> d, owned |-> TRUE, mem |-> Objects(x, l.has),
        fd |-> CASE l.fd = "own" -> Lowest [] l.fd = "zero" -> 0 [] l.fd = "none" -> -1,
        mod |-> mod, accepts |-> accepts]

Take(x, l) ==
  /\ live' = live \cup Objects(x, l.has)
  /\ fds' = IF l.fd = "own" THEN [fds EXCEPT ![Lowest] = x] ELSE fds

\* The first GL tensor asks both drivers, once for the whole program.
Negotiate(d) ==
  IF d = "gl" /\ caps.gl_import /\ ~bo_modifiers.known
    THEN \E egl \in EglLists, vk \in VkLists :
           /\ layouts' = [egl |-> egl, vk |-> vk]
           /\ bo_modifiers' = [known |-> TRUE, list |-> Negotiated(egl, vk)]
    ELSE UNCHANGED <<layouts, bo_modifiers>>

\* Allocating x in domain d ends with "ok".
Alloc(x, d, ok) ==
  IF ~Fresh(x)
    THEN ok /\ UNCHANGED <<t, live, fds, layouts, bo_modifiers>>
    ELSE /\ Negotiate(d)
         /\ \E l \in Allocs(x, d) :
              /\ l.ok = ok
              /\ Take(x, l)
              /\ IF d = "gl" /\ "bo" \in l.has
                   THEN \E accepts \in GbmAccepts :
                          \E mod \in Created(bo_modifiers'.list, accepts) :
                            t' = [t EXCEPT ![x] = Allocated(x, d, l, mod, accepts)]
                   ELSE t' = [t EXCEPT ![x] = Allocated(x, d, l, NoLayout, {})]

------------------------------------------------------------------------------
(* Edges: infer_edge.c *)

\* alias and dmabuf_view: y becomes a view of x.
View(x, y, dom) == [t[x] EXCEPT !.dom = dom, !.owned = FALSE]

Import(x) == <<cells, 0, x, "import">>

\* import_of: from the cache, or made from x's dma-buf, or cleanly refused.
ImportOf(x, ok) ==
  IF x \in cache THEN ok /\ UNCHANGED <<cache, live>>
  ELSE IF ok
    THEN /\ t[x].fd >= 0 /\ (t[x].dom = "gl" => t[x].mod \in layouts.vk)
         /\ cache' = cache \cup {x} /\ live' = live \cup {Import(x)}
    ELSE UNCHANGED <<cache, live>>

\* Applying the edge from x to y.  The tensor written by a copy edge out of the engine
\* exists already; a step that submits or copies may fail and changes nothing here.
Apply(x, y, from, to, ok) ==
  LET how == Mechanism(from, to)
  IN CASE how \in {"identity", "mmap"} ->
            /\ t' = IF ok THEN [t EXCEPT ![y] = View(x, y, IF how = "mmap" THEN "cpu" ELSE from)]
                          ELSE t
            /\ how = "identity" => ok
            /\ UNCHANGED <<live, fds, layouts, bo_modifiers, cache>>
       [] how \in {"readback", "write_buffer"} ->
            /\ UNCHANGED cache
            /\ \/ Alloc(y, to, ok)
               \/ ~ok /\ Alloc(y, to, TRUE)
       [] how = "upload" ->
            UNCHANGED <<t, live, fds, layouts, bo_modifiers, cache>>
       [] how = "dmabuf_write" ->
            /\ ImportOf(y, ok) \/ (~ok /\ ImportOf(y, TRUE))
            /\ UNCHANGED <<t, fds, layouts, bo_modifiers>>

------------------------------------------------------------------------------
(* run_cell *)

Init ==
  /\ have \in BringUps /\ caps \in Capabilities
  /\ layouts = [egl |-> <<>>, vk |-> {}]
  /\ bo_modifiers = [known |-> FALSE, list |-> <<>>]
  /\ cells = 0 /\ it = 0 /\ rc = TRUE
  /\ pc = "idle" /\ src = "cpu" /\ ep = "cpu" /\ dst = "cpu"
  /\ t = [x \in Tensors |-> NoTensor]
  /\ bound = {} /\ cache = {} /\ todo = <<>> /\ live = {}
  /\ fds = [f \in 0 .. MaxFd |-> IF f = 0 THEN "stdin" ELSE "none"]

\* A cell starts if its edges are available and the engine can be created.
StartCell(from, engine, to) ==
  /\ pc = "idle" /\ cells < MaxCells
  /\ cells' = cells + 1 /\ it' = 0 /\ rc' = FALSE
  /\ \/ /\ Available(from, Native(engine)) /\ Available(Native(engine), to)
        /\ src' = from /\ ep' = engine /\ dst' = to /\ pc' = "dst"
     \/ UNCHANGED <<pc, src, ep, dst>>
  /\ UNCHANGED <<ctxVars, t, bound, cache, todo, live, fds>>

\* The reference comes first; if it fails, nothing else is run.
RunReference == cells = 0 /\ StartCell("cpu", "cpu", "cpu")
Failed == cells = 1 /\ ~rc

\* Then one cell, or all of them; the sweep takes the reference's result for its own.
RunCell ==
  \E from, to \in Domains, engine \in {"cpu", "webgpu"} :
    /\ cells > 0 /\ ~Failed
    /\ ~(from = "cpu" /\ engine = "cpu" /\ to = "cpu")
    /\ StartCell(from, engine, to)

Then(ok, next) == pc' = IF ok THEN next ELSE "out"

AllocDst ==
  /\ pc = "dst"
  /\ \E ok \in BOOLEAN : Alloc("dst", dst, ok) /\ Then(ok, "engine_out")
  /\ UNCHANGED <<have, caps, cellVars, it, bound, cache, todo>>

AllocOut ==
  /\ pc = "engine_out"
  /\ IF HandOver(Native(ep), dst)
       THEN pc' = "gen" /\ UNCHANGED <<t, live, fds, layouts, bo_modifiers>>
       ELSE \E ok \in BOOLEAN : Alloc("out", Native(ep), ok) /\ Then(ok, "gen")
  /\ UNCHANGED <<have, caps, cellVars, it, bound, cache, todo>>

\* infer_tensor_gen allocates first; generating may fail as well.
Gen ==
  /\ pc = "gen"
  /\ \E ok \in BOOLEAN : Alloc("src", src, ok) /\ (Then(ok, "in") \/ pc' = "out")
  /\ UNCHANGED <<have, caps, cellVars, it, bound, cache, todo>>

\* dmabuf_to_wgpu makes the engine's tensor first, then the import.
InEdge ==
  /\ pc = "in"
  /\ IF Mechanism(src, Native(ep)) = "dmabuf_import"
       THEN \E ok \in BOOLEAN :
              Alloc("in", "wgpu", ok) /\ Then(ok, "import") /\ UNCHANGED cache
       ELSE \E ok \in BOOLEAN : Apply("src", "in", src, Native(ep), ok) /\ Then(ok, "view")
  /\ UNCHANGED <<have, caps, cellVars, it, bound, todo>>

InImport ==
  /\ pc = "import"
  /\ \E ok \in BOOLEAN : ImportOf("src", ok) /\ (Then(ok, "view") \/ pc' = "out")
  /\ UNCHANGED <<ctxVars, cellVars, it, t, bound, todo, fds>>

\* A hand-over output: the engine's tensor becomes a view of the consumer's.
OutView ==
  /\ pc = "view"
  /\ IF HandOver(Native(ep), dst)
       THEN \E ok \in BOOLEAN : Apply("dst", "out", Native(ep), dst, ok) /\ Then(ok, "run")
       ELSE pc' = "run" /\ UNCHANGED <<t, live, fds, layouts, bo_modifiers, cache>>
  /\ UNCHANGED <<have, caps, cellVars, it, bound, todo>>

\* Bind, then run: either may fail, with what is bound by then.
Run ==
  /\ pc = "run"
  /\ \/ bound' = {"in", "out"} /\ pc' \in {"copy", "out"}
     \/ bound' \in {bound, bound \cup {"in"}} /\ pc' = "out"
  /\ UNCHANGED <<ctxVars, cellVars, it, t, cache, todo, live, fds>>

OutCopy ==
  /\ pc = "copy"
  /\ IF HandOver(Native(ep), dst)
       THEN pc' = "wait" /\ UNCHANGED <<t, live, fds, layouts, bo_modifiers, cache>>
       ELSE \E ok \in BOOLEAN : Apply("out", "dst", Native(ep), dst, ok) /\ Then(ok, "wait")
  /\ UNCHANGED <<have, caps, cellVars, it, bound, todo>>

\* Wait, read back and check; the next iteration, or the end.
EndIteration ==
  /\ pc = "wait"
  /\ \/ pc' = "gen" /\ it < MaxIters - 1 /\ it' = it + 1 /\ UNCHANGED rc
     \/ pc' = "out" /\ it = MaxIters - 1 /\ rc' = TRUE /\ UNCHANGED it
     \/ pc' = "out" /\ UNCHANGED <<it, rc>>
  /\ UNCHANGED <<ctxVars, src, ep, dst, cells, t, bound, cache, todo, live, fds>>

------------------------------------------------------------------------------
(* out: everything goes *)

\* The order of the releases.
ReleaseOrder == <<"out", "dst", "in", "src">>

\* infer_engine_ort_destroy, infer_edge_cache_fini
DestroyEngine ==
  /\ pc = "out"
  /\ bound' = {}
  /\ live' = live \ {Import(x) : x \in cache} /\ cache' = {}
  /\ todo' = ReleaseOrder /\ pc' = "release"
  /\ UNCHANGED <<ctxVars, cellVars, it, t, fds>>

\* infer_vk_release gives up where there is no memory.  Where there is, it looks for the
\* descriptor set in priv, which infer_tensor_release has cleared: the set stays.
Frees(x) ==
  IF t[x].owned /\ (t[x].dom = "vk" => \E o \in t[x].mem : Kind(o) = "memory")
    THEN {o \in t[x].mem : Kind(o) # "set"}
    ELSE {}

\* The descriptor that a release closes, if any.
Closes(x) ==
  {f \in {t[x].fd} : f >= 0 /\ t[x].owned /\ t[x].dom \in {"gl", "vk", "dmabuf"}}

\* infer_tensor_release
Release ==
  /\ pc = "release" /\ todo # <<>>
  /\ LET x == Head(todo)
     IN /\ live' = live \ Frees(x)
        /\ fds' = [f \in DOMAIN fds |-> IF f \in Closes(x) THEN "none" ELSE fds[f]]
        /\ t' = [t EXCEPT ![x] = NoTensor]
  /\ todo' = Tail(todo)
  /\ IF Tail(todo) = <<>>
       THEN pc' = "idle" /\ src' = "cpu" /\ ep' = "cpu" /\ dst' = "cpu" /\ it' = 0
       ELSE UNCHANGED <<pc, src, ep, dst, it>>
  /\ UNCHANGED <<ctxVars, cells, rc, bound, cache>>

\* The program ends: after the reference, one cell or the sweep.
Ended == pc = "idle" /\ cells > 0 /\ UNCHANGED vars

Next ==
  \/ RunReference \/ RunCell \/ AllocDst \/ AllocOut \/ Gen \/ InEdge \/ InImport \/ OutView \/ Run
  \/ OutCopy \/ EndIteration \/ DestroyEngine \/ Release \/ Ended

Spec == Init /\ [][Next]_vars

------------------------------------------------------------------------------
(* Properties *)

\* Whoever holds on to memory holds on to memory that exists: every tensor and every view
\* of one at all times, the engine and the imports as long as they are there ("its
\* OrtValues wrap our tensors", "the imports hold the tensors' fds").  So nothing is
\* freed twice, and nothing before its last user.
MemoryIsLive ==
  /\ \A x \in Tensors : t[x].mem \subseteq live
  /\ \A x \in bound \cup cache : t[x].mem # {}

\* A tensor of a cell has one descriptor set at most.
OneSet ==
  \A o, p \in live : Kind(o) = "set" /\ Kind(p) = "set" /\ o[1] = p[1] /\ o[3] = p[3] => o = p

\* Between two cells no descriptor stays open and no object of an earlier cell exists,
\* whichever call failed, but for two that the code loses: a Vulkan image, with its alias,
\* for which no memory was found or which cannot be written, and the descriptor set of a
\* Vulkan tensor that got as far as having one.  infer.h says of the set "freed with the
\* tensor"; it stays in its pool, one for each tensor of a cell and not for each iteration.
NothingLeft ==
  pc = "idle" =>
    /\ \A o \in live : \/ Kind(o) = "set"
                       \/ Kind(o) \in {"image", "alias"} /\ [o EXCEPT ![4] = "set"] \notin live
    /\ OneSet
    /\ \A f \in DOMAIN fds : fds[f] \in {"none", "stdin"}

\* The layouts that GL renders to, Vulkan imports and GBM allocates for tensor x.
Importable(x) ==
  {layouts.egl[i].mod : i \in {i \in DOMAIN layouts.egl : Shared(layouts.egl[i], layouts.vk)}}
    \cap t[x].accepts

\* Does EGL list another vendor's shared layout between these two?
Between(first, last) ==
  \E i, j, k \in DOMAIN layouts.egl :
    /\ i < j /\ j < k /\ layouts.egl[i].mod = first /\ layouts.egl[k].mod = last
    /\ Shared(layouts.egl[j], layouts.vk) /\ layouts.egl[j].mod[1] # "nv"

\* If a layout that GL renders to and Vulkan imports can be allocated at all, a GL tensor
\* gets such a layout, and it misses an NVIDIA layout with lower blocks only where another
\* vendor's layout stands between the two ("other vendors' modifiers stay in list order").
PreferredLayout ==
  \A x \in Tensors :
    t[x].dom = "gl" /\ t[x].mod # NoLayout /\ Importable(x) # {} =>
      /\ t[x].mod \in Importable(x)
      /\ \A m \in Importable(x) : Overtakes(m, t[x].mod) => Between(t[x].mod, m)

\* hello_inference.c, where it prepares a tensor: "fd 0 is a valid descriptor: 'none'
\* must be explicit".  So a release closes descriptors that its tensor opened.
OwnFdsOnly ==
  pc = "release" => \A f \in Closes(Head(todo)) : fds[f] = Head(todo)
==============================================================================
