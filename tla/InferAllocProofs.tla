----------------------------- MODULE InferAllocProofs --------------------------
(****************************************************************************)
(* MemoryIsLive, NothingLeft and PreferredLayout of InferAlloc, for any     *)
(* number of cells and iterations, whichever calls fail and whatever the    *)
(* drivers list.  MemoryIsLive follows from who owns what: src and dst own  *)
(* their objects, in and out own theirs or view those of src and dst, and   *)
(* the order of the releases lets no view outlive what it views.            *)
(* NothingLeft adds that whatever is alive or open is somebody's who has    *)
(* yet to be released, or one of the two things that the code loses: an     *)
(* image without memory, a descriptor set.  What is lost is told apart by   *)
(* the memory, which goes together with its image.  PreferredLayout rests  *)
(* on what negotiate_modifier's sort keeps true from round to round; its    *)
(* rounds are a recursive function on a list of any length, so a            *)
(* counterexample would have a first round, and there is none.              *)
(****************************************************************************)
EXTENDS InferAlloc, TLAPS, WellFoundedInduction, SequenceTheorems

Fields == {"dom", "owned", "mem", "fd", "mod", "accepts"}

\* A tensor's fields.
Shaped(r) == r = [f \in Fields |-> r[f]]
Shapes == t = [x \in Tensors |-> t[x]] /\ \A x \in Tensors : Shaped(t[x])

\* Whose object o may be, in tensor x.
Belongs(o, x) ==
  \/ o[3] = x
  \/ ~t[x].owned /\ x = "in" /\ o[3] = "src"
  \/ ~t[x].owned /\ x = "out" /\ o[3] = "dst"

Owners == \A x \in Tensors : \A o \in t[x].mem : o[4] # "import" /\ Belongs(o, x)

Has(x) == t[x].mem # {}

\* How far the cell has come, and what is there by then.
Progress ==
  /\ pc \in {"engine_out", "gen", "in", "import", "view", "run", "copy", "wait"} => Has("dst")
  /\ pc \in {"in", "import", "view", "run", "copy", "wait"} => Has("src")
  /\ pc \in {"import", "view", "run", "copy", "wait"} => Has("in")
  /\ pc \in {"run", "copy", "wait"} => Has("out")
  /\ pc \in {"gen", "in", "import", "view"} => HandOver(Native(ep), dst) \/ Has("out")

\* The order of the releases: views first.
Releasing ==
  /\ bound \subseteq Tensors /\ cache \subseteq Tensors
  /\ pc \in {"release", "idle"} => bound = {} /\ cache = {}
  /\ pc = "release" =>
       /\ todo \in {<<"out", "dst", "in", "src">>, <<"dst", "in", "src">>, <<"in", "src">>, <<"src">>}
       /\ todo # <<"out", "dst", "in", "src">> => ~Has("out")
       /\ todo = <<"src">> => ~Has("in")

\* The cell's edges exist.
Edges ==
  pc \notin {"idle", "release", "out"} =>
    /\ src \in Domains /\ ep \in {"cpu", "webgpu"} /\ dst \in Domains
    /\ Mechanism(src, Native(ep)) # "none" /\ Mechanism(Native(ep), dst) # "none"

AllocInv == Shapes /\ Owners /\ MemoryIsLive /\ Progress /\ Releasing /\ Edges

------------------------------------------------------------------------------
(* What an allocation and a view leave *)

\* What the Vulkan driver may leave of an image with a way to write it.
VkLeft(l) ==
  \E i \in VkImage, w \in VkWriters :
    \/ l = Left(FALSE, i.has, "none")
    \/ l = Left(FALSE, i.has \cup (w.has \ {"view"}), "none")
    \/ l = Left(TRUE, i.has \cup w.has \cup VkRest, "own")

\* infer_vk_alloc: refused, without an image, or as VkLeft says.
LEMMA VkOutcome ==
  ASSUME NEW x, NEW l \in Allocs(x, "vk")
  PROVE  l = Left(FALSE, {}, "none") \/ (l \in VkImage /\ ~l.ok) \/ VkLeft(l)
<1>1. l \in VkAlloc
  BY DEF Allocs
<1>2. CASE ~caps.vk_export
  BY <1>1, <1>2 DEF VkAlloc
<1>3. CASE caps.vk_export
  <2>1. PICK i \in VkImage :
          l \in IF ~i.ok THEN {i}
                ELSE UNION {
                  IF ~w.ok THEN {Left(FALSE, i.has, "none")}
                  ELSE {Left(FALSE, i.has \cup (w.has \ {"view"}), "none"),
                        Left(TRUE, i.has \cup w.has \cup VkRest, "own")} : w \in VkWriters}
    BY <1>1, <1>3, Zenon DEF VkAlloc
  <2>2. CASE ~i.ok
    BY <2>1, <2>2
  <2>3. CASE i.ok
    <3>1. PICK w \in VkWriters :
            l \in IF ~w.ok THEN {Left(FALSE, i.has, "none")}
                  ELSE {Left(FALSE, i.has \cup (w.has \ {"view"}), "none"),
                        Left(TRUE, i.has \cup w.has \cup VkRest, "own")}
      BY <2>1, <2>3, Zenon
    <3> QED BY <3>1 DEF VkLeft
  <2> QED BY <2>2, <2>3
<1> QED BY <1>2, <1>3

\* No allocation makes an import, and one that succeeds makes something.
LEMMA AllocsSound ==
  ASSUME NEW x, NEW d \in Domains, NEW l \in Allocs(x, d)
  PROVE  "import" \notin l.has /\ (l.ok => l.has # {})
<1>1. CASE d = "cpu"
  BY <1>1 DEF Allocs, CpuAlloc, Left
<1>2. CASE d = "wgpu"
  BY <1>2 DEF Allocs, WgpuAlloc, GenObjects, Left
<1>3. CASE d = "dmabuf"
  BY <1>3 DEF Allocs, DmabufAlloc, Left
<1>4. CASE d = "gl"
  BY <1>4 DEF Allocs, GlAlloc, Left
<1>5. CASE d = "vk"
  <2>1. \A i \in VkImage : "import" \notin i.has
    BY DEF VkImage, Left
  <2>2. \A w \in VkWriters : "import" \notin w.has
    BY DEF VkWriters
  <2>3. "import" \notin VkRest /\ VkRest # {}
    BY DEF VkRest
  <2>4. l = Left(FALSE, {}, "none") \/ (l \in VkImage /\ ~l.ok) \/ VkLeft(l)
    BY <1>5, VkOutcome
  <2>5. CASE l = Left(FALSE, {}, "none")
    BY <2>5 DEF Left
  <2>6. CASE l \in VkImage /\ ~l.ok
    BY <2>1, <2>6
  <2>7. ASSUME NEW i \in VkImage, NEW w \in VkWriters,
               \/ l = Left(FALSE, i.has, "none")
               \/ l = Left(FALSE, i.has \cup (w.has \ {"view"}), "none")
               \/ l = Left(TRUE, i.has \cup w.has \cup VkRest, "own")
        PROVE  "import" \notin l.has /\ (l.ok => l.has # {})
    BY <2>1, <2>2, <2>3, <2>7 DEF Left
  <2> QED BY <2>4, <2>5, <2>6, <2>7 DEF VkLeft
<1> QED BY <1>1, <1>2, <1>3, <1>4, <1>5 DEF Domains

\* What the objects made for a tensor are.
LEMMA ObjectsOf ==
  ASSUME NEW x, NEW kinds
  PROVE  /\ \A o \in Objects(x, kinds) : o[3] = x /\ o[4] \in kinds
         /\ kinds # {} => Objects(x, kinds) # {}
<1>1. ASSUME NEW o \in Objects(x, kinds) PROVE o[3] = x /\ o[4] \in kinds
  <2>1. PICK k \in kinds : o = <<cells, it, x, k>>
    BY DEF Objects
  <2> QED BY <2>1
<1>2. ASSUME NEW k \in kinds PROVE Objects(x, kinds) # {}
  <2>1. <<cells, it, x, k>> \in Objects(x, kinds)
    BY DEF Objects
  <2> QED BY <2>1
<1> QED BY <1>1, <1>2

\* One tensor is replaced: the others keep what they have.
LEMMA Replaced ==
  ASSUME Shapes, Owners, NEW x \in Tensors, NEW r, Shaped(r), t' = [t EXCEPT ![x] = r],
         \A o \in r.mem : /\ o[4] # "import"
                          /\ \/ o[3] = x
                             \/ ~r.owned /\ x = "in" /\ o[3] = "src"
                             \/ ~r.owned /\ x = "out" /\ o[3] = "dst"
  PROVE  /\ Shapes' /\ Owners' /\ t'[x] = r
         /\ \A y \in Tensors : y # x => t'[y] = t[y]
<1>1. t'[x] = r /\ \A y \in Tensors : y # x => t'[y] = t[y]
  BY DEF Shapes
<1>2. Shapes'
  <2>1. t' = [y \in Tensors |-> t'[y]]
    BY DEF Shapes
  <2>2. \A y \in Tensors : Shaped(t'[y])
    BY <1>1 DEF Shapes
  <2> QED BY <2>1, <2>2 DEF Shapes, Shaped
<1>3. ASSUME NEW y \in Tensors, NEW o \in t'[y].mem
      PROVE  o[4] # "import" /\ Belongs(o, y)'
  BY <1>1, <1>3 DEF Owners, Belongs
<1> QED BY <1>1, <1>2, <1>3 DEF Owners

\* infer_tensor_alloc: whatever it leaves behind is there, and the tensor's own; what has
\* its memory is left alone.
LEMMA AllocKeeps ==
  ASSUME Shapes, Owners, MemoryIsLive, NEW x \in Tensors, NEW d \in Domains, NEW ok \in BOOLEAN,
         Alloc(x, d, ok), UNCHANGED <<cells, it>>
  PROVE  /\ Shapes' /\ Owners' /\ \A y \in Tensors : t'[y].mem \subseteq live'
         /\ \A y \in Tensors : Has(y) => t'[y] = t[y]
         /\ \A y \in Tensors : y # x => t'[y] = t[y]
         /\ ok => t'[x].mem # {}
<1>1. CASE ~Fresh(x)
  <2>1. ok /\ UNCHANGED <<t, live>>
    BY <1>1 DEF Alloc
  <2> QED BY <1>1, <2>1 DEF Shapes, Owners, Belongs, MemoryIsLive, Fresh, Shaped
<1>2. CASE Fresh(x)
  <2>1. PICK l, mod, accepts :
          l \in Allocs(x, d) /\ l.ok = ok /\ Take(x, l) /\ t' = [t EXCEPT ![x] = Allocated(x, d, l, mod, accepts)]
    BY <1>2, Zenon DEF Alloc
  <2>2. "import" \notin l.has /\ (l.ok => l.has # {})
    BY <2>1, AllocsSound
  <2>3. live' = live \cup Objects(x, l.has)
    BY <2>1 DEF Take
  <2>4. PICK r : r = Allocated(x, d, l, mod, accepts)
    OBVIOUS
  <2>5. /\ Shaped(r)
        /\ \/ r = t[x] /\ ~ok
           \/ r.mem = Objects(x, l.has) /\ (ok => r.mem # {})
    <3>1. CASE d = "dmabuf" /\ ~l.ok
      BY <2>1, <2>4, <3>1 DEF Allocated, Shapes
    <3>2. CASE ~(d = "dmabuf" /\ ~l.ok)
      <4>1. Shaped(r) /\ r.mem = Objects(x, l.has)
        <5>1. PICK fd : r = [dom |-> d, owned |-> TRUE, mem |-> Objects(x, l.has), fd |-> fd,
                             mod |-> mod, accepts |-> accepts]
          BY <2>4, <3>2, Zenon DEF Allocated
        <5> QED BY <5>1 DEF Shaped, Fields
      <4> QED BY <2>1, <2>2, <4>1, ObjectsOf
    <3> QED BY <3>1, <3>2
  <2>6. \A o \in r.mem : o[3] = x /\ o[4] # "import"
    BY <1>2, <2>2, <2>5, ObjectsOf DEF Fresh
  <2>7. /\ Shapes' /\ Owners' /\ t'[x] = r
        /\ \A y \in Tensors : y # x => t'[y] = t[y]
    BY <2>1, <2>4, <2>5, <2>6, Replaced
  <2>8. r.mem \subseteq live' /\ (ok => r.mem # {})
    BY <1>2, <2>3, <2>5 DEF Fresh
  <2>9. \A y \in Tensors : t'[y].mem \subseteq live'
    BY <2>3, <2>7, <2>8 DEF MemoryIsLive
  <2>10. ~Has(x)
    BY <1>2 DEF Fresh, Has
  <2> QED BY <2>7, <2>8, <2>9, <2>10
<1> QED BY <1>1, <1>2

\* alias and dmabuf_view: in views src, out views dst.
LEMMA ViewKeeps ==
  ASSUME Shapes, Owners, MemoryIsLive, NEW x, NEW y, NEW dom,
         (x = "src" /\ y = "in") \/ (x = "dst" /\ y = "out"), Has(x),
         t' = [t EXCEPT ![y] = View(x, y, dom)], UNCHANGED live
  PROVE  /\ Shapes' /\ Owners' /\ \A z \in Tensors : t'[z].mem \subseteq live'
         /\ t'[y].mem # {} /\ \A z \in Tensors : z # y => t'[z] = t[z]
<1>1. x \in Tensors /\ y \in Tensors /\ x \in {"src", "dst"}
  BY DEF Tensors
<1>2. PICK r : r = View(x, y, dom)
  OBVIOUS
<1>3. Shaped(t[x])
  BY <1>1 DEF Shapes
<1>4. Shaped(r) /\ r.mem = t[x].mem /\ ~r.owned
  BY <1>2, <1>3 DEF View, Shaped, Fields
<1>5. \A o \in t[x].mem : o[4] # "import" /\ o[3] = x
  BY <1>1 DEF Owners, Belongs
<1>6. /\ Shapes' /\ Owners' /\ t'[y] = r
      /\ \A z \in Tensors : z # y => t'[z] = t[z]
  BY <1>1, <1>2, <1>4, <1>5, Replaced
<1> QED BY <1>1, <1>4, <1>6 DEF MemoryIsLive, Has

------------------------------------------------------------------------------
(* The invariant's steps *)

\* No tensor, no engine, nothing alive.
LEMMA AllocInit == Init => AllocInv
<1> SUFFICES ASSUME Init PROVE AllocInv
  OBVIOUS
<1>1. t = [x \in Tensors |-> NoTensor] /\ pc = "idle" /\ bound = {} /\ cache = {}
  BY DEF Init
<1>2. Shaped(NoTensor) /\ NoTensor.mem = {}
  BY DEF Shaped, Fields, NoTensor
<1>3. Shapes /\ Owners /\ MemoryIsLive
  BY <1>1, <1>2 DEF Shapes, Owners, MemoryIsLive
<1>4. Progress /\ Releasing /\ Edges
  BY <1>1 DEF Progress, Releasing, Edges
<1> QED BY <1>3, <1>4 DEF AllocInv

\* Steps that leave the tensors and keep what is alive.
LEMMA TensorsKept ==
  ASSUME AllocInv, UNCHANGED t, live \subseteq live'
  PROVE  Shapes' /\ Owners' /\ \A x \in Tensors : t'[x].mem \subseteq live'
BY DEF AllocInv, Shapes, Shaped, Owners, Belongs, MemoryIsLive

\* What is held on to was there and still is.
LEMMA HoldersKept ==
  ASSUME AllocInv, bound' \cup cache' \subseteq bound \cup cache,
         \A x \in Tensors : t'[x].mem \subseteq live',
         \A x \in Tensors : Has(x) => t'[x].mem # {}
  PROVE  MemoryIsLive'
<1>1. ASSUME NEW x \in bound' \cup cache' PROVE t'[x].mem # {}
  BY DEF AllocInv, Releasing, MemoryIsLive, Has
<1> QED BY <1>1 DEF MemoryIsLive

LEMMA StartStep == ASSUME AllocInv, RunReference \/ RunCell PROVE AllocInv'
<1>1. PICK from \in Domains, engine \in {"cpu", "webgpu"}, to \in Domains : StartCell(from, engine, to)
  BY DEF RunReference, RunCell, Domains
<1>2. /\ pc = "idle" /\ UNCHANGED <<t, live, bound, cache>>
      /\ \/ /\ Available(from, Native(engine)) /\ Available(Native(engine), to)
            /\ src' = from /\ ep' = engine /\ dst' = to /\ pc' = "dst"
         \/ UNCHANGED pc
  BY <1>1 DEF StartCell
<1>3. Shapes' /\ Owners' /\ MemoryIsLive'
  BY <1>2, TensorsKept DEF AllocInv, MemoryIsLive
<1>4. Progress' /\ Releasing'
  BY <1>2 DEF AllocInv, Progress, Releasing
<1>5. Edges'
  BY <1>1, <1>2 DEF Edges, Available, Mechanism, Native
<1> QED BY <1>3, <1>4, <1>5 DEF AllocInv

\* The steps that may allocate tensor x, and leave what holds on to tensors.
LEMMA AllocStep ==
  ASSUME AllocInv, NEW x \in Tensors, NEW d \in Domains, NEW ok \in BOOLEAN, Alloc(x, d, ok),
         UNCHANGED <<cells, it, bound, cache>>
  PROVE  /\ Shapes' /\ Owners' /\ MemoryIsLive'
         /\ \A y \in Tensors : Has(y) => Has(y)'
         /\ ok => Has(x)'
<1>1. /\ Shapes' /\ Owners' /\ \A y \in Tensors : t'[y].mem \subseteq live'
      /\ \A y \in Tensors : Has(y) => t'[y] = t[y]
      /\ ok => t'[x].mem # {}
  BY AllocKeeps DEF AllocInv
<1>2. \A y \in Tensors : Has(y) => t'[y].mem # {}
  BY <1>1 DEF Has
<1>3. MemoryIsLive'
  BY <1>1, <1>2, HoldersKept
<1> QED BY <1>1, <1>2, <1>3 DEF Has

LEMMA AllocDstStep == ASSUME AllocInv, AllocDst PROVE AllocInv'
<1>1. PICK ok \in BOOLEAN : Alloc("dst", dst, ok) /\ Then(ok, "engine_out")
  BY DEF AllocDst
<1>2. pc = "dst" /\ UNCHANGED <<src, ep, dst, cells, it, bound, cache, todo>>
  BY DEF AllocDst, cellVars
<1>3. dst \in Domains /\ "dst" \in Tensors
  BY <1>2 DEF AllocInv, Edges, Tensors
<1>4. Shapes' /\ Owners' /\ MemoryIsLive' /\ (ok => Has("dst")')
  BY <1>1, <1>2, <1>3, AllocStep
<1>5. pc' = IF ok THEN "engine_out" ELSE "out"
  BY <1>1 DEF Then
<1>6. Progress' /\ Releasing' /\ Edges'
  BY <1>2, <1>4, <1>5 DEF AllocInv, Progress, Releasing, Edges
<1> QED BY <1>4, <1>6 DEF AllocInv

LEMMA AllocOutStep == ASSUME AllocInv, AllocOut PROVE AllocInv'
<1>1. pc = "engine_out" /\ UNCHANGED <<src, ep, dst, cells, it, bound, cache, todo>>
  BY DEF AllocOut, cellVars
<1>2. Has("dst") /\ {"dst", "out"} \subseteq Tensors /\ ep \in {"cpu", "webgpu"}
  BY <1>1 DEF AllocInv, Progress, Tensors, Edges
<1>3. CASE HandOver(Native(ep), dst)
  <2>1. pc' = "gen" /\ UNCHANGED <<t, live>>
    BY <1>3 DEF AllocOut
  <2>2. Shapes' /\ Owners' /\ MemoryIsLive'
    BY <1>1, <2>1, TensorsKept DEF AllocInv, MemoryIsLive
  <2>3. HandOver(Native(ep), dst)'
    BY <1>1, <1>3 DEF HandOver, Mechanism, Native
  <2>4. Progress' /\ Releasing' /\ Edges'
    BY <1>1, <1>2, <2>1, <2>3 DEF AllocInv, Progress, Releasing, Edges, Has
  <2> QED BY <2>2, <2>4 DEF AllocInv
<1>4. CASE ~HandOver(Native(ep), dst)
  <2>1. PICK ok \in BOOLEAN : Alloc("out", Native(ep), ok) /\ Then(ok, "gen")
    BY <1>4 DEF AllocOut
  <2>2. Native(ep) \in Domains
    BY DEF Native, Domains
  <2>3. Shapes' /\ Owners' /\ MemoryIsLive' /\ Has("dst")' /\ (ok => Has("out")')
    BY <1>1, <1>2, <2>1, <2>2, AllocStep
  <2>4. pc' = IF ok THEN "gen" ELSE "out"
    BY <2>1 DEF Then
  <2>5. Progress' /\ Releasing' /\ Edges'
    BY <1>1, <2>3, <2>4 DEF AllocInv, Progress, Releasing, Edges
  <2> QED BY <2>3, <2>5 DEF AllocInv
<1> QED BY <1>3, <1>4

\* The cell, and with it whether the output is handed over, does not change in a cell.
LEMMA SameCell ==
  ASSUME UNCHANGED <<src, ep, dst>>
  PROVE  HandOver(Native(ep), dst)' = HandOver(Native(ep), dst)
BY DEF HandOver, Mechanism, Native

LEMMA GenStep == ASSUME AllocInv, Gen PROVE AllocInv'
<1>1. pc = "gen" /\ UNCHANGED <<src, ep, dst, cells, it, bound, cache, todo>>
  BY DEF Gen, cellVars
<1>2. PICK ok \in BOOLEAN : Alloc("src", src, ok) /\ (Then(ok, "in") \/ pc' = "out")
  BY DEF Gen
<1>3. /\ Has("dst") /\ (HandOver(Native(ep), dst) \/ Has("out"))
      /\ {"src", "dst", "out"} \subseteq Tensors /\ src \in Domains
  BY <1>1 DEF AllocInv, Progress, Edges, Tensors
<1>4. /\ Shapes' /\ Owners' /\ MemoryIsLive' /\ Has("dst")' /\ (Has("out") => Has("out")')
      /\ ok => Has("src")'
  BY <1>1, <1>2, <1>3, AllocStep
<1>5. pc' = "out" \/ (ok /\ pc' = "in")
  BY <1>2 DEF Then
<1>6. Progress' /\ Releasing' /\ Edges'
  BY <1>1, <1>3, <1>4, <1>5, SameCell DEF AllocInv, Progress, Releasing, Edges
<1> QED BY <1>4, <1>6 DEF AllocInv

\* infer_edge.c's import_of: the tensors stay, what was alive stays.
LEMMA ImportKeeps ==
  ASSUME AllocInv, NEW x \in Tensors, Has(x), NEW ok \in BOOLEAN, ImportOf(x, ok), UNCHANGED <<t, bound>>
  PROVE  /\ Shapes' /\ Owners' /\ MemoryIsLive'
         /\ cache' \subseteq Tensors
<1>1. cache' \subseteq cache \cup {x} /\ live \subseteq live'
  BY DEF ImportOf
<1>2. Shapes' /\ Owners' /\ \A y \in Tensors : t'[y].mem \subseteq live'
  BY <1>1, TensorsKept
<1>3. \A y \in bound' \cup cache' : t'[y].mem # {}
  BY <1>1 DEF AllocInv, MemoryIsLive, Has
<1> QED BY <1>1, <1>2, <1>3 DEF MemoryIsLive, AllocInv, Releasing

\* The edge into the engine: a view of src, or a tensor of the engine's own.
LEMMA InEdgeStep == ASSUME AllocInv, InEdge PROVE AllocInv'
<1>1. pc = "in" /\ UNCHANGED <<src, ep, dst, cells, it, bound, todo>>
  BY DEF InEdge, cellVars
<1>2. /\ Has("src") /\ Has("dst") /\ (HandOver(Native(ep), dst) \/ Has("out"))
      /\ "in" \in Tensors /\ "src" \in Tensors /\ "dst" \in Tensors /\ "out" \in Tensors
      /\ src \in Domains /\ ep \in {"cpu", "webgpu"}
      /\ Native(ep) \in {"cpu", "wgpu"} /\ Native(ep) \in Domains
      /\ Mechanism(src, Native(ep)) # "none"
  BY <1>1 DEF AllocInv, Progress, Edges, Tensors, Native, Domains
<1>3. Mechanism(src, Native(ep)) \in {"identity", "mmap", "readback", "write_buffer", "dmabuf_import"}
  BY <1>2 DEF Mechanism, Domains
<1>4. /\ Mechanism(src, Native(ep)) = "dmabuf_import" => Native(ep) = "wgpu"
      /\ Mechanism(src, Native(ep)) = "identity" => src = Native(ep)
  BY <1>2 DEF Mechanism, Domains
<1>5. /\ UNCHANGED cache /\ Shapes' /\ Owners' /\ MemoryIsLive'
      /\ Has("src")' /\ Has("dst")' /\ (Has("out") => Has("out")')
      /\ pc' = "out" \/ (pc' \in {"import", "view"} /\ Has("in")')
  <2>1. CASE Mechanism(src, Native(ep)) = "dmabuf_import"
    <3>1. PICK ok \in BOOLEAN : Alloc("in", "wgpu", ok) /\ Then(ok, "import") /\ UNCHANGED cache
      BY <2>1 DEF InEdge
    <3>2. /\ Shapes' /\ Owners' /\ MemoryIsLive' /\ (ok => Has("in")')
          /\ Has("src")' /\ Has("dst")' /\ (Has("out") => Has("out")')
      BY <1>1, <1>2, <1>4, <2>1, <3>1, AllocStep
    <3>3. pc' = IF ok THEN "import" ELSE "out"
      BY <3>1 DEF Then
    <3> QED BY <3>1, <3>2, <3>3
  <2>2. CASE Mechanism(src, Native(ep)) # "dmabuf_import"
    <3>1. PICK ok \in BOOLEAN : Apply("src", "in", src, Native(ep), ok) /\ Then(ok, "view")
      BY <2>2 DEF InEdge
    <3>2. pc' = IF ok THEN "view" ELSE "out"
      BY <3>1 DEF Then
    <3>3. CASE Mechanism(src, Native(ep)) \in {"readback", "write_buffer"}
      <4>1. UNCHANGED cache /\ \E good \in BOOLEAN : Alloc("in", Native(ep), good) /\ (ok => good)
        BY <3>1, <3>3 DEF Apply
      <4>2. PICK good \in BOOLEAN : Alloc("in", Native(ep), good) /\ (ok => good)
        BY <4>1
      <4>3. /\ Shapes' /\ Owners' /\ MemoryIsLive' /\ (good => Has("in")')
            /\ Has("src")' /\ Has("dst")' /\ (Has("out") => Has("out")')
        BY <1>1, <1>2, <4>1, <4>2, AllocStep
      <4> QED BY <3>2, <4>1, <4>2, <4>3
    <3>4. CASE Mechanism(src, Native(ep)) \in {"identity", "mmap"}
      <4>1. /\ UNCHANGED <<live, cache>>
            /\ \/ UNCHANGED t /\ ~ok
               \/ \E dom : t' = [t EXCEPT !["in"] = View("src", "in", dom)]
        <5>1. /\ UNCHANGED <<live, cache>>
              /\ t' = IF ok THEN [t EXCEPT !["in"] = View("src", "in",
                              IF Mechanism(src, Native(ep)) = "mmap" THEN "cpu" ELSE src)] ELSE t
          BY <3>1, <3>4, Zenon DEF Apply
        <5> QED BY <5>1
      <4>2. CASE UNCHANGED t /\ ~ok
        <5>1. Shapes' /\ Owners' /\ MemoryIsLive'
          BY <1>1, <4>1, <4>2, TensorsKept DEF AllocInv, MemoryIsLive
        <5> QED BY <1>2, <3>2, <4>1, <4>2, <5>1 DEF Has
      <4>3. CASE \E dom : t' = [t EXCEPT !["in"] = View("src", "in", dom)]
        <5>1. PICK dom : t' = [t EXCEPT !["in"] = View("src", "in", dom)]
          BY <4>3
        <5>0. Shapes /\ Owners /\ MemoryIsLive /\ Has("src") /\ UNCHANGED live
          BY <1>2, <4>1 DEF AllocInv
        <5>2. /\ Shapes' /\ Owners' /\ \A z \in Tensors : t'[z].mem \subseteq live'
              /\ t'["in"].mem # {} /\ \A z \in Tensors : z # "in" => t'[z] = t[z]
          BY <5>0, <5>1, ViewKeeps, Zenon
        <5>3. MemoryIsLive'
          <6>1. \A z \in Tensors : Has(z) => t'[z].mem # {}
            BY <5>2 DEF Has
          <6> QED BY <1>1, <4>1, <5>2, <6>1, HoldersKept
        <5> QED BY <1>2, <3>2, <4>1, <5>2, <5>3 DEF Has
      <4> QED BY <4>1, <4>2, <4>3
    <3> QED BY <1>3, <2>2, <3>3, <3>4
  <2> QED BY <2>1, <2>2
<1>6. Progress' /\ Releasing' /\ Edges'
  BY <1>1, <1>2, <1>5, SameCell DEF AllocInv, Progress, Releasing, Edges
<1> QED BY <1>5, <1>6 DEF AllocInv

LEMMA InImportStep == ASSUME AllocInv, InImport PROVE AllocInv'
<1>1. pc = "import" /\ UNCHANGED <<src, ep, dst, cells, it, t, bound, todo>>
  BY DEF InImport, cellVars
<1>2. PICK ok \in BOOLEAN : ImportOf("src", ok) /\ (Then(ok, "view") \/ pc' = "out")
  BY DEF InImport
<1>3. Has("src") /\ "src" \in Tensors /\ pc' \in {"view", "out"}
  BY <1>1, <1>2 DEF AllocInv, Progress, Tensors, Then
<1>4. Shapes' /\ Owners' /\ MemoryIsLive' /\ cache' \subseteq Tensors
  BY <1>1, <1>2, <1>3, ImportKeeps
<1>5. Progress' /\ Releasing' /\ Edges'
  BY <1>1, <1>3, <1>4, SameCell DEF AllocInv, Progress, Releasing, Edges, Has
<1> QED BY <1>4, <1>5 DEF AllocInv

\* The hand-over output: out views dst.
LEMMA OutViewStep == ASSUME AllocInv, OutView PROVE AllocInv'
<1>1. pc = "view" /\ UNCHANGED <<src, ep, dst, cells, it, bound, todo>>
  BY DEF OutView, cellVars
<1>2. /\ Has("src") /\ Has("dst") /\ Has("in") /\ (HandOver(Native(ep), dst) \/ Has("out"))
      /\ "in" \in Tensors /\ "src" \in Tensors /\ "dst" \in Tensors /\ "out" \in Tensors
  BY <1>1 DEF AllocInv, Progress, Tensors
<1>3. /\ UNCHANGED cache /\ Shapes' /\ Owners' /\ MemoryIsLive'
      /\ Has("src")' /\ Has("dst")' /\ Has("in")'
      /\ pc' = "out" \/ (pc' = "run" /\ Has("out")')
  <2>1. CASE ~HandOver(Native(ep), dst)
    <3>1. pc' = "run" /\ UNCHANGED <<t, live, cache>>
      BY <2>1 DEF OutView
    <3>2. Shapes' /\ Owners' /\ MemoryIsLive'
      BY <1>1, <3>1, TensorsKept DEF AllocInv, MemoryIsLive
    <3> QED BY <1>2, <2>1, <3>1, <3>2 DEF Has
  <2>2. CASE HandOver(Native(ep), dst)
    <3>1. PICK ok \in BOOLEAN : Apply("dst", "out", Native(ep), dst, ok) /\ Then(ok, "run")
      BY <2>2 DEF OutView
    <3>2. pc' = IF ok THEN "run" ELSE "out"
      BY <3>1 DEF Then
    <3>3. /\ UNCHANGED <<live, cache>>
          /\ t' = IF ok THEN [t EXCEPT !["out"] = View("dst", "out",
                          IF Mechanism(Native(ep), dst) = "mmap" THEN "cpu" ELSE Native(ep))] ELSE t
      BY <2>2, <3>1, Zenon DEF Apply, HandOver
    <3>4. CASE ~ok
      <4>1. UNCHANGED t
        BY <3>3, <3>4
      <4>2. Shapes' /\ Owners' /\ MemoryIsLive'
        BY <1>1, <3>3, <4>1, TensorsKept DEF AllocInv, MemoryIsLive
      <4> QED BY <1>2, <3>2, <3>3, <3>4, <4>1, <4>2 DEF Has
    <3>5. CASE ok
      <4>1. PICK dom : t' = [t EXCEPT !["out"] = View("dst", "out", dom)]
        BY <3>3, <3>5
      <4>0. Shapes /\ Owners /\ MemoryIsLive /\ Has("dst") /\ UNCHANGED live
        BY <1>2, <3>3 DEF AllocInv
      <4>2. /\ Shapes' /\ Owners' /\ \A z \in Tensors : t'[z].mem \subseteq live'
            /\ t'["out"].mem # {} /\ \A z \in Tensors : z # "out" => t'[z] = t[z]
        BY <4>0, <4>1, ViewKeeps, Zenon
      <4>3. MemoryIsLive'
        <5>1. \A z \in Tensors : Has(z) => t'[z].mem # {}
          BY <4>2 DEF Has
        <5> QED BY <1>1, <3>3, <4>2, <5>1, HoldersKept
      <4> QED BY <1>2, <3>2, <3>3, <3>5, <4>2, <4>3 DEF Has
    <3> QED BY <3>4, <3>5
  <2> QED BY <2>1, <2>2
<1>4. Progress' /\ Releasing' /\ Edges'
  BY <1>1, <1>3, SameCell DEF AllocInv, Progress, Releasing, Edges
<1> QED BY <1>3, <1>4 DEF AllocInv

\* What the engine binds is there.
LEMMA RunStep == ASSUME AllocInv, Run PROVE AllocInv'
<1>1. pc = "run" /\ UNCHANGED <<src, ep, dst, t, cache, todo, live>>
  BY DEF Run, ctxVars, cellVars
<1>2. pc' \in {"copy", "out"} /\ bound' \subseteq bound \cup {"in", "out"}
  BY DEF Run
<1>3. /\ Has("src") /\ Has("dst") /\ Has("in") /\ Has("out")
      /\ {"in", "out"} \subseteq Tensors
  BY <1>1 DEF AllocInv, Progress, Tensors
<1>4. Shapes' /\ Owners' /\ \A x \in Tensors : t'[x].mem \subseteq live'
  BY <1>1, TensorsKept
<1>5. \A x \in bound' \cup cache' : t'[x].mem # {}
  BY <1>1, <1>2, <1>3 DEF AllocInv, MemoryIsLive, Has
<1>6. MemoryIsLive'
  BY <1>4, <1>5 DEF MemoryIsLive
<1>7. Progress' /\ Releasing' /\ Edges'
  BY <1>1, <1>2, <1>3, SameCell DEF AllocInv, Progress, Releasing, Edges, Has
<1> QED BY <1>4, <1>6, <1>7 DEF AllocInv

\* The edge out of the engine: nothing, or a copy that may import dst.
LEMMA OutCopyStep == ASSUME AllocInv, OutCopy PROVE AllocInv'
<1>1. pc = "copy" /\ UNCHANGED <<src, ep, dst, cells, it, bound, todo>>
  BY DEF OutCopy, cellVars
<1>2. /\ Has("src") /\ Has("dst") /\ Has("in") /\ Has("out")
      /\ "in" \in Tensors /\ "src" \in Tensors /\ "dst" \in Tensors /\ "out" \in Tensors
      /\ dst \in Domains /\ Native(ep) \in {"cpu", "wgpu"} /\ Mechanism(Native(ep), dst) # "none"
  BY <1>1 DEF AllocInv, Progress, Edges, Tensors, Native
<1>3. Mechanism(Native(ep), dst) \in
        {"identity", "mmap", "readback", "write_buffer", "upload", "dmabuf_write"}
  BY <1>2 DEF Mechanism, Domains
<1>4. pc' \in {"wait", "out"}
  BY DEF OutCopy, Then
<1>5. /\ Shapes' /\ Owners' /\ MemoryIsLive' /\ cache' \subseteq Tensors
      /\ \A x \in Tensors : Has(x) => Has(x)'
  <2>1. CASE UNCHANGED <<t, live, cache>>
    <3>1. Shapes' /\ Owners' /\ MemoryIsLive'
      BY <1>1, <2>1, TensorsKept DEF AllocInv, MemoryIsLive
    <3> QED BY <2>1, <3>1 DEF Has, AllocInv, Releasing
  <2>2. CASE HandOver(Native(ep), dst)
    BY <2>1, <2>2 DEF OutCopy
  <2>3. CASE ~HandOver(Native(ep), dst)
    <3>1. PICK ok \in BOOLEAN : Apply("out", "dst", Native(ep), dst, ok)
      BY <2>3 DEF OutCopy
    <3>2. CASE Mechanism(Native(ep), dst) \in {"readback", "write_buffer"}
      <4>1. UNCHANGED cache /\ \E good \in BOOLEAN : Alloc("dst", dst, good)
        BY <3>1, <3>2 DEF Apply
      <4>2. PICK good \in BOOLEAN : Alloc("dst", dst, good)
        BY <4>1
      <4>3. /\ Shapes' /\ Owners' /\ MemoryIsLive'
            /\ \A x \in Tensors : Has(x) => Has(x)'
        BY <1>1, <1>2, <4>1, <4>2, AllocStep
      <4> QED BY <4>1, <4>3 DEF AllocInv, Releasing
    <3>3. CASE Mechanism(Native(ep), dst) = "upload"
      BY <2>1, <3>1, <3>3 DEF Apply
    <3>4. CASE Mechanism(Native(ep), dst) = "dmabuf_write"
      <4>1. UNCHANGED t /\ \E good \in BOOLEAN : ImportOf("dst", good)
        BY <3>1, <3>4 DEF Apply
      <4>2. PICK good \in BOOLEAN : ImportOf("dst", good)
        BY <4>1
      <4> QED BY <1>1, <1>2, <4>1, <4>2, ImportKeeps DEF Has
    <3> QED BY <1>3, <2>3, <3>2, <3>3, <3>4 DEF HandOver
  <2> QED BY <2>2, <2>3
<1>6. Progress' /\ Releasing' /\ Edges'
  BY <1>1, <1>2, <1>4, <1>5, SameCell DEF AllocInv, Progress, Releasing, Edges
<1> QED BY <1>5, <1>6 DEF AllocInv

LEMMA EndIterationStep == ASSUME AllocInv, EndIteration PROVE AllocInv'
<1>1. pc = "wait" /\ pc' \in {"gen", "out"} /\ UNCHANGED <<src, ep, dst, t, bound, cache, todo, live>>
  BY DEF EndIteration, ctxVars
<1>2. Shapes' /\ Owners' /\ MemoryIsLive'
  BY <1>1, TensorsKept DEF AllocInv, MemoryIsLive
<1>3. Progress' /\ Releasing' /\ Edges'
  BY <1>1, SameCell DEF AllocInv, Progress, Releasing, Edges, Has
<1> QED BY <1>2, <1>3 DEF AllocInv

\* The imports that go are nobody's memory.
LEMMA DestroyEngineStep == ASSUME AllocInv, DestroyEngine PROVE AllocInv'
<1>1. /\ pc = "out" /\ pc' = "release" /\ todo' = <<"out", "dst", "in", "src">>
      /\ bound' = {} /\ cache' = {} /\ UNCHANGED <<t, src, ep, dst>>
      /\ live' = live \ {Import(x) : x \in cache}
  BY DEF DestroyEngine, ReleaseOrder, cellVars
<1>2. Shapes' /\ Owners'
  BY <1>1 DEF AllocInv, Shapes, Owners, Belongs, Shaped
<1>3. MemoryIsLive'
  <2>1. ASSUME NEW x \in Tensors, NEW o \in t[x].mem PROVE o \in live'
    <3>1. o \in live /\ o[4] # "import"
      BY <2>1 DEF AllocInv, MemoryIsLive, Owners
    <3>2. \A y \in cache : Import(y)[4] = "import"
      BY DEF Import
    <3> QED BY <1>1, <3>1, <3>2
  <2> QED BY <1>1, <2>1 DEF MemoryIsLive
<1>4. Progress' /\ Releasing' /\ Edges'
  BY <1>1 DEF Progress, Releasing, Edges
<1> QED BY <1>2, <1>3, <1>4 DEF AllocInv

\* What a tensor owns goes with it, and no view of it is left.
LEMMA ReleaseStep == ASSUME AllocInv, Release PROVE AllocInv'
<1>1. /\ pc = "release" /\ UNCHANGED <<bound, cache>>
      /\ live' = live \ Frees(Head(todo)) /\ todo' = Tail(todo)
      /\ t' = [t EXCEPT ![Head(todo)] = NoTensor]
      /\ pc' = IF Tail(todo) = <<>> THEN "idle" ELSE "release"
  BY DEF Release
<1>2. PICK x \in Tensors : x = Head(todo)
  BY <1>1 DEF AllocInv, Releasing, Tensors
<1>3. Shaped(NoTensor) /\ NoTensor.mem = {}
  BY DEF Shaped, Fields, NoTensor
<1>4. /\ Shapes' /\ Owners' /\ t'[x] = NoTensor
      /\ \A y \in Tensors : y # x => t'[y] = t[y]
  BY <1>1, <1>2, <1>3, Replaced DEF AllocInv
<1>5. /\ x = "dst" => ~Has("out")
      /\ x = "src" => ~Has("in")
      /\ bound = {} /\ cache = {}
  BY <1>1, <1>2 DEF AllocInv, Releasing
<1>6. MemoryIsLive'
  <2>1. ASSUME NEW y \in Tensors, NEW o \in t'[y].mem PROVE o \in live'
    <3>1. y # x /\ o \in t[y].mem /\ o \in live /\ Belongs(o, y)
      BY <1>3, <1>4, <2>1 DEF AllocInv, MemoryIsLive, Owners
    <3>2. ASSUME o \in Frees(x) PROVE FALSE
      <4>1. o \in t[x].mem /\ t[x].owned
        BY <3>2 DEF Frees
      <4>2. o[3] = x
        BY <4>1 DEF AllocInv, Owners, Belongs
      <4> QED BY <1>5, <3>1, <4>2 DEF Belongs, Has
    <3> QED BY <1>1, <1>2, <3>1, <3>2
  <2> QED BY <1>1, <1>5, <2>1 DEF MemoryIsLive
<1>7. Releasing'
  <2>1. \A y \in Tensors : ~Has(y) => ~Has(y)'
    BY <1>3, <1>4 DEF Has
  <2>2. ~Has(x)'
    BY <1>3, <1>4 DEF Has
  <2>3. todo \in {<<"out", "dst", "in", "src">>, <<"dst", "in", "src">>, <<"in", "src">>, <<"src">>}
    BY <1>1 DEF AllocInv, Releasing
  <2>4. "out" \in Tensors /\ "in" \in Tensors
    BY DEF Tensors
  <2>5. CASE todo = <<"out", "dst", "in", "src">>
    BY <1>1, <1>2, <1>5, <2>2, <2>5 DEF Releasing
  <2>6. CASE todo = <<"dst", "in", "src">>
    BY <1>1, <1>2, <1>5, <2>1, <2>4, <2>6 DEF AllocInv, Releasing
  <2>7. CASE todo = <<"in", "src">>
    BY <1>1, <1>2, <1>5, <2>1, <2>2, <2>4, <2>7 DEF AllocInv, Releasing
  <2>8. CASE todo = <<"src">>
    BY <1>1, <1>2, <1>5, <2>8 DEF Releasing
  <2> QED BY <2>3, <2>5, <2>6, <2>7, <2>8
<1>8. Progress' /\ Edges'
  BY <1>1 DEF Progress, Edges
<1> QED BY <1>4, <1>6, <1>7, <1>8 DEF AllocInv

\* A stutter.
LEMMA AllocStutter == ASSUME AllocInv, UNCHANGED vars PROVE AllocInv'
<1>1. UNCHANGED <<src, ep, dst, pc, t, bound, cache, todo, live>>
  BY DEF vars, ctxVars, cellVars
<1>2. Shapes' /\ Owners' /\ MemoryIsLive'
  BY <1>1, TensorsKept DEF AllocInv, MemoryIsLive
<1>3. Progress' /\ Releasing' /\ Edges'
  BY <1>1, SameCell DEF AllocInv, Progress, Releasing, Edges, Has
<1> QED BY <1>2, <1>3 DEF AllocInv

\* Every step keeps the invariant.
LEMMA AllocInvStep == AllocInv /\ [Next]_vars => AllocInv'
  BY StartStep, AllocDstStep, AllocOutStep, GenStep, InEdgeStep, InImportStep, OutViewStep, RunStep,
     OutCopyStep, EndIterationStep, DestroyEngineStep, ReleaseStep, AllocStutter
  DEF Next, Ended

\* hello_inference.c, run_cell and its out: every tensor, every view, the engine and the
\* imports hold on to memory that exists, whatever fails and however many cells are run.
THEOREM MemoryIsLiveAlways == Spec => []MemoryIsLive
<1>1. AllocInv => MemoryIsLive
  BY DEF AllocInv
<1> QED BY AllocInit, AllocInvStep, <1>1, PTL DEF Spec

------------------------------------------------------------------------------
(* Nothing is left *)

\* A cell is under way and nothing of it has been released.
InCell == pc \notin {"idle", "release"}

\* What has been released is blank.
Cleared ==
  /\ pc = "idle" => \A x \in Tensors : t[x] = NoTensor
  /\ pc = "release" =>
       /\ todo # ReleaseOrder => t["out"] = NoTensor
       /\ todo \in {<<"in", "src">>, <<"src">>} => t["dst"] = NoTensor
       /\ todo = <<"src">> => t["in"] = NoTensor

\* A view takes the place of no tensor that owns something.
ViewsOnly ==
  InCell => /\ HandOver(src, Native(ep)) => ~t["in"].owned
            /\ HandOver(Native(ep), dst) => ~t["out"].owned

\* The descriptor of every tensor that opened one is the tensor's, and its release closes it.
Descriptors ==
  /\ fds \in [0 .. MaxFd -> {"none", "stdin"} \cup Tensors]
  /\ \A f \in 0 .. MaxFd :
       /\ fds[f] = "stdin" => f = 0
       /\ \A x \in Tensors : fds[f] = x =>
            t[x].owned /\ t[x].fd = f /\ Has(x) /\ t[x].dom \in {"gl", "vk", "dmabuf"}

\* A Vulkan tensor without memory has its image and alias only.
ImagesOnly ==
  \A x \in Tensors :
    t[x].owned /\ t[x].dom = "vk" /\ (\A o \in t[x].mem : Kind(o) # "memory") =>
      \A o \in t[x].mem : Kind(o) \in {"image", "alias"}

\* The memory and the descriptor set of the allocation that made o.
Twin(o) == [o EXCEPT ![4] = "memory"]
SetOf(o) == [o EXCEPT ![4] = "set"]

\* A cell makes one descriptor set for a tensor, and an image that has a set has its memory.
Sets ==
  /\ OneSet
  /\ \A o \in live : Kind(o) \in {"image", "alias"} /\ SetOf(o) \in live => Twin(o) \in live

\* Whose an object is: a tensor's, the import cache's, or nobody's any more.
Named(o) == o = <<o[1], o[2], o[3], o[4]>> /\ o[1] \in 0 .. cells
Kept(o) == Kind(o) # "import" /\ o[3] \in Tensors /\ t[o[3]].owned /\ o \in t[o[3]].mem
Imported(o) == \E x \in cache : o = Import(x)
Lost(o) ==
  /\ Kind(o) = "set" \/ (Kind(o) \in {"image", "alias"} /\ Twin(o) \notin live)
  /\ InCell => o[1] < cells

Accounted == cells \in Nat /\ Sets /\ \A o \in live : Named(o) /\ (Kept(o) \/ Imported(o) \/ Lost(o))

LeftInv == Cleared /\ ViewsOnly /\ Descriptors /\ ImagesOnly /\ Accounted

\* Nothing is made and nothing goes.
LEMMA SetsSame == ASSUME Sets, live' = live PROVE Sets'
BY DEF Sets, OneSet, Kind, SetOf, Twin

\* What an allocation says of the descriptor and of an image without memory.
LEMMA AllocsLeave ==
  ASSUME NEW x, NEW d \in Domains, NEW l \in Allocs(x, d)
  PROVE  /\ l.fd = "own" => d \in {"gl", "vk", "dmabuf"} /\ l.has # {}
         /\ d = "vk" /\ "memory" \notin l.has => l.has \subseteq {"image", "alias"}
         /\ "set" \in l.has => "memory" \in l.has
<1>1. CASE d = "cpu"
  BY <1>1 DEF Allocs, CpuAlloc, Left
<1>2. CASE d = "wgpu"
  BY <1>2 DEF Allocs, WgpuAlloc, GenObjects, Left
<1>3. CASE d = "dmabuf"
  BY <1>3 DEF Allocs, DmabufAlloc, Left
<1>4. CASE d = "gl"
  BY <1>4 DEF Allocs, GlAlloc, Left
<1>5. CASE d = "vk"
  <2>1. \A i \in VkImage : i.has \subseteq {"image", "alias"} /\ i.fd = "none"
    BY DEF VkImage, Left
  <2>2. \A w \in VkWriters : w.has \ {"view"} \subseteq {"alias"}
    BY DEF VkWriters
  <2>3. "memory" \in VkRest
    BY DEF VkRest
  <2>4. l = Left(FALSE, {}, "none") \/ (l \in VkImage /\ ~l.ok) \/ VkLeft(l)
    BY <1>5, VkOutcome
  <2>5. CASE l = Left(FALSE, {}, "none")
    BY <1>5, <2>5 DEF Left
  <2>6. CASE l \in VkImage /\ ~l.ok
    BY <1>5, <2>1, <2>6
  <2>7. ASSUME NEW i \in VkImage, NEW w \in VkWriters,
               \/ l = Left(FALSE, i.has, "none")
               \/ l = Left(FALSE, i.has \cup (w.has \ {"view"}), "none")
               \/ l = Left(TRUE, i.has \cup w.has \cup VkRest, "own")
        PROVE  /\ l.fd = "own" => d \in {"gl", "vk", "dmabuf"} /\ l.has # {}
               /\ d = "vk" /\ "memory" \notin l.has => l.has \subseteq {"image", "alias"}
               /\ "set" \in l.has => "memory" \in l.has
    BY <1>5, <2>1, <2>2, <2>3, <2>7 DEF Left
  <2> QED BY <2>4, <2>5, <2>6, <2>7 DEF VkLeft
<1> QED BY <1>1, <1>2, <1>3, <1>4, <1>5 DEF Domains

\* There is a descriptor for a tensor that has none: the other three have one each at most.
LEMMA LowestFree ==
  ASSUME Shapes, Descriptors, NEW x \in Tensors, ~Has(x)
  PROVE  Lowest \in 0 .. MaxFd /\ fds[Lowest] = "none"
<1> DEFINE Free(f) == fds[f] = "none"
           IsLowest(f) == Free(f) /\ \A g \in 0 .. f - 1 : ~Free(g)
<1>1. MaxFd \in Nat /\ 4 <= MaxFd
  BY AllocAssumption
<1>2. \A f \in 0 .. 4 : f \in 0 .. MaxFd
  BY <1>1
<1>3. \E f \in 0 .. 4 : Free(f)
  <2>1. SUFFICES ASSUME \A f \in 0 .. 4 : ~Free(f) PROVE FALSE
    OBVIOUS
  <2>2. \A f \in 1 .. 4 : fds[f] \in Tensors \ {x}
    BY <1>2, <2>1 DEF Descriptors
  <2>3. \A f, g \in 1 .. 4 : fds[f] = fds[g] => f = g
    BY <1>2, <2>2 DEF Descriptors
  <2>4. PICK a, b, c, e : a = fds[1] /\ b = fds[2] /\ c = fds[3] /\ e = fds[4]
    OBVIOUS
  <2>5. /\ a \in Tensors \ {x} /\ b \in Tensors \ {x} /\ c \in Tensors \ {x} /\ e \in Tensors \ {x}
        /\ a # b /\ a # c /\ a # e /\ b # c /\ b # e /\ c # e
    BY <2>2, <2>3, <2>4
  <2> QED BY <2>5 DEF Tensors
<1>4. \E f \in 0 .. MaxFd : IsLowest(f)
  <2>1. CASE Free(0)
    BY <1>2, <2>1
  <2>2. CASE ~Free(0) /\ Free(1)
    BY <1>2, <2>2
  <2>3. CASE ~Free(0) /\ ~Free(1) /\ Free(2)
    BY <1>2, <2>3
  <2>4. CASE ~Free(0) /\ ~Free(1) /\ ~Free(2) /\ Free(3)
    BY <1>2, <2>4
  <2>5. CASE ~Free(0) /\ ~Free(1) /\ ~Free(2) /\ ~Free(3)
    <3>1. Free(4)
      BY <1>3, <2>5
    <3> QED BY <1>2, <2>5, <3>1
  <2> QED BY <2>1, <2>2, <2>3, <2>4, <2>5
<1>5. Lowest = CHOOSE f \in 0 .. MaxFd : IsLowest(f)
  BY DEF Lowest
<1> HIDE DEF IsLowest
<1>6. Lowest \in 0 .. MaxFd /\ IsLowest(Lowest)
  BY <1>4, <1>5, Zenon
<1> QED BY <1>6 DEF IsLowest

------------------------------------------------------------------------------
(* Steps inside a cell *)

\* An object made now carries this cell and its tensor.
LEMMA OwnObjects ==
  ASSUME NEW x, NEW kinds, NEW o \in Objects(x, kinds)
  PROVE  o = <<cells, it, x, o[4]>> /\ o[1] = cells /\ o[3] = x /\ Kind(o) \in kinds
<1>1. PICK k \in kinds : o = <<cells, it, x, k>>
  BY DEF Objects
<1> QED BY <1>1 DEF Kind

\* infer_tensor_alloc: what it makes is the tensor's.
LEMMA AllocLeaves ==
  ASSUME AllocInv, LeftInv, InCell, InCell', NEW x \in Tensors, NEW d \in Domains,
         NEW ok \in BOOLEAN, Alloc(x, d, ok), UNCHANGED <<cells, it, cache>>
  PROVE  /\ Descriptors' /\ ImagesOnly' /\ Accounted'
         /\ \A y \in Tensors : y # x => t'[y] = t[y]
<1>0. Shapes /\ Owners /\ MemoryIsLive
  BY DEF AllocInv
<1>1. \A y \in Tensors : (Has(y) => t'[y] = t[y]) /\ (y # x => t'[y] = t[y])
  BY <1>0, AllocKeeps
<1>2. CASE ~Fresh(x)
  <2>1. UNCHANGED <<t, live, fds>>
    BY <1>2 DEF Alloc
  <2>2. Descriptors' /\ ImagesOnly'
    BY <2>1 DEF LeftInv, Descriptors, ImagesOnly, Has, Kind
  <2>3. \A o : Named(o)' = Named(o) /\ Kept(o)' = Kept(o) /\ Imported(o)' = Imported(o) /\ Lost(o)' = Lost(o)
    BY <2>1 DEF Named, Kept, Imported, Lost, Twin, Kind, Import
  <2>4. Accounted'
    BY <2>1, <2>3, SetsSame DEF LeftInv, Accounted
  <2> QED BY <2>1, <2>2, <2>4
<1>3. CASE Fresh(x)
  <2>1. PICK l, mod, accepts :
          l \in Allocs(x, d) /\ Take(x, l) /\ t' = [t EXCEPT ![x] = Allocated(x, d, l, mod, accepts)]
    BY <1>3, Zenon DEF Alloc
  <2>2. /\ l.fd = "own" => d \in {"gl", "vk", "dmabuf"} /\ l.has # {}
        /\ d = "vk" /\ "memory" \notin l.has => l.has \subseteq {"image", "alias"}
        /\ "import" \notin l.has
        /\ "set" \in l.has => "memory" \in l.has
    BY <2>1, AllocsLeave, AllocsSound
  <2>3. /\ live' = live \cup Objects(x, l.has)
        /\ fds' = IF l.fd = "own" THEN [fds EXCEPT ![Lowest] = x] ELSE fds
    BY <2>1 DEF Take
  <2>4. ~Has(x) /\ t[x].mem = {}
    BY <1>3 DEF Fresh, Has
  <2>5. PICK r : r = Allocated(x, d, l, mod, accepts)
    OBVIOUS
  <2>6. t'[x] = r
    BY <1>0, <2>1, <2>5 DEF Shapes
  <2>7. \/ r = t[x] /\ l.has = {} /\ l.fd # "own"
        \/ r.owned /\ r.dom = d /\ r.mem = Objects(x, l.has) /\ (l.fd = "own" => r.fd = Lowest)
    <3>1. CASE d = "dmabuf" /\ ~l.ok
      <4>1. l.has = {} /\ l.fd # "own"
        BY <2>1, <3>1 DEF Allocs, DmabufAlloc, Left
      <4> QED BY <2>5, <3>1, <4>1 DEF Allocated
    <3>2. CASE ~(d = "dmabuf" /\ ~l.ok)
      <4>1. r = [dom |-> d, owned |-> TRUE, mem |-> Objects(x, l.has),
                 fd |-> CASE l.fd = "own" -> Lowest [] l.fd = "zero" -> 0 [] l.fd = "none" -> -1,
                 mod |-> mod, accepts |-> accepts]
        BY <2>5, <3>2, Zenon DEF Allocated
      <4> QED BY <4>1
    <3> QED BY <3>1, <3>2
  <2>8. Descriptors'
    <3>1. CASE l.fd = "own"
      <4>1. Lowest \in 0 .. MaxFd /\ fds[Lowest] = "none"
        BY <1>0, <2>4, LowestFree DEF LeftInv
      <4>2. r.owned /\ r.dom = d /\ r.mem # {} /\ r.fd = Lowest
        BY <2>2, <2>7, <3>1, ObjectsOf
      <4>3. PICK at : at = Lowest
        OBVIOUS
      <4>4. fds' = [fds EXCEPT ![at] = x] /\ at \in 0 .. MaxFd
        BY <2>3, <3>1, <4>1, <4>3
      <4>5. fds' \in [0 .. MaxFd -> {"none", "stdin"} \cup Tensors]
        BY <4>4 DEF LeftInv, Descriptors
      <4>6. ASSUME NEW f \in 0 .. MaxFd
            PROVE  /\ fds'[f] = "stdin" => f = 0
                   /\ \A y \in Tensors : fds'[f] = y =>
                        t'[y].owned /\ t'[y].fd = f /\ Has(y)' /\ t'[y].dom \in {"gl", "vk", "dmabuf"}
        <5>1. CASE f = at
          <6>1. fds'[f] = x
            BY <4>4, <5>1 DEF LeftInv, Descriptors
          <6> QED BY <2>2, <2>6, <3>1, <4>2, <4>3, <5>1, <6>1 DEF Has, Tensors
        <5>2. CASE f # at
          <6>1. fds'[f] = fds[f]
            BY <4>4, <5>2 DEF LeftInv, Descriptors
          <6> QED BY <1>1, <6>1 DEF LeftInv, Descriptors, Has
        <5> QED BY <5>1, <5>2
      <4> QED BY <4>5, <4>6 DEF Descriptors
    <3>2. CASE l.fd # "own"
      <4>1. fds' = fds
        BY <2>3, <3>2
      <4> QED BY <1>1, <4>1 DEF LeftInv, Descriptors, Has
    <3> QED BY <3>1, <3>2
  <2>9. ImagesOnly'
    <3>1. ASSUME NEW y \in Tensors, t'[y].owned /\ t'[y].dom = "vk",
                 \A o \in t'[y].mem : Kind(o) # "memory"
          PROVE  \A o \in t'[y].mem : Kind(o) \in {"image", "alias"}
      <4>1. CASE t'[y] = t[y]
        BY <3>1, <4>1 DEF LeftInv, ImagesOnly
      <4>2. CASE t'[y] # t[y]
        <5>1. y = x /\ d = "vk" /\ t'[y].mem = Objects(x, l.has)
          BY <1>1, <2>6, <2>7, <3>1, <4>2
        <5>2. ASSUME "memory" \in l.has PROVE FALSE
          <6>1. <<cells, it, x, "memory">> \in Objects(x, l.has)
            BY <5>2 DEF Objects
          <6> QED BY <3>1, <5>1, <6>1 DEF Kind
        <5> QED BY <2>2, <5>1, <5>2, OwnObjects
      <4> QED BY <4>1, <4>2
    <3> QED BY <3>1 DEF ImagesOnly
  <2>10. Accounted'
    <3>1. ASSUME NEW o \in live' PROVE Named(o)' /\ (Kept(o)' \/ Imported(o)' \/ Lost(o)')
      <4>1. CASE o \in Objects(x, l.has)
        <5>1. o = <<cells, it, x, o[4]>> /\ o[1] = cells /\ o[3] = x /\ Kind(o) \in l.has
          BY <4>1, OwnObjects
        <5>2. t'[x].owned /\ t'[x].mem = Objects(x, l.has)
          BY <2>6, <2>7, <4>1 DEF Objects
        <5>3. Named(o)'
          BY <5>1 DEF Named, LeftInv, Accounted
        <5>4. Kept(o)'
          BY <2>2, <4>1, <5>1, <5>2 DEF Kept, Kind
        <5> QED BY <5>3, <5>4
      <4>2. CASE o \in live
        <5>1. Named(o)'
          BY <4>2 DEF Named, LeftInv, Accounted
        <5>2. CASE Kept(o)
          <6>1. Has(o[3]) /\ o[3] \in Tensors
            BY <5>2 DEF Kept, Has
          <6> QED BY <1>1, <5>1, <5>2, <6>1 DEF Kept, Kind
        <5>3. CASE Imported(o)
          BY <5>1, <5>3 DEF Imported, Import
        <5>4. CASE Lost(o)
          <6>1. o[1] < cells /\ o[1] \in 0 .. cells /\ cells \in Nat
            BY <4>2, <5>4 DEF Lost, LeftInv, Accounted, Named
          <6>2. Twin(o)[1] = o[1]
            BY <4>2 DEF Twin, LeftInv, Accounted, Named
          <6>3. Twin(o) \notin Objects(x, l.has)
            BY <6>1, <6>2, OwnObjects
          <6> QED BY <2>3, <5>1, <5>4, <6>1, <6>3 DEF Lost, Twin, Kind
        <5> QED BY <4>2, <5>2, <5>3, <5>4 DEF LeftInv, Accounted
      <4> QED BY <2>3, <3>1, <4>1, <4>2
    \* What there is already of this cell is other tensors'.
    <3>2. ASSUME NEW o \in live, o[1] = cells, o[3] = x, Kind(o) # "import" PROVE FALSE
      <4>1. cells \in Nat /\ ~Kept(o) /\ ~Lost(o)
        BY <2>4, <3>2 DEF Kept, Lost, LeftInv, Accounted
      <4>2. ~Imported(o)
        BY <3>2 DEF Imported, Import, Kind
      <4> QED BY <4>1, <4>2 DEF LeftInv, Accounted
    <3>3. OneSet'
      <4>1. ASSUME NEW o \in live', NEW p \in live', Kind(o) = "set", Kind(p) = "set", o[1] = p[1], o[3] = p[3]
            PROVE  o = p
        <5>1. CASE o \in live /\ p \in live
          BY <4>1, <5>1 DEF LeftInv, Accounted, Sets, OneSet
        <5>2. CASE o \in Objects(x, l.has) /\ p \in Objects(x, l.has)
          BY <4>1, <5>2, OwnObjects DEF Kind
        <5>3. CASE o \in Objects(x, l.has) /\ p \in live
          <6>1. o[1] = cells /\ o[3] = x
            BY <5>3, OwnObjects
          <6> QED BY <3>2, <4>1, <5>3, <6>1
        <5>4. CASE o \in live /\ p \in Objects(x, l.has)
          <6>1. p[1] = cells /\ p[3] = x
            BY <5>4, OwnObjects
          <6> QED BY <3>2, <4>1, <5>4, <6>1
        <5> QED BY <2>3, <5>1, <5>2, <5>3, <5>4
      <4> QED BY <4>1 DEF OneSet, Kind
    <3>4. ASSUME NEW o \in live', Kind(o) \in {"image", "alias"}, SetOf(o) \in live' PROVE Twin(o) \in live'
      <4>1. o = <<o[1], o[2], o[3], o[4]>>
        BY <3>1 DEF Named
      <4>2. /\ SetOf(o)[1] = o[1] /\ SetOf(o)[3] = o[3] /\ Kind(SetOf(o)) = "set"
            /\ SetOf(o) = <<o[1], o[2], o[3], "set">> /\ Twin(o) = <<o[1], o[2], o[3], "memory">>
        BY <4>1 DEF SetOf, Twin, Kind
      <4>3. CASE o \in live /\ SetOf(o) \in live
        BY <2>3, <3>4, <4>3 DEF LeftInv, Accounted, Sets
      <4>4. CASE SetOf(o) \in Objects(x, l.has)
        <5>1. /\ SetOf(o) = <<cells, it, x, SetOf(o)[4]>> /\ SetOf(o)[1] = cells /\ SetOf(o)[3] = x
              /\ "set" \in l.has
          BY <4>2, <4>4, OwnObjects
        <5>2. Twin(o) = <<cells, it, x, "memory">>
          BY <4>2, <5>1
        <5> QED BY <2>2, <2>3, <5>1, <5>2 DEF Objects
      <4>5. CASE o \in Objects(x, l.has) /\ SetOf(o) \in live
        <5>1. o[1] = cells /\ o[3] = x
          BY <4>5, OwnObjects
        <5> QED BY <3>2, <4>2, <4>5, <5>1
      <4> QED BY <2>3, <3>4, <4>3, <4>4, <4>5
    <3>5. Sets'
      BY <3>3, <3>4 DEF Sets, Kind, SetOf, Twin
    <3> QED BY <3>1, <3>5 DEF LeftInv, Accounted
  <2> QED BY <1>1, <2>8, <2>9, <2>10
<1> QED BY <1>2, <1>3

\* alias and dmabuf_view: a view owns nothing, and displaces nothing that does.
LEMMA ViewLeaves ==
  ASSUME AllocInv, LeftInv, InCell, InCell', NEW x \in Tensors, NEW y \in Tensors, NEW dom,
         ~t[y].owned, t' = [t EXCEPT ![y] = View(x, y, dom)], UNCHANGED <<cells, cache, live, fds>>
  PROVE  /\ Descriptors' /\ ImagesOnly' /\ Accounted'
         /\ ~t'[y].owned /\ \A z \in Tensors : z # y => t'[z] = t[z]
<1>1. t'[y] = View(x, y, dom) /\ \A z \in Tensors : z # y => t'[z] = t[z]
  BY DEF AllocInv, Shapes
<1>2. Shaped(t[x])
  BY DEF AllocInv, Shapes
<1>3. ~t'[y].owned
  BY <1>1, <1>2 DEF View, Shaped, Fields
<1>4. Descriptors'
  BY <1>1 DEF LeftInv, Descriptors, Has
<1>5. ImagesOnly'
  BY <1>1, <1>3 DEF LeftInv, ImagesOnly, Kind
<1>6. \A o : Kept(o) => Kept(o)'
  BY <1>1 DEF Kept, Kind
<1>7. \A o : Named(o)' = Named(o) /\ Imported(o)' = Imported(o) /\ Lost(o)' = Lost(o)
  BY DEF Named, Imported, Lost, Twin, Kind, Import
<1>8. Accounted'
  BY <1>6, <1>7, SetsSame DEF LeftInv, Accounted
<1> QED BY <1>1, <1>3, <1>4, <1>5, <1>8

\* import_of: an import is the cache's.
LEMMA ImportLeaves ==
  ASSUME AllocInv, LeftInv, InCell, InCell', NEW x \in Tensors, NEW ok \in BOOLEAN, ImportOf(x, ok),
         UNCHANGED <<t, cells, fds>>
  PROVE  Descriptors' /\ ImagesOnly' /\ Accounted'
<1>1. Descriptors' /\ ImagesOnly'
  BY DEF LeftInv, Descriptors, ImagesOnly, Has, Kind
<1>2. \/ UNCHANGED <<cache, live>>
      \/ cache' = cache \cup {x} /\ live' = live \cup {Import(x)}
  BY DEF ImportOf
<1>3. \A o : Named(o)' = Named(o) /\ Kept(o)' = Kept(o)
  BY DEF Named, Kept, Kind
<1>4. CASE UNCHANGED <<cache, live>>
  <2>1. \A o : Imported(o)' = Imported(o) /\ Lost(o)' = Lost(o)
    BY <1>4 DEF Imported, Lost, Twin, Kind, Import
  <2> QED BY <1>1, <1>3, <1>4, <2>1, SetsSame DEF LeftInv, Accounted
<1>5. CASE cache' = cache \cup {x} /\ live' = live \cup {Import(x)}
  <2>1. \A o : Imported(o) => Imported(o)'
    BY <1>5 DEF Imported, Import
  <2>2. Named(Import(x))' /\ Imported(Import(x))'
    BY <1>5 DEF Named, Imported, Import, LeftInv, Accounted
  <2>3. ASSUME NEW o \in live, Lost(o) PROVE Lost(o)'
    <3>1. Twin(o)[4] = "memory"
      BY DEF LeftInv, Accounted, Named, Twin
    <3>2. Twin(o) # Import(x)
      BY <3>1 DEF Import
    <3> QED BY <1>5, <2>3, <3>2 DEF Lost, Twin, Kind
  <2>4. ASSUME NEW o \in live' PROVE Named(o)' /\ (Kept(o)' \/ Imported(o)' \/ Lost(o)')
    <3>1. CASE o \in live
      BY <1>3, <2>1, <2>3, <3>1 DEF LeftInv, Accounted
    <3>2. CASE o = Import(x)
      BY <1>5, <3>2 DEF Named, Imported, Import, LeftInv, Accounted
    <3> QED BY <1>5, <2>4, <3>1, <3>2
  \* An import is neither a set nor an image.
  <2>5. Sets'
    <3>1. Kind(Import(x)) = "import" /\ \A o \in live : Kind(SetOf(o)) = "set"
      BY DEF Kind, Import, SetOf, LeftInv, Accounted, Named
    <3>2. OneSet'
      BY <1>5, <3>1 DEF LeftInv, Accounted, Sets, OneSet, Kind
    <3>3. ASSUME NEW o \in live', Kind(o) \in {"image", "alias"}, SetOf(o) \in live' PROVE Twin(o) \in live'
      <4>1. o \in live
        BY <1>5, <3>1, <3>3
      <4>2. SetOf(o) \in live
        BY <1>5, <3>1, <3>3, <4>1
      <4> QED BY <1>5, <3>3, <4>1, <4>2 DEF LeftInv, Accounted, Sets
    <3> QED BY <3>2, <3>3 DEF Sets, Kind, SetOf, Twin
  <2>6. Accounted'
    BY <2>4, <2>5 DEF LeftInv, Accounted
  <2> QED BY <1>1, <2>6
<1> QED BY <1>2, <1>4, <1>5

\* A step that touches no tensor, object or descriptor, and stays in the cell.
LEMMA NothingMade ==
  ASSUME LeftInv, InCell, InCell', UNCHANGED <<t, live, fds, cache, cells>>
  PROVE  Descriptors' /\ ImagesOnly' /\ Accounted'
<1>1. Descriptors' /\ ImagesOnly'
  BY DEF LeftInv, Descriptors, ImagesOnly, Has, Kind
<1>2. \A o : Named(o)' = Named(o) /\ Kept(o)' = Kept(o) /\ Imported(o)' = Imported(o) /\ Lost(o)' = Lost(o)
  BY DEF Named, Kept, Imported, Lost, Twin, Kind, Import
<1> QED BY <1>1, <1>2, SetsSame DEF LeftInv, Accounted

\* The views of a cell, where neither in nor out becomes an owner.
LEMMA StaysViews ==
  ASSUME LeftInv, InCell, UNCHANGED <<src, ep, dst>>,
         HandOver(src, Native(ep)) => t'["in"].owned = t["in"].owned \/ ~t'["in"].owned,
         HandOver(Native(ep), dst) => t'["out"].owned = t["out"].owned \/ ~t'["out"].owned
  PROVE  ViewsOnly'
<1>1. /\ HandOver(src, Native(ep))' = HandOver(src, Native(ep))
      /\ HandOver(Native(ep), dst)' = HandOver(Native(ep), dst)
  BY DEF HandOver, Mechanism, Native
<1> QED BY <1>1 DEF LeftInv, ViewsOnly

\* Nothing has been released inside a cell.
LEMMA NotCleared == ASSUME InCell' PROVE Cleared'
BY DEF InCell, Cleared

\* The cell's actions, one by one: what they allocate is accounted for.
LEMMA AllocDstLeaves == ASSUME AllocInv, LeftInv, AllocDst PROVE LeftInv'
<1>1. PICK ok \in BOOLEAN : Alloc("dst", dst, ok) /\ Then(ok, "engine_out")
  BY DEF AllocDst
<1>2. pc = "dst" /\ UNCHANGED <<src, ep, dst, cells, it, cache>> /\ InCell
  BY DEF AllocDst, cellVars, InCell
<1>3. InCell' /\ dst \in Domains /\ "dst" \in Tensors /\ "in" \in Tensors /\ "out" \in Tensors
  BY <1>1, <1>2 DEF Then, InCell, AllocInv, Edges, Tensors
<1>4. Descriptors' /\ ImagesOnly' /\ Accounted' /\ t'["in"] = t["in"] /\ t'["out"] = t["out"]
  BY <1>1, <1>2, <1>3, AllocLeaves
<1> QED BY <1>2, <1>3, <1>4, StaysViews, NotCleared DEF LeftInv

\* The engine's output: allocated where it is not handed over.
LEMMA AllocOutLeaves == ASSUME AllocInv, LeftInv, AllocOut PROVE LeftInv'
<1>1. pc = "engine_out" /\ UNCHANGED <<src, ep, dst, cells, it, cache>> /\ InCell
  BY DEF AllocOut, cellVars, InCell
<1>2. InCell' /\ Native(ep) \in Domains /\ "in" \in Tensors /\ "out" \in Tensors
  BY <1>1 DEF AllocOut, Then, InCell, Native, Domains, Tensors
<1>3. CASE HandOver(Native(ep), dst)
  <2>1. UNCHANGED <<t, live, fds>>
    BY <1>3 DEF AllocOut
  <2> QED BY <1>1, <1>2, <2>1, NothingMade, StaysViews, NotCleared DEF LeftInv
<1>4. CASE ~HandOver(Native(ep), dst)
  <2>1. PICK ok \in BOOLEAN : Alloc("out", Native(ep), ok)
    BY <1>4 DEF AllocOut
  <2>2. Descriptors' /\ ImagesOnly' /\ Accounted' /\ t'["in"] = t["in"]
    BY <1>1, <1>2, <2>1, AllocLeaves
  <2> QED BY <1>1, <1>2, <1>4, <2>2, StaysViews, NotCleared DEF LeftInv
<1> QED BY <1>3, <1>4

\* The producer's tensor.
LEMMA GenLeaves == ASSUME AllocInv, LeftInv, Gen PROVE LeftInv'
<1>1. pc = "gen" /\ UNCHANGED <<src, ep, dst, cells, it, cache>> /\ InCell
  BY DEF Gen, cellVars, InCell
<1>2. PICK ok \in BOOLEAN : Alloc("src", src, ok) /\ (Then(ok, "in") \/ pc' = "out")
  BY DEF Gen
<1>3. InCell' /\ src \in Domains /\ "src" \in Tensors /\ "in" \in Tensors /\ "out" \in Tensors
  BY <1>1, <1>2 DEF Then, InCell, AllocInv, Edges, Tensors
<1>4. Descriptors' /\ ImagesOnly' /\ Accounted' /\ t'["in"] = t["in"] /\ t'["out"] = t["out"]
  BY <1>1, <1>2, <1>3, AllocLeaves
<1> QED BY <1>1, <1>3, <1>4, StaysViews, NotCleared DEF LeftInv

\* The edge into the engine: a view, or a tensor of the engine's own.
LEMMA InEdgeLeaves == ASSUME AllocInv, LeftInv, InEdge PROVE LeftInv'
<1>1. pc = "in" /\ UNCHANGED <<src, ep, dst, cells, it>> /\ InCell /\ InCell'
  BY DEF InEdge, cellVars, InCell, Then
<1>2. /\ "in" \in Tensors /\ "out" \in Tensors /\ "src" \in Tensors
      /\ Native(ep) \in {"cpu", "wgpu"} /\ Native(ep) \in Domains /\ "wgpu" \in Domains
      /\ src \in Domains /\ Mechanism(src, Native(ep)) # "none"
  BY <1>1 DEF AllocInv, Edges, Tensors, Native, Domains
<1>3. Mechanism(src, Native(ep)) \in {"identity", "mmap", "readback", "write_buffer", "dmabuf_import"}
  BY <1>2 DEF Mechanism, Domains
<1>4. CASE Mechanism(src, Native(ep)) = "dmabuf_import"
  <2>1. PICK ok \in BOOLEAN : Alloc("in", "wgpu", ok) /\ UNCHANGED cache
    BY <1>4 DEF InEdge
  <2>2. Descriptors' /\ ImagesOnly' /\ Accounted' /\ t'["out"] = t["out"]
    BY <1>1, <1>2, <2>1, AllocLeaves
  <2>3. ~HandOver(src, Native(ep))
    BY <1>4 DEF HandOver
  <2> QED BY <1>1, <2>2, <2>3, StaysViews, NotCleared DEF LeftInv
<1>5. CASE Mechanism(src, Native(ep)) \in {"readback", "write_buffer"}
  <2>1. PICK ok \in BOOLEAN : Apply("src", "in", src, Native(ep), ok)
    BY <1>5 DEF InEdge
  <2>2. UNCHANGED cache /\ \E good \in BOOLEAN : Alloc("in", Native(ep), good)
    BY <1>5, <2>1 DEF Apply
  <2>3. Descriptors' /\ ImagesOnly' /\ Accounted' /\ t'["out"] = t["out"]
    BY <1>1, <1>2, <2>2, AllocLeaves
  <2>4. ~HandOver(src, Native(ep))
    BY <1>5 DEF HandOver
  <2> QED BY <1>1, <2>3, <2>4, StaysViews, NotCleared DEF LeftInv
<1>6. CASE Mechanism(src, Native(ep)) \in {"identity", "mmap"}
  <2>1. PICK ok \in BOOLEAN : Apply("src", "in", src, Native(ep), ok)
    BY <1>6 DEF InEdge
  <2>2. /\ UNCHANGED <<live, cache, fds>>
        /\ t' = IF ok THEN [t EXCEPT !["in"] = View("src", "in",
                        IF Mechanism(src, Native(ep)) = "mmap" THEN "cpu" ELSE src)] ELSE t
    BY <1>6, <2>1, Zenon DEF Apply
  <2>3. ~t["in"].owned
    BY <1>1, <1>6 DEF LeftInv, ViewsOnly, HandOver
  <2>4. CASE ~ok
    <3>1. UNCHANGED t
      BY <2>2, <2>4
    <3> QED BY <1>1, <2>2, <3>1, NothingMade, StaysViews, NotCleared DEF LeftInv
  <2>5. CASE ok
    <3>1. PICK dom : t' = [t EXCEPT !["in"] = View("src", "in", dom)]
      BY <2>2, <2>5
    <3>0. InCell /\ InCell' /\ UNCHANGED <<cells, cache, live, fds>>
      BY <1>1, <2>2
    <3>2. /\ Descriptors' /\ ImagesOnly' /\ Accounted' /\ ~t'["in"].owned
          /\ \A z \in Tensors : z # "in" => t'[z] = t[z]
      BY <1>2, <2>3, <3>0, <3>1, ViewLeaves, Zenon
    <3>3. t'["out"] = t["out"]
      BY <1>2, <3>2
    <3> QED BY <1>1, <3>2, <3>3, StaysViews, NotCleared DEF LeftInv
  <2> QED BY <2>4, <2>5
<1> QED BY <1>3, <1>4, <1>5, <1>6

\* The import of the producer's dma-buf.
LEMMA InImportLeaves == ASSUME AllocInv, LeftInv, InImport PROVE LeftInv'
<1>1. pc = "import" /\ UNCHANGED <<src, ep, dst, cells, it, t, fds>> /\ InCell /\ InCell' /\ "src" \in Tensors
  BY DEF InImport, cellVars, InCell, Then, Tensors
<1>2. PICK ok \in BOOLEAN : ImportOf("src", ok)
  BY DEF InImport
<1> QED BY <1>1, <1>2, ImportLeaves, StaysViews, NotCleared DEF LeftInv

\* The hand-over output.
LEMMA OutViewLeaves == ASSUME AllocInv, LeftInv, OutView PROVE LeftInv'
<1>1. pc = "view" /\ UNCHANGED <<src, ep, dst, cells, it>> /\ InCell /\ InCell'
  BY DEF OutView, cellVars, InCell, Then
<1>2. "in" \in Tensors /\ "out" \in Tensors /\ "dst" \in Tensors
  BY DEF Tensors
<1>3. CASE ~HandOver(Native(ep), dst)
  <2>1. UNCHANGED <<t, live, fds, cache>>
    BY <1>3 DEF OutView
  <2> QED BY <1>1, <2>1, NothingMade, StaysViews, NotCleared DEF LeftInv
<1>4. CASE HandOver(Native(ep), dst)
  <2>1. PICK ok \in BOOLEAN : Apply("dst", "out", Native(ep), dst, ok)
    BY <1>4 DEF OutView
  <2>2. /\ UNCHANGED <<live, cache, fds>>
        /\ t' = IF ok THEN [t EXCEPT !["out"] = View("dst", "out",
                        IF Mechanism(Native(ep), dst) = "mmap" THEN "cpu" ELSE Native(ep))] ELSE t
    BY <1>4, <2>1, Zenon DEF Apply, HandOver
  <2>3. ~t["out"].owned
    BY <1>1, <1>4 DEF LeftInv, ViewsOnly
  <2>4. CASE ~ok
    <3>1. UNCHANGED t
      BY <2>2, <2>4
    <3> QED BY <1>1, <2>2, <3>1, NothingMade, StaysViews, NotCleared DEF LeftInv
  <2>5. CASE ok
    <3>1. PICK dom : t' = [t EXCEPT !["out"] = View("dst", "out", dom)]
      BY <2>2, <2>5
    <3>0. InCell /\ InCell' /\ UNCHANGED <<cells, cache, live, fds>>
      BY <1>1, <2>2
    <3>2. /\ Descriptors' /\ ImagesOnly' /\ Accounted' /\ ~t'["out"].owned
          /\ \A z \in Tensors : z # "out" => t'[z] = t[z]
      BY <1>2, <2>3, <3>0, <3>1, ViewLeaves, Zenon
    <3>3. t'["in"] = t["in"]
      BY <1>2, <3>2
    <3> QED BY <1>1, <3>2, <3>3, StaysViews, NotCleared DEF LeftInv
  <2> QED BY <2>4, <2>5
<1> QED BY <1>3, <1>4

\* The engine binds and runs.
LEMMA RunLeaves == ASSUME AllocInv, LeftInv, Run PROVE LeftInv'
<1>1. InCell /\ InCell' /\ UNCHANGED <<src, ep, dst, cells, t, cache, live, fds>>
  BY DEF Run, ctxVars, cellVars, InCell
<1> QED BY <1>1, NothingMade, StaysViews, NotCleared DEF LeftInv

\* dst has its memory, so that an edge that would allocate it does not.
LEMMA OutCopyLeaves == ASSUME AllocInv, LeftInv, OutCopy PROVE LeftInv'
<1>1. pc = "copy" /\ UNCHANGED <<src, ep, dst, cells, it>> /\ InCell /\ InCell'
  BY DEF OutCopy, cellVars, InCell, Then
<1>2. /\ "in" \in Tensors /\ "out" \in Tensors /\ "dst" \in Tensors
      /\ dst \in Domains /\ Native(ep) \in {"cpu", "wgpu"} /\ Mechanism(Native(ep), dst) # "none"
  BY <1>1 DEF AllocInv, Edges, Tensors, Native
<1>3. Mechanism(Native(ep), dst) \in
        {"identity", "mmap", "readback", "write_buffer", "upload", "dmabuf_write"}
  BY <1>2 DEF Mechanism, Domains
<1>4. Descriptors' /\ ImagesOnly' /\ Accounted' /\ t'["in"] = t["in"] /\ t'["out"] = t["out"]
  <2>1. CASE UNCHANGED <<t, live, fds, cache>>
    BY <1>1, <2>1, NothingMade
  <2>2. CASE HandOver(Native(ep), dst)
    BY <2>1, <2>2 DEF OutCopy
  <2>3. CASE ~HandOver(Native(ep), dst)
    <3>1. PICK ok \in BOOLEAN : Apply("out", "dst", Native(ep), dst, ok)
      BY <2>3 DEF OutCopy
    <3>2. CASE Mechanism(Native(ep), dst) \in {"readback", "write_buffer"}
      <4>1. UNCHANGED cache /\ \E good \in BOOLEAN : Alloc("dst", dst, good)
        BY <3>1, <3>2 DEF Apply
      <4> QED BY <1>1, <1>2, <4>1, AllocLeaves
    <3>3. CASE Mechanism(Native(ep), dst) = "upload"
      BY <2>1, <3>1, <3>3 DEF Apply
    <3>4. CASE Mechanism(Native(ep), dst) = "dmabuf_write"
      <4>1. UNCHANGED <<t, fds>> /\ \E good \in BOOLEAN : ImportOf("dst", good)
        BY <3>1, <3>4 DEF Apply
      <4> QED BY <1>1, <1>2, <4>1, ImportLeaves
    <3> QED BY <1>3, <2>3, <3>2, <3>3, <3>4 DEF HandOver
  <2> QED BY <2>2, <2>3
<1> QED BY <1>1, <1>4, StaysViews, NotCleared DEF LeftInv

\* The next iteration, or the end.
LEMMA EndIterationLeaves == ASSUME AllocInv, LeftInv, EndIteration PROVE LeftInv'
<1>1. InCell /\ InCell' /\ UNCHANGED <<src, ep, dst, cells, t, cache, live, fds>>
  BY DEF EndIteration, ctxVars, InCell
<1> QED BY <1>1, NothingMade, StaysViews, NotCleared DEF LeftInv

------------------------------------------------------------------------------
(* Steps between cells *)

\* Before the first cell.
LEMMA LeftInit == Init => LeftInv
<1> SUFFICES ASSUME Init PROVE LeftInv
  OBVIOUS
<1>1. /\ pc = "idle" /\ t = [x \in Tensors |-> NoTensor] /\ live = {} /\ cells = 0
      /\ fds = [f \in 0 .. MaxFd |-> IF f = 0 THEN "stdin" ELSE "none"]
  BY DEF Init
<1>2. Cleared /\ ViewsOnly
  BY <1>1 DEF Cleared, ViewsOnly, InCell
<1>3. Descriptors
  BY <1>1 DEF Descriptors, Tensors
<1>4. ImagesOnly /\ Accounted
  BY <1>1 DEF ImagesOnly, Accounted, Sets, OneSet, NoTensor
<1> QED BY <1>2, <1>3, <1>4 DEF LeftInv

\* A new cell starts from blank tensors: what is there is nobody's, and older.
LEMMA StartLeaves == ASSUME AllocInv, LeftInv, RunReference \/ RunCell PROVE LeftInv'
<1>1. PICK from \in Domains, engine \in {"cpu", "webgpu"}, to \in Domains : StartCell(from, engine, to)
  BY DEF RunReference, RunCell, Domains
<1>2. pc = "idle" /\ cells' = cells + 1 /\ UNCHANGED <<t, cache, live, fds>> /\ pc' \in {"dst", "idle"}
  BY <1>1 DEF StartCell
<1>3. ~InCell /\ cache = {} /\ \A x \in Tensors : t[x] = NoTensor /\ ~t[x].owned
  <2>1. ~InCell /\ cache = {}
    BY <1>2 DEF InCell, AllocInv, Releasing
  <2>2. \A x \in Tensors : t[x] = NoTensor
    BY <1>2 DEF LeftInv, Cleared
  <2>3. ~NoTensor.owned
    BY DEF NoTensor
  <2> QED BY <2>1, <2>2, <2>3
<1>4. Cleared'
  BY <1>2, <1>3 DEF Cleared
<1>5. ViewsOnly'
  BY <1>2, <1>3 DEF ViewsOnly, Tensors
<1>6. Descriptors' /\ ImagesOnly'
  BY <1>2 DEF LeftInv, Descriptors, ImagesOnly, Has, Kind
<1>7. ASSUME NEW o \in live PROVE Named(o)' /\ Lost(o)'
  <2>1. Named(o) /\ Lost(o)
    BY <1>3 DEF LeftInv, Accounted, Kept, Imported
  <2>2. o[1] < cells' /\ Named(o)'
    BY <1>2, <2>1 DEF Named, LeftInv, Accounted
  <2> QED BY <1>2, <2>1, <2>2 DEF Lost, Twin, Kind
<1>8. Accounted'
  BY <1>2, <1>7, SetsSame DEF LeftInv, Accounted
<1> QED BY <1>4, <1>5, <1>6, <1>8 DEF LeftInv

\* The imports go with their cache.
LEMMA DestroyEngineLeaves == ASSUME AllocInv, LeftInv, DestroyEngine PROVE LeftInv'
<1>1. /\ pc' = "release" /\ todo' = ReleaseOrder /\ UNCHANGED <<t, fds, cells>>
      /\ live' = live \ {Import(x) : x \in cache}
  BY DEF DestroyEngine, cellVars
<1>2. Cleared' /\ ViewsOnly'
  BY <1>1 DEF Cleared, ViewsOnly, InCell, ReleaseOrder
<1>3. Descriptors' /\ ImagesOnly'
  BY <1>1 DEF LeftInv, Descriptors, ImagesOnly, Has, Kind
<1>4. ASSUME NEW o \in live' PROVE Named(o)' /\ (Kept(o)' \/ Lost(o)')
  <2>1. Named(o) /\ o \in live /\ ~Imported(o)
    BY <1>1 DEF LeftInv, Accounted, Imported
  <2>2. Named(o)' /\ Kept(o)' = Kept(o) /\ ~InCell'
    BY <1>1, <2>1 DEF Named, Kept, Kind, InCell
  <2>3. Lost(o) => Lost(o)'
    BY <1>1, <2>2 DEF Lost, Twin, Kind
  <2> QED BY <2>1, <2>2, <2>3 DEF LeftInv, Accounted
<1>5. Sets'
  <2>1. OneSet'
    BY <1>1 DEF LeftInv, Accounted, Sets, OneSet, Kind
  <2>2. ASSUME NEW o \in live', Kind(o) \in {"image", "alias"}, SetOf(o) \in live' PROVE Twin(o) \in live'
    <3>1. Twin(o) \in live /\ Kind(Twin(o)) = "memory"
      BY <1>1, <2>2 DEF LeftInv, Accounted, Sets, Named, Twin, Kind
    <3> QED BY <1>1, <3>1 DEF Import, Kind
  <2> QED BY <2>1, <2>2 DEF Sets, Kind, SetOf, Twin
<1>6. Accounted'
  BY <1>1, <1>4, <1>5 DEF LeftInv, Accounted
<1> QED BY <1>2, <1>3, <1>6 DEF LeftInv

\* infer_tensor_release: what a tensor owns goes with it, except the image without memory,
\* whose twin can never be made, and the descriptor set, whose handle is gone by then.
LEMMA ReleaseLeaves == ASSUME AllocInv, LeftInv, Release PROVE LeftInv'
<1>1. /\ pc = "release" /\ UNCHANGED <<bound, cache, cells>>
      /\ live' = live \ Frees(Head(todo)) /\ todo' = Tail(todo)
      /\ fds' = [f \in DOMAIN fds |-> IF f \in Closes(Head(todo)) THEN "none" ELSE fds[f]]
      /\ t' = [t EXCEPT ![Head(todo)] = NoTensor]
      /\ pc' = IF Tail(todo) = <<>> THEN "idle" ELSE "release"
  BY DEF Release
<1>2. todo \in {<<"out", "dst", "in", "src">>, <<"dst", "in", "src">>, <<"in", "src">>, <<"src">>}
  BY <1>1 DEF AllocInv, Releasing
<1>3. PICK x \in Tensors : x = Head(todo)
  BY <1>2 DEF Tensors
<1>4. t'[x] = NoTensor /\ \A y \in Tensors : y # x => t'[y] = t[y]
  BY <1>1, <1>3 DEF AllocInv, Shapes
<1>5. ~InCell'
  BY <1>1 DEF InCell
<1>6. Cleared'
  <2>1. "out" \in Tensors /\ "dst" \in Tensors /\ "in" \in Tensors /\ "src" \in Tensors
    BY DEF Tensors
  <2>2. CASE todo = <<"out", "dst", "in", "src">>
    BY <1>1, <1>3, <1>4, <2>2 DEF Cleared
  <2>3. CASE todo = <<"dst", "in", "src">>
    BY <1>1, <1>3, <1>4, <2>1, <2>3 DEF Cleared, LeftInv, ReleaseOrder
  <2>4. CASE todo = <<"in", "src">>
    BY <1>1, <1>3, <1>4, <2>1, <2>4 DEF Cleared, LeftInv, ReleaseOrder
  <2>5. CASE todo = <<"src">>
    <3>1. t["out"] = NoTensor /\ t["dst"] = NoTensor /\ t["in"] = NoTensor
      BY <1>1, <2>5 DEF Cleared, LeftInv, ReleaseOrder
    <3> QED BY <1>1, <1>3, <1>4, <2>5, <3>1 DEF Cleared, Tensors
  <2> QED BY <1>2, <2>2, <2>3, <2>4, <2>5
<1>7. Descriptors'
  <2>1. fds \in [0 .. MaxFd -> {"none", "stdin"} \cup Tensors]
    BY DEF LeftInv, Descriptors
  <2>2. fds' = [f \in 0 .. MaxFd |-> IF f \in Closes(x) THEN "none" ELSE fds[f]]
    BY <1>1, <1>3, <2>1
  <2>3. fds' \in [0 .. MaxFd -> {"none", "stdin"} \cup Tensors]
    BY <2>1, <2>2
  <2>4. ASSUME NEW f \in 0 .. MaxFd
        PROVE  /\ fds'[f] = "stdin" => f = 0
               /\ \A y \in Tensors : fds'[f] = y =>
                    t'[y].owned /\ t'[y].fd = f /\ Has(y)' /\ t'[y].dom \in {"gl", "vk", "dmabuf"}
    <3>1. CASE f \in Closes(x)
      BY <2>2, <3>1 DEF Tensors
    <3>2. CASE f \notin Closes(x)
      <4>1. fds'[f] = fds[f]
        BY <2>2, <3>2
      <4>2. ASSUME fds[f] = x PROVE FALSE
        <5>1. t[x].owned /\ t[x].fd = f /\ t[x].dom \in {"gl", "vk", "dmabuf"}
          BY <4>2 DEF LeftInv, Descriptors
        <5> QED BY <3>2, <5>1 DEF Closes
      <4> QED BY <1>4, <4>1, <4>2 DEF LeftInv, Descriptors, Has
    <3> QED BY <3>1, <3>2
  <2> QED BY <2>3, <2>4 DEF Descriptors
<1>8. ImagesOnly'
  BY <1>4 DEF LeftInv, ImagesOnly, Kind, NoTensor
<1>9. ASSUME NEW o \in live' PROVE Named(o)' /\ (Kept(o)' \/ Imported(o)' \/ Lost(o)')
  <2>1. Named(o) /\ o \in live
    BY <1>1 DEF LeftInv, Accounted
  <2>2. Named(o)' /\ Imported(o)' = Imported(o)
    BY <1>1, <2>1 DEF Named, Imported, Import
  <2>3. Lost(o) => Lost(o)'
    BY <1>1, <1>5 DEF Lost, Twin, Kind
  <2>4. CASE Kept(o) /\ o[3] # x
    BY <1>4, <2>2, <2>4 DEF Kept, Kind
  <2>5. CASE Kept(o) /\ o[3] = x
    <3>1. o \in t[x].mem /\ t[x].owned /\ o \notin Frees(x)
      BY <1>1, <1>3, <2>5 DEF Kept
    <3>2. Kind(o) = "set" \/ (t[x].dom = "vk" /\ \A p \in t[x].mem : Kind(p) # "memory")
      BY <3>1 DEF Frees
    <3> SUFFICES ASSUME Kind(o) # "set" PROVE Lost(o)'
      BY <1>5, <2>2 DEF Lost, Kind
    <3>3. Kind(o) \in {"image", "alias"}
      BY <3>1, <3>2 DEF LeftInv, ImagesOnly
    <3>4. Twin(o)[3] = x /\ Kind(Twin(o)) = "memory"
      BY <2>1, <2>5 DEF Twin, Kind, Named
    <3>5. ASSUME Twin(o) \in live PROVE FALSE
      <4>1. Kept(Twin(o)) \/ Imported(Twin(o)) \/ Lost(Twin(o))
        BY <3>5 DEF LeftInv, Accounted
      <4>2. ~Imported(Twin(o)) /\ ~Lost(Twin(o))
        BY <3>4 DEF Imported, Import, Kind, Lost
      <4> QED BY <3>2, <3>4, <4>1, <4>2 DEF Kept
    <3> QED BY <1>1, <1>5, <2>2, <3>3, <3>5 DEF Lost, Twin, Kind
  <2> QED BY <2>1, <2>2, <2>3, <2>4, <2>5 DEF LeftInv, Accounted
\* Memory goes together with its image.
<1>10. Sets'
  <2>1. OneSet'
    BY <1>1 DEF LeftInv, Accounted, Sets, OneSet, Kind
  <2>2. ASSUME NEW o \in live', Kind(o) \in {"image", "alias"}, SetOf(o) \in live' PROVE Twin(o) \in live'
    <3>1. o \in live /\ Twin(o) \in live /\ Named(o)
      BY <1>1, <2>2 DEF LeftInv, Accounted, Sets
    <3>2. Kept(o)
      BY <2>2, <3>1 DEF LeftInv, Accounted, Lost, Imported, Import, Kind
    <3>3. ASSUME Twin(o) \in Frees(x) PROVE FALSE
      <4>1. Twin(o) \in t[x].mem /\ t[x].owned /\ Twin(o)[3] = o[3]
        BY <3>1, <3>3 DEF Frees, Twin, Named
      <4>2. o[3] = x
        BY <4>1 DEF AllocInv, Owners, Belongs
      <4>3. o \in Frees(x)
        BY <2>2, <3>2, <3>3, <4>2 DEF Kept, Frees
      <4> QED BY <1>1, <1>3, <4>3
    <3> QED BY <1>1, <1>3, <3>1, <3>3
  <2> QED BY <2>1, <2>2 DEF Sets, Kind, SetOf, Twin
<1>11. Accounted' /\ ViewsOnly'
  BY <1>1, <1>5, <1>9, <1>10 DEF LeftInv, Accounted, ViewsOnly
<1> QED BY <1>6, <1>7, <1>8, <1>11 DEF LeftInv

\* A stutter.
LEMMA LeftStutter == ASSUME LeftInv, UNCHANGED vars PROVE LeftInv'
<1>1. UNCHANGED <<pc, src, ep, dst, cells, t, cache, todo, live, fds>>
  BY DEF vars, ctxVars, cellVars
<1>2. Cleared' /\ Descriptors' /\ ImagesOnly'
  BY <1>1 DEF LeftInv, Cleared, Descriptors, ImagesOnly, Has, Kind
<1>3. ViewsOnly'
  BY <1>1 DEF LeftInv, ViewsOnly, InCell, HandOver, Mechanism, Native
<1>4. \A o : Named(o)' = Named(o) /\ Kept(o)' = Kept(o) /\ Imported(o)' = Imported(o) /\ Lost(o)' = Lost(o)
  BY <1>1 DEF Named, Kept, Imported, Lost, Twin, Kind, Import, InCell
<1>5. Accounted'
  BY <1>1, <1>4, SetsSame DEF LeftInv, Accounted
<1> QED BY <1>2, <1>3, <1>5 DEF LeftInv

\* Between two cells every tensor is blank and the cache is empty.
LEMMA LeftNothing == ASSUME AllocInv, LeftInv PROVE NothingLeft
<1> SUFFICES ASSUME pc = "idle"
             PROVE  /\ \A o \in live : \/ Kind(o) = "set"
                                       \/ Kind(o) \in {"image", "alias"} /\ SetOf(o) \notin live
                    /\ OneSet
                    /\ \A f \in DOMAIN fds : fds[f] \in {"none", "stdin"}
  BY DEF NothingLeft, SetOf
<1>1. cache = {} /\ \A x \in Tensors : ~t[x].owned
  BY DEF AllocInv, Releasing, LeftInv, Cleared, NoTensor
<1>2. ASSUME NEW o \in live PROVE Lost(o)
  BY <1>1 DEF LeftInv, Accounted, Kept, Imported
<1>3. ASSUME NEW f \in DOMAIN fds PROVE fds[f] \in {"none", "stdin"}
  <2>1. fds \in [0 .. MaxFd -> {"none", "stdin"} \cup Tensors]
    BY DEF LeftInv, Descriptors
  <2>2. f \in 0 .. MaxFd /\ fds[f] \notin Tensors
    BY <1>1, <2>1 DEF LeftInv, Descriptors
  <2> QED BY <2>1, <2>2
<1>4. Sets
  BY DEF LeftInv, Accounted
<1> QED BY <1>2, <1>3, <1>4 DEF Lost, Sets

\* hello_inference.c, run_cell and its out: between two cells, whichever call of the last
\* one failed, no driver object is left but a Vulkan image or alias that never got memory
\* and the descriptor sets that the release loses, one for each Vulkan tensor of a cell;
\* and no descriptor is open but standard input's.
THEOREM NothingLeftAlways == Spec => []NothingLeft
<1>1. Init => AllocInv /\ LeftInv
  BY AllocInit, LeftInit
<1>2. AllocInv /\ LeftInv /\ [Next]_vars => AllocInv' /\ LeftInv'
  <2> SUFFICES ASSUME AllocInv, LeftInv, [Next]_vars PROVE AllocInv' /\ LeftInv'
    OBVIOUS
  <2>1. AllocInv'
    BY AllocInvStep
  <2>2. LeftInv'
    BY StartLeaves, AllocDstLeaves, AllocOutLeaves, GenLeaves, InEdgeLeaves, InImportLeaves,
       OutViewLeaves, RunLeaves, OutCopyLeaves, EndIterationLeaves, DestroyEngineLeaves,
       ReleaseLeaves, LeftStutter
    DEF Next, Ended
  <2> QED BY <2>1, <2>2
<1>3. AllocInv /\ LeftInv => NothingLeft
  BY LeftNothing
<1> QED BY <1>1, <1>2, <1>3, PTL DEF Spec

------------------------------------------------------------------------------
(* negotiate_modifier: the sort, round by round *)

\* Any set of numbers has a least element.
LEMMA LeastOf ==
  ASSUME NEW S, S \subseteq Nat, S # {}
  PROVE  \E n \in S : \A k \in S : n <= k
<1> DEFINE Less == OpToRel(<, Nat)
<1>1. PICK n \in S : \A k \in S : <<k, n>> \notin Less
  BY NatLessThanWellFounded, WFMin
<1>2. ASSUME NEW k \in S PROVE n <= k
  <2>1. <<k, n>> \notin {ss \in Nat \X Nat : ss[1] < ss[2]}
    BY <1>1 DEF OpToRel
  <2> QED BY <2>1
<1> QED BY <1>2

\* One round of the sort, told by positions: m is put behind the last one that it may not
\* overtake.
LEMMA InsertedAt ==
  ASSUME NEW list \in Seq(Layouts), NEW m \in Layouts
  PROVE  \E p \in 0 .. Len(list) :
           /\ \A k \in p + 1 .. Len(list) : Overtakes(m, list[k])
           /\ p = 0 \/ ~Overtakes(m, list[p])
           /\ InsertLayout(list, m) \in Seq(Layouts)
           /\ Len(InsertLayout(list, m)) = Len(list) + 1
           /\ \A i \in 1 .. p : InsertLayout(list, m)[i] = list[i]
           /\ InsertLayout(list, m)[p + 1] = m
           /\ \A i \in p + 2 .. Len(list) + 1 : InsertLayout(list, m)[i] = list[i - 1]
<1> DEFINE Place(j) == /\ \A k \in j + 1 .. Len(list) : Overtakes(m, list[k])
                       /\ j = 0 \/ ~Overtakes(m, list[j])
<1>1. Len(list) \in Nat
  OBVIOUS
<1>2. \E j \in 0 .. Len(list) : Place(j)
  <2> DEFINE S == {j \in 0 .. Len(list) : \A k \in j + 1 .. Len(list) : Overtakes(m, list[k])}
  <2>1. Len(list) \in S
    BY <1>1
  <2>2. PICK j \in S : \A k \in S : j <= k
    <3>1. S \subseteq Nat /\ S # {}
      BY <2>1
    <3> HIDE DEF S
    <3> QED BY <3>1, LeastOf
  <2>3. CASE j # 0 /\ Overtakes(m, list[j])
    <3>1. j - 1 \in 0 .. Len(list)
      BY <2>3
    <3>2. \A k \in (j - 1) + 1 .. Len(list) : k = j \/ k \in j + 1 .. Len(list)
      BY <2>3
    <3>3. \A k \in (j - 1) + 1 .. Len(list) : Overtakes(m, list[k])
      BY <2>3, <3>2
    <3>4. j - 1 \in S
      BY <3>1, <3>3
    <3>5. j <= j - 1 /\ j \in Nat
      <4>1. j \in Nat
        OBVIOUS
      <4> HIDE DEF S
      <4> QED BY <2>2, <3>4, <4>1
    <3> QED BY <3>5
  <2>4. j \in 0 .. Len(list) /\ \A k \in j + 1 .. Len(list) : Overtakes(m, list[k])
    OBVIOUS
  <2> QED BY <2>3, <2>4
<1>3. PICK p \in 0 .. Len(list) : Place(p) /\ InsertLayout(list, m) = InsertAt(list, p + 1, m)
  <2> DEFINE at == CHOOSE j \in 0 .. Len(list) : Place(j)
  <2>1. at \in 0 .. Len(list) /\ Place(at)
    BY <1>2
  <2>2. InsertLayout(list, m) = InsertAt(list, at + 1, m)
    BY DEF InsertLayout
  <2> QED BY <2>1, <2>2
<1> DEFINE new == SubSeq(list, 1, p) \o <<m>> \o SubSeq(list, p + 1, Len(list))
<1>4. InsertLayout(list, m) = new
  <2>1. (p + 1) - 1 = p
    BY <1>1
  <2>2. InsertAt(list, p + 1, m)
          = SubSeq(list, 1, (p + 1) - 1) \o <<m>> \o SubSeq(list, p + 1, Len(list))
    BY DEF InsertAt
  <2> QED BY <1>3, <2>1, <2>2
<1>5. /\ SubSeq(list, 1, p) \in Seq(Layouts) /\ Len(SubSeq(list, 1, p)) = p
      /\ \A i \in 1 .. p : SubSeq(list, 1, p)[i] = list[i]
  BY <1>1
<1>6. /\ SubSeq(list, p + 1, Len(list)) \in Seq(Layouts)
      /\ Len(SubSeq(list, p + 1, Len(list))) = Len(list) - p
      /\ \A i \in 1 .. Len(list) - p : SubSeq(list, p + 1, Len(list))[i] = list[p + i]
  BY <1>1
<1>7. /\ new \in Seq(Layouts) /\ Len(new) = Len(list) + 1
      /\ \A i \in 1 .. p : new[i] = list[i]
      /\ new[p + 1] = m
      /\ \A i \in p + 2 .. Len(list) + 1 : new[i] = list[i - 1]
  <2> DEFINE front == SubSeq(list, 1, p)
             back == SubSeq(list, p + 1, Len(list))
  <2> HIDE DEF front, back
  <2>1. /\ front \in Seq(Layouts) /\ Len(front) = p /\ \A i \in 1 .. p : front[i] = list[i]
        /\ back \in Seq(Layouts) /\ Len(back) = Len(list) - p
        /\ \A i \in 1 .. Len(list) - p : back[i] = list[p + i]
    BY <1>5, <1>6 DEF front, back
  <2>2. \A i \in p + 2 .. Len(list) + 1 : i - (p + 1) \in 1 .. Len(list) - p /\ p + (i - (p + 1)) = i - 1
    BY <1>1
  <2>3. new = front \o <<m>> \o back
    BY DEF front, back
  <2> HIDE DEF new
  <2> DEFINE head == front \o <<m>>
  <2>4. /\ head \in Seq(Layouts) /\ Len(head) = p + 1 /\ head[p + 1] = m
        /\ \A i \in 1 .. p : head[i] = list[i]
    BY <2>1
  <2> HIDE DEF head
  <2>5. new = head \o back
    BY <2>3 DEF head
  <2>6. /\ new \in Seq(Layouts) /\ Len(new) = Len(list) + 1
        /\ \A i \in 1 .. p + 1 : new[i] = head[i]
    <3>1. /\ head \o back \in Seq(Layouts) /\ Len(head \o back) = Len(head) + Len(back)
          /\ \A i \in 1 .. Len(head) : (head \o back)[i] = head[i]
      <4>1. head \in Seq(Layouts) /\ back \in Seq(Layouts)
        BY <2>1, <2>4
      <4>2. Len(head) \in Nat /\ Len(back) \in Nat
        BY <4>1
      <4>3. \A i \in 1 .. Len(head) : i \in 1 .. Len(head) + Len(back) /\ i <= Len(head)
        BY <4>2
      <4> QED BY <4>1, <4>3, ConcatProperties
    <3>2. Len(head) + Len(back) = Len(list) + 1
      BY <1>1, <2>1, <2>4
    <3> QED BY <2>4, <2>5, <3>1, <3>2
  <2>7. ASSUME NEW i \in p + 2 .. Len(list) + 1 PROVE new[i] = list[i - 1]
    <3>1. new[i] = back[i - (p + 1)]
      <4>1. PICK k \in 1 .. Len(list) - p : k = i - (p + 1)
        BY <2>2
      <4>2. (head \o back)[Len(head) + k] = back[k]
        BY <2>1, <2>4
      <4>3. Len(head) + k = i
        BY <2>4, <4>1
      <4> QED BY <2>5, <4>1, <4>2, <4>3
    <3> QED BY <2>1, <2>2, <3>1
  <2> QED BY <1>1, <2>4, <2>6, <2>7
<1> QED BY <1>3, <1>4, <1>7

Entries == [mod : Layouts, external : BOOLEAN]
Nvidia(m) == m[1] = "nv"

\* The list after the first n of EGL's layouts holds those that are shared.
Holds(list, egl, vk, n) ==
  /\ \A i \in DOMAIN list : \E k \in 1 .. n : Shared(egl[k], vk) /\ egl[k].mod = list[i]
  /\ \A k \in 1 .. n : Shared(egl[k], vk) => \E i \in DOMAIN list : list[i] = egl[k].mod

\* What stands before another vendor's layout came before it.
Precedes(list, egl, vk, n) ==
  \A i, j \in DOMAIN list :
    i < j /\ ~Nvidia(list[j]) =>
      \E a, b \in 1 .. n : /\ a < b /\ egl[a].mod = list[i] /\ egl[b].mod = list[j]
                           /\ Shared(egl[b], vk)

\* And what stands behind it came after both.
Separates(list, egl, vk, n) ==
  \A i, j, k \in DOMAIN list :
    i < j /\ j < k /\ ~Nvidia(list[j]) =>
      \E a, b, c \in 1 .. n : /\ a < b /\ b < c /\ Shared(egl[b], vk) /\ egl[a].mod = list[i]
                              /\ egl[b].mod = list[j] /\ egl[c].mod = list[k]

\* NVIDIA's are in order unless such a layout is between them.
Ordered(list) ==
  \A i, k \in DOMAIN list :
    i < k /\ Overtakes(list[k], list[i]) => \E j \in DOMAIN list : i < j /\ j < k /\ ~Nvidia(list[j])

Merged(list, egl, vk, n) ==
  /\ list \in Seq(Layouts) /\ Holds(list, egl, vk, n) /\ Ordered(list)
  /\ Precedes(list, egl, vk, n) /\ Separates(list, egl, vk, n)

\* A layout that is not shared changes nothing.
LEMMA MergedLonger ==
  ASSUME NEW egl, NEW vk, NEW n \in Nat, NEW list, Merged(list, egl, vk, n),
         ~Shared(egl[n + 1], vk)
  PROVE  Merged(list, egl, vk, n + 1)
<1>1. \A k \in 1 .. n : k \in 1 .. n + 1
  OBVIOUS
<1>2. \A k \in 1 .. n + 1 : k = n + 1 \/ k \in 1 .. n
  OBVIOUS
<1>3. \A k \in 1 .. n + 1 : Shared(egl[k], vk) => k \in 1 .. n
  BY <1>2
<1>4. Holds(list, egl, vk, n + 1)
  BY <1>1, <1>3 DEF Merged, Holds
<1>5. ASSUME NEW i \in DOMAIN list, NEW j \in DOMAIN list, i < j, ~Nvidia(list[j])
      PROVE  \E a, b \in 1 .. n + 1 : /\ a < b /\ egl[a].mod = list[i] /\ egl[b].mod = list[j]
                                      /\ Shared(egl[b], vk)
  <2>1. PICK a, b \in 1 .. n : /\ a < b /\ egl[a].mod = list[i] /\ egl[b].mod = list[j]
                               /\ Shared(egl[b], vk)
    BY <1>5 DEF Merged, Precedes
  <2> QED BY <1>1, <2>1
<1>6. ASSUME NEW i \in DOMAIN list, NEW j \in DOMAIN list, NEW k \in DOMAIN list,
             i < j, j < k, ~Nvidia(list[j])
      PROVE  \E a, b, c \in 1 .. n + 1 :
               /\ a < b /\ b < c /\ Shared(egl[b], vk)
               /\ egl[a].mod = list[i] /\ egl[b].mod = list[j] /\ egl[c].mod = list[k]
  <2>1. PICK a, b, c \in 1 .. n :
          /\ a < b /\ b < c /\ Shared(egl[b], vk)
          /\ egl[a].mod = list[i] /\ egl[b].mod = list[j] /\ egl[c].mod = list[k]
    BY <1>6 DEF Merged, Separates
  <2>2. a \in 1 .. n + 1 /\ b \in 1 .. n + 1 /\ c \in 1 .. n + 1
    BY <1>1
  <2> QED BY <2>1, <2>2
<1> QED BY <1>4, <1>5, <1>6 DEF Merged, Precedes, Separates

\* One that is shared is put where the order wants it.
LEMMA MergedInsert ==
  ASSUME NEW egl, NEW vk, NEW n \in Nat, NEW list, Merged(list, egl, vk, n),
         Shared(egl[n + 1], vk), egl[n + 1].mod \in Layouts
  PROVE  Merged(InsertLayout(list, egl[n + 1].mod), egl, vk, n + 1)
<1> DEFINE m == egl[n + 1].mod
           new == InsertLayout(list, m)
           D == 1 .. Len(list)
<1>1. list \in Seq(Layouts) /\ Len(list) \in Nat /\ DOMAIN list = D
  BY DEF Merged
<1>2. PICK p \in 0 .. Len(list) :
        /\ \A k \in p + 1 .. Len(list) : Overtakes(m, list[k])
        /\ p = 0 \/ ~Overtakes(m, list[p])
        /\ new \in Seq(Layouts)
        /\ Len(new) = Len(list) + 1
        /\ \A i \in 1 .. p : new[i] = list[i]
        /\ new[p + 1] = m
        /\ \A i \in p + 2 .. Len(list) + 1 : new[i] = list[i - 1]
  BY <1>1, InsertedAt
<1>3. DOMAIN new = 1 .. Len(list) + 1
  BY <1>2
<1> HIDE DEF new, m
\* Where a layout of the new list stands in the old one.
<1> DEFINE Old(i) == IF i <= p THEN i ELSE i - 1
<1>4. \A i \in DOMAIN new : i # p + 1 => Old(i) \in D /\ new[i] = list[Old(i)]
  <2> TAKE i \in DOMAIN new
  <2> HAVE i # p + 1
  <2>1. CASE i <= p
    <3>1. i \in 1 .. p /\ i \in D
      BY <1>1, <1>2, <1>3, <2>1
    <3> QED BY <1>2, <2>1, <3>1
  <2>2. CASE ~(i <= p)
    <3>1. i \in p + 2 .. Len(list) + 1 /\ i - 1 \in D
      BY <1>1, <1>2, <1>3, <2>2
    <3> QED BY <1>2, <2>2, <3>1
  <2> QED BY <2>1, <2>2
<1>5. \A i, j \in DOMAIN new : i < j /\ i # p + 1 /\ j # p + 1 => Old(i) < Old(j)
  BY <1>1, <1>2, <1>3
<1>6. \A j \in DOMAIN new : j > p + 1 => Overtakes(m, new[j])
  <2> TAKE j \in DOMAIN new
  <2> HAVE j > p + 1
  <2>1. j - 1 \in p + 1 .. Len(list) /\ j \in p + 2 .. Len(list) + 1
    BY <1>1, <1>2, <1>3
  <2> QED BY <1>2, <2>1
<1>7. \A k \in 1 .. n : k \in 1 .. n + 1 /\ k < n + 1
  OBVIOUS
<1>8. n + 1 \in 1 .. n + 1 /\ p + 1 \in DOMAIN new
  BY <1>1, <1>3
<1>9. \A i \in DOMAIN new : i \in Nat /\ (i # p + 1 => i < p + 1 \/ i > p + 1)
  BY <1>1, <1>3
\* What is in it.
<1>10. ASSUME NEW i \in DOMAIN new
       PROVE  \E k \in 1 .. n + 1 : Shared(egl[k], vk) /\ egl[k].mod = new[i]
  <2>1. CASE i = p + 1
    BY <1>2, <1>8, <2>1 DEF m
  <2>2. CASE i # p + 1
    <3>1. PICK k \in 1 .. n : Shared(egl[k], vk) /\ egl[k].mod = list[Old(i)]
      BY <1>1, <1>4, <2>2 DEF Merged, Holds
    <3> QED BY <1>4, <1>7, <2>2, <3>1
  <2> QED BY <2>1, <2>2
<1>11. ASSUME NEW k \in 1 .. n + 1, Shared(egl[k], vk)
       PROVE  \E i \in DOMAIN new : new[i] = egl[k].mod
  <2>1. CASE k = n + 1
    BY <1>2, <1>8, <2>1 DEF m
  <2>2. CASE k # n + 1
    <3>1. k \in 1 .. n
      BY <2>2
    <3>2. PICK i \in D : list[i] = egl[k].mod
      BY <1>1, <1>11, <3>1 DEF Merged, Holds
    <3>3. CASE i <= p
      <4>1. i \in 1 .. p /\ i \in DOMAIN new
        BY <1>1, <1>3, <3>2, <3>3
      <4> QED BY <1>2, <3>2, <4>1
    <3>4. CASE ~(i <= p)
      <4>1. i + 1 \in p + 2 .. Len(list) + 1 /\ i + 1 \in DOMAIN new /\ (i + 1) - 1 = i
        BY <1>1, <1>3, <3>2, <3>4
      <4>2. new[i + 1] = list[(i + 1) - 1]
        BY <1>2, <4>1
      <4> QED BY <3>2, <4>1, <4>2
    <3> QED BY <3>3, <3>4
  <2> QED BY <2>1, <2>2
\* Nothing is put before another vendor's layout, which itself comes last.
<1>12. \A j \in DOMAIN new : j > p + 1 => Nvidia(new[j]) /\ Nvidia(m)
  BY <1>6 DEF Overtakes, Nvidia
<1>13. ASSUME NEW i \in DOMAIN new, NEW j \in DOMAIN new, i < j, ~Nvidia(new[j])
       PROVE  \E a, b \in 1 .. n + 1 : /\ a < b /\ egl[a].mod = new[i] /\ egl[b].mod = new[j]
                                       /\ Shared(egl[b], vk)
  <2>1. j <= p + 1
    BY <1>9, <1>12, <1>13
  <2>2. i # p + 1
    BY <1>9, <1>13, <2>1
  <2>3. CASE j = p + 1
    <3>1. PICK a \in 1 .. n : Shared(egl[a], vk) /\ egl[a].mod = list[Old(i)]
      BY <1>1, <1>4, <2>2 DEF Merged, Holds
    <3>2. egl[a].mod = new[i] /\ egl[n + 1].mod = new[j]
      BY <1>2, <1>4, <2>2, <2>3, <3>1 DEF m
    <3> QED BY <1>7, <1>8, <3>1, <3>2
  <2>4. CASE j # p + 1
    <3>1. Old(i) \in D /\ Old(j) \in D /\ Old(i) < Old(j) /\ new[i] = list[Old(i)] /\ new[j] = list[Old(j)]
      BY <1>4, <1>5, <1>13, <2>2, <2>4
    <3>2. PICK a, b \in 1 .. n : /\ a < b /\ egl[a].mod = list[Old(i)] /\ egl[b].mod = list[Old(j)]
                                 /\ Shared(egl[b], vk)
      BY <1>1, <1>13, <3>1 DEF Merged, Precedes
    <3> QED BY <1>7, <3>1, <3>2
  <2> QED BY <2>3, <2>4
<1>14. ASSUME NEW i \in DOMAIN new, NEW j \in DOMAIN new, NEW k \in DOMAIN new,
              i < j, j < k, ~Nvidia(new[j])
       PROVE  \E a, b, c \in 1 .. n + 1 :
                /\ a < b /\ b < c /\ Shared(egl[b], vk)
                /\ egl[a].mod = new[i] /\ egl[b].mod = new[j] /\ egl[c].mod = new[k]
  <2>1. j <= p + 1
    BY <1>9, <1>12, <1>14
  <2>2. j # p + 1
    <3>1. CASE j = p + 1
      BY <1>2, <1>12, <1>14, <3>1
    <3> QED BY <3>1
  <2>3. i # p + 1
    BY <1>9, <1>14, <2>1
  <2>4. /\ Old(i) \in D /\ Old(j) \in D /\ Old(i) < Old(j)
        /\ new[i] = list[Old(i)] /\ new[j] = list[Old(j)] /\ ~Nvidia(list[Old(j)])
    BY <1>4, <1>5, <1>14, <2>2, <2>3
  <2> HIDE DEF D, Old
  <2>5. CASE k = p + 1
    <3>1. PICK a, b \in 1 .. n : /\ a < b /\ egl[a].mod = list[Old(i)] /\ egl[b].mod = list[Old(j)]
                                 /\ Shared(egl[b], vk)
      BY <1>1, <2>4 DEF Merged, Precedes
    <3>2. egl[a].mod = new[i] /\ egl[b].mod = new[j] /\ egl[n + 1].mod = new[k]
      BY <1>2, <2>4, <2>5, <3>1 DEF m
    <3>3. a \in 1 .. n + 1 /\ b \in 1 .. n + 1 /\ b < n + 1
      BY <1>7
    <3> QED BY <1>8, <3>1, <3>2, <3>3
  <2>6. CASE k # p + 1
    <3>1. Old(k) \in D /\ Old(j) < Old(k) /\ new[k] = list[Old(k)]
      BY <1>4, <1>5, <1>14, <2>2, <2>6
    <3>2. PICK x \in DOMAIN list, y \in DOMAIN list, z \in DOMAIN list :
            /\ x < y /\ y < z /\ ~Nvidia(list[y])
            /\ new[i] = list[x] /\ new[j] = list[y] /\ new[k] = list[z]
      BY <1>1, <2>4, <3>1
    <3>3. Separates(list, egl, vk, n)
      BY DEF Merged
    <3>4. PICK a, b, c \in 1 .. n :
            /\ a < b /\ b < c /\ Shared(egl[b], vk)
            /\ egl[a].mod = list[x] /\ egl[b].mod = list[y] /\ egl[c].mod = list[z]
      BY <3>2, <3>3 DEF Separates
    <3> QED BY <1>7, <3>2, <3>4
  <2> QED BY <2>5, <2>6
\* NVIDIA's are in order.
<1>15. ASSUME NEW i \in DOMAIN new, NEW k \in DOMAIN new, i < k, Overtakes(new[k], new[i])
       PROVE  \E j \in DOMAIN new : i < j /\ j < k /\ ~Nvidia(new[j])
  <2>0. \A q \in Layouts : q[2] \in Int
    BY DEF Layouts
  <2>1. new[i] \in Layouts /\ new[k] \in Layouts /\ m \in Layouts
    BY <1>2, <1>3, <1>15 DEF m
  <2>2. CASE i = p + 1
    <3>1. Overtakes(m, new[k]) /\ Overtakes(new[k], m)
      BY <1>2, <1>6, <1>15, <2>2
    <3> QED BY <2>0, <2>1, <3>1 DEF Overtakes
  <2>3. ASSUME NEW h \in D, Old(i) \in D, Old(i) < h, h <= p, i <= p, ~Nvidia(list[h]), h < k
        PROVE  \E j \in DOMAIN new : i < j /\ j < k /\ ~Nvidia(new[j])
    <3>1. h \in 1 .. p /\ h \in DOMAIN new /\ i < h
      BY <1>1, <1>3, <2>3
    <3>2. new[h] = list[h]
      BY <1>2, <3>1
    <3> QED BY <2>3, <3>1, <3>2
  <2>4. CASE k = p + 1
    <3>1. i \in 1 .. p /\ Old(i) = i /\ new[i] = list[i] /\ i \in D
      BY <1>1, <1>2, <1>3, <1>15, <2>4
    <3>2. p \in D /\ p # 0
      BY <1>1, <3>1
    <3>3. ~Overtakes(m, list[p]) /\ Overtakes(m, list[i]) /\ new[k] = m
      BY <1>2, <1>15, <2>4, <3>1, <3>2
    <3>4. CASE ~Nvidia(list[p])
      <4>1. i # p
        BY <3>3, <3>4 DEF Overtakes, Nvidia
      <4>2. Old(i) < p /\ p < k
        BY <2>4, <3>1, <4>1
      <4> QED BY <2>3, <3>1, <3>2, <3>4, <4>2
    <3>5. CASE Nvidia(list[p])
      <4>1. list[p] \in Layouts /\ list[i] \in Layouts
        BY <1>1, <3>1, <3>2
      <4>2. Overtakes(list[p], list[i])
        BY <2>0, <2>1, <3>3, <3>5, <4>1 DEF Overtakes, Nvidia
      <4>3. i # p
        BY <2>0, <4>1, <4>2 DEF Overtakes
      <4>4. i < p
        BY <3>1, <4>3
      <4>5. PICK h \in D : i < h /\ h < p /\ ~Nvidia(list[h])
        BY <1>1, <3>1, <3>2, <4>2, <4>4 DEF Merged, Ordered
      <4>6. Old(i) < h /\ h <= p /\ i <= p /\ h < k
        BY <2>4, <3>1, <4>5
      <4> QED BY <2>3, <3>1, <4>5, <4>6
    <3> QED BY <3>4, <3>5
  <2>5. CASE i # p + 1 /\ k # p + 1
    <3>1. Old(i) \in D /\ Old(k) \in D /\ Old(i) < Old(k) /\ new[i] = list[Old(i)] /\ new[k] = list[Old(k)]
      BY <1>4, <1>5, <1>15, <2>5
    <3>2. PICK h \in D : Old(i) < h /\ h < Old(k) /\ ~Nvidia(list[h])
      BY <1>1, <1>15, <3>1 DEF Merged, Ordered
    <3>3. h <= p
      <4>1. CASE ~(h <= p)
        <5>1. h \in p + 1 .. Len(list)
          BY <3>2, <4>1
        <5> QED BY <1>2, <3>2, <5>1 DEF Overtakes, Nvidia
      <4> QED BY <4>1
    <3>4. i <= p /\ h < k
      BY <1>1, <1>3, <3>2, <3>3
    <3> QED BY <2>3, <3>1, <3>2, <3>3, <3>4
  <2> QED BY <2>2, <2>4, <2>5
<1>16. Holds(new, egl, vk, n + 1)
  BY <1>10, <1>11 DEF Holds
<1>17. Precedes(new, egl, vk, n + 1)
  BY <1>13 DEF Precedes
<1>18. Separates(new, egl, vk, n + 1)
  BY <1>14 DEF Separates
<1>19. Ordered(new)
  BY <1>15 DEF Ordered
<1> QED BY <1>2, <1>16, <1>17, <1>18, <1>19 DEF Merged, new, m

\* negotiate_modifier, round by round.
Round(egl, vk, list, i) ==
  IF i = 0 THEN <<>>
  ELSE IF Shared(egl[i], vk) THEN InsertLayout(list[i - 1], egl[i].mod) ELSE list[i - 1]

\* The rounds up to any number are a function.
LEMMA RoundsExist ==
  ASSUME NEW egl, NEW vk, NEW n \in Nat
  PROVE  \E list : list = [i \in 0 .. n |-> Round(egl, vk, list, i)]
<1> DEFINE Exists(k) == \E list : list = [i \in 0 .. k |-> Round(egl, vk, list, i)]
           S == {k \in 0 .. n : ~Exists(k)}
<1>1. SUFFICES ASSUME S # {} PROVE FALSE
  <2>1. n \in 0 .. n
    OBVIOUS
  <2> QED BY <2>1
<1>2. PICK k \in S : \A j \in S : k <= j
  <2>1. S \subseteq Nat
    OBVIOUS
  <2> HIDE DEF S
  <2> QED BY <1>1, <2>1, LeastOf
<1>3. k \in 0 .. n /\ ~Exists(k)
  OBVIOUS
<1>4. CASE k = 0
  <2> DEFINE list == [i \in 0 .. 0 |-> <<>>]
  <2>1. \A i \in 0 .. 0 : Round(egl, vk, list, i) = <<>>
    BY DEF Round
  <2>2. list = [i \in 0 .. 0 |-> Round(egl, vk, list, i)]
    BY <2>1
  <2> QED BY <1>3, <1>4, <2>2
<1>5. CASE k # 0
  <2>1. k - 1 \in 0 .. n /\ k - 1 \notin S
    <3>1. k - 1 \in 0 .. n /\ ~(k <= k - 1)
      BY <1>3, <1>5
    <3> HIDE DEF S
    <3> QED BY <1>2, <3>1
  <2>2. PICK old : old = [i \in 0 .. k - 1 |-> Round(egl, vk, old, i)]
    BY <2>1
  <2> DEFINE list == [i \in 0 .. k |-> IF i = k THEN Round(egl, vk, old, k) ELSE old[i]]
  <2>3. ASSUME NEW i \in 0 .. k PROVE list[i] = Round(egl, vk, list, i)
    <3>1. i # 0 => i - 1 \in 0 .. k /\ i - 1 # k
      BY <1>3
    <3>2. i # 0 => list[i - 1] = old[i - 1]
      BY <3>1
    <3>3. Round(egl, vk, list, i) = Round(egl, vk, old, i)
      BY <3>2 DEF Round
    <3>4. CASE i = k
      BY <3>3, <3>4
    <3>5. CASE i # k
      <4>1. i \in 0 .. k - 1
        BY <1>3, <3>5
      <4> QED BY <2>2, <3>3, <3>5, <4>1
    <3> QED BY <3>4, <3>5
  <2>4. list = [i \in 0 .. k |-> list[i]]
    OBVIOUS
  <2>5. list = [i \in 0 .. k |-> Round(egl, vk, list, i)]
    <3> HIDE DEF list
    <3> QED BY <2>3, <2>4
  <2> HIDE DEF list
  <2> QED BY <1>3, <2>5
<1> QED BY <1>4, <1>5

\* What negotiate_modifier leaves is the merge of all that EGL lists.
LEMMA NegotiatedMerged ==
  ASSUME NEW egl \in Seq(Entries), NEW vk
  PROVE  Merged(Negotiated(egl, vk), egl, vk, Len(egl))
<1> DEFINE n == Len(egl)
           list == CHOOSE f : f = [i \in 0 .. n |->
                     IF i = 0 THEN <<>>
                     ELSE IF Shared(egl[i], vk) THEN InsertLayout(f[i - 1], egl[i].mod)
                     ELSE f[i - 1]]
<1>1. n \in Nat /\ n \in 0 .. n
  OBVIOUS
<1>2. Negotiated(egl, vk) = list[n]
  BY DEF Negotiated
<1>3. list = [i \in 0 .. n |-> IF i = 0 THEN <<>>
                     ELSE IF Shared(egl[i], vk) THEN InsertLayout(list[i - 1], egl[i].mod)
                     ELSE list[i - 1]]
  <2>1. \E f : f = [i \in 0 .. n |-> IF i = 0 THEN <<>>
                     ELSE IF Shared(egl[i], vk) THEN InsertLayout(f[i - 1], egl[i].mod)
                     ELSE f[i - 1]]
    <3>1. \E f : f = [i \in 0 .. n |-> Round(egl, vk, f, i)]
      <4> HIDE DEF n
      <4> QED BY <1>1, RoundsExist
    <3> QED BY <3>1, Zenon DEF Round
  <2> QED BY <2>1
<1> HIDE DEF list
<1> DEFINE S == {i \in 0 .. n : ~Merged(list[i], egl, vk, i)}
<1>4. SUFFICES ASSUME S # {} PROVE FALSE
  BY <1>1, <1>2
<1>5. PICK i \in S : \A j \in S : i <= j
  <2>1. S \subseteq Nat
    BY <1>1
  <2> HIDE DEF S
  <2> QED BY <1>4, <2>1, LeastOf
<1>6. i \in 0 .. n /\ ~Merged(list[i], egl, vk, i)
  OBVIOUS
<1>7. CASE i = 0
  <2>1. list[0] = <<>>
    BY <1>1, <1>3
  <2>2. Merged(<<>>, egl, vk, 0)
    <3>1. DOMAIN <<>> = {} /\ <<>> \in Seq(Layouts) /\ 1 .. 0 = {}
      OBVIOUS
    <3> QED BY <3>1 DEF Merged, Holds, Precedes, Separates, Ordered
  <2> QED BY <1>6, <1>7, <2>1, <2>2
<1>8. CASE i # 0
  <2>1. PICK k \in Nat : k + 1 = i
    <3>1. i - 1 \in Nat /\ (i - 1) + 1 = i
      BY <1>1, <1>6, <1>8
    <3> QED BY <3>1
  <2>2. k \in 0 .. n /\ ~(i <= k) /\ i - 1 = k /\ i \in 1 .. n
    BY <1>1, <1>6, <2>1
  <2>3. Merged(list[k], egl, vk, k)
    <3>1. k \notin S
      <4> HIDE DEF S
      <4> QED BY <1>5, <2>2
    <3> QED BY <2>2, <3>1
  <2>4. egl[i] \in Entries /\ egl[i].mod \in Layouts
    <3>1. egl[i] \in Entries
      BY <2>2
    <3> QED BY <3>1 DEF Entries
  <2>5. CASE Shared(egl[i], vk)
    <3>1. list[i] = InsertLayout(list[k], egl[i].mod)
      BY <1>3, <1>6, <1>8, <2>2, <2>5
    <3>2. Merged(InsertLayout(list[k], egl[k + 1].mod), egl, vk, k + 1)
      BY <2>1, <2>3, <2>4, <2>5, MergedInsert
    <3> QED BY <1>6, <2>1, <3>1, <3>2
  <2>6. CASE ~Shared(egl[i], vk)
    <3>1. list[i] = list[k]
      BY <1>3, <1>6, <1>8, <2>2, <2>6
    <3>2. Merged(list[k], egl, vk, k + 1)
      BY <2>1, <2>3, <2>6, MergedLonger
    <3> QED BY <1>6, <2>1, <3>1, <3>2
  <2> QED BY <2>5, <2>6
<1> QED BY <1>7, <1>8

------------------------------------------------------------------------------
(* The layout of a GL tensor *)

\* What is negotiated, is negotiated from what the drivers answered.
ListKnown ==
  bo_modifiers.known =>
    layouts.egl \in Seq(Entries) /\ bo_modifiers.list = Negotiated(layouts.egl, layouts.vk)

\* A layout that a tensor has was made from that list.
GlTensors ==
  \A x \in Tensors :
    t[x].dom = "gl" /\ t[x].mod # NoLayout =>
      bo_modifiers.known /\ t[x].mod \in Created(bo_modifiers.list, t[x].accepts)

LayoutInv == ListKnown /\ GlTensors

\* Nobody allocates.
LEMMA LayoutKept ==
  ASSUME LayoutInv, UNCHANGED <<t, layouts, bo_modifiers>>
  PROVE  LayoutInv'
BY DEF LayoutInv, ListKnown, GlTensors

\* One tensor is replaced, by one that is not GL's or has no layout.
LEMMA LayoutReplaced ==
  ASSUME Shapes, LayoutInv, UNCHANGED <<layouts, bo_modifiers>>, NEW y \in Tensors, NEW r,
         t' = [t EXCEPT ![y] = r], r.dom # "gl" \/ r.mod = NoLayout
  PROVE  LayoutInv'
<1>1. t'[y] = r /\ \A x \in Tensors : x # y => t'[x] = t[x]
  BY DEF Shapes
<1>2. ListKnown'
  BY DEF LayoutInv, ListKnown
<1>3. ASSUME NEW x \in Tensors, t'[x].dom = "gl", t'[x].mod # NoLayout
      PROVE  bo_modifiers'.known /\ t'[x].mod \in Created(bo_modifiers'.list, t'[x].accepts)
  BY <1>1, <1>3 DEF LayoutInv, GlTensors
<1> QED BY <1>2, <1>3 DEF LayoutInv, GlTensors

\* alias and dmabuf_view: a view is never GL's.
LEMMA ViewLayout ==
  ASSUME Shapes, LayoutInv, UNCHANGED <<layouts, bo_modifiers>>,
         NEW x \in Tensors, NEW y \in Tensors, NEW dom \in {"cpu", "wgpu"},
         t' = [t EXCEPT ![y] = View(x, y, dom)]
  PROVE  LayoutInv'
<1>1. View(x, y, dom).dom = dom
  BY DEF View, Shapes, Shaped, Fields
<1> QED BY <1>1, LayoutReplaced

\* Only GL makes buffer objects, and only where it imports dma-bufs.
LEMMA BoMeansGl ==
  ASSUME NEW x, NEW l \in Allocs(x, "gl"), "bo" \in l.has
  PROVE  caps.gl_import
BY DEF Allocs, GlAlloc, Left

\* infer_tensor_alloc: a GL tensor's layout comes from the list, which is negotiated once.
LEMMA AllocLayout ==
  ASSUME Shapes, LayoutInv, NEW x \in Tensors, NEW d \in Domains, NEW ok \in BOOLEAN, Alloc(x, d, ok)
  PROVE  LayoutInv'
<1>1. CASE ~Fresh(x)
  BY <1>1, LayoutKept DEF Alloc
<1>2. CASE Fresh(x)
  <2>1. Negotiate(d)
    BY <1>2 DEF Alloc
  <2>2. PICK l \in Allocs(x, d) :
          IF d = "gl" /\ "bo" \in l.has
            THEN \E accepts \in GbmAccepts :
                   \E mod \in Created(bo_modifiers'.list, accepts) :
                     t' = [t EXCEPT ![x] = Allocated(x, d, l, mod, accepts)]
            ELSE t' = [t EXCEPT ![x] = Allocated(x, d, l, NoLayout, {})]
    BY <1>2, Zenon DEF Alloc
  \* Once the list is known it stays.
  <2>3. ListKnown' /\ (bo_modifiers.known => UNCHANGED <<layouts, bo_modifiers>>)
    <3>1. CASE d = "gl" /\ caps.gl_import /\ ~bo_modifiers.known
      <4>1. PICK egl \in EglLists, vk \in VkLists :
              /\ layouts' = [egl |-> egl, vk |-> vk]
              /\ bo_modifiers' = [known |-> TRUE, list |-> Negotiated(egl, vk)]
        BY <2>1, <3>1, Zenon DEF Negotiate
      <4>2. layouts'.egl = egl /\ layouts'.vk = vk /\ bo_modifiers'.list = Negotiated(egl, vk)
        BY <4>1
      <4>3. egl \in Seq(Entries)
        BY AllocAssumption DEF Entries
      <4> QED BY <3>1, <4>2, <4>3 DEF ListKnown
    <3>2. CASE ~(d = "gl" /\ caps.gl_import /\ ~bo_modifiers.known)
      <4>1. UNCHANGED <<layouts, bo_modifiers>>
        BY <2>1, <3>2 DEF Negotiate
      <4> QED BY <4>1 DEF LayoutInv, ListKnown
    <3> QED BY <3>1, <3>2
  <2>4. \A y \in Tensors : y # x => t'[y] = t[y]
    BY <2>2 DEF Shapes
  <2>5. ASSUME NEW y \in Tensors, y # x, t'[y].dom = "gl", t'[y].mod # NoLayout
        PROVE  bo_modifiers'.known /\ t'[y].mod \in Created(bo_modifiers'.list, t'[y].accepts)
    BY <2>3, <2>4, <2>5 DEF LayoutInv, GlTensors
  <2>6. ASSUME t'[x].dom = "gl", t'[x].mod # NoLayout
        PROVE  bo_modifiers'.known /\ t'[x].mod \in Created(bo_modifiers'.list, t'[x].accepts)
    <3>1. CASE d = "gl" /\ "bo" \in l.has
      <4>1. PICK accepts \in GbmAccepts :
              \E mod \in Created(bo_modifiers'.list, accepts) :
                t' = [t EXCEPT ![x] = Allocated(x, d, l, mod, accepts)]
        BY <2>2, <3>1
      <4>2. PICK mod \in Created(bo_modifiers'.list, accepts) :
              t' = [t EXCEPT ![x] = Allocated(x, d, l, mod, accepts)]
        BY <4>1
      <4>3. t'[x].mod = mod /\ t'[x].accepts = accepts
        BY <3>1, <4>2 DEF Allocated, Shapes
      <4>4. bo_modifiers'.known
        BY <2>1, <3>1, BoMeansGl, <2>3 DEF Negotiate
      <4> QED BY <4>2, <4>3, <4>4
    <3>2. CASE ~(d = "gl" /\ "bo" \in l.has)
      <4>1. t'[x] = Allocated(x, d, l, NoLayout, {})
        BY <2>2, <3>2 DEF Shapes
      <4>2. CASE d = "dmabuf" /\ ~l.ok
        <5>1. t'[x] = t[x]
          BY <4>1, <4>2 DEF Allocated
        <5> QED BY <2>3, <2>6, <5>1 DEF LayoutInv, GlTensors
      <4>3. CASE ~(d = "dmabuf" /\ ~l.ok)
        <5>1. t'[x].mod = NoLayout
          BY <4>1, <4>3 DEF Allocated
        <5> QED BY <2>6, <5>1
      <4> QED BY <4>2, <4>3
    <3> QED BY <3>1, <3>2
  <2> QED BY <2>3, <2>5, <2>6 DEF LayoutInv, GlTensors
<1> QED BY <1>1, <1>2

\* The edge into the engine: an allocation or a view.
LEMMA InEdgeLayout == ASSUME AllocInv, LayoutInv, InEdge PROVE LayoutInv'
<1>1. pc = "in" /\ Shapes
  BY DEF InEdge, AllocInv
<1>2. /\ "in" \in Tensors /\ "src" \in Tensors
      /\ Native(ep) \in {"cpu", "wgpu"} /\ Native(ep) \in Domains /\ "wgpu" \in Domains
      /\ src \in Domains /\ Mechanism(src, Native(ep)) # "none"
  BY <1>1 DEF AllocInv, Edges, Tensors, Native, Domains
<1>3. Mechanism(src, Native(ep)) \in {"identity", "mmap", "readback", "write_buffer", "dmabuf_import"}
  BY <1>2 DEF Mechanism, Domains
<1>4. CASE Mechanism(src, Native(ep)) = "dmabuf_import"
  <2>1. PICK ok \in BOOLEAN : Alloc("in", "wgpu", ok)
    BY <1>4 DEF InEdge
  <2> QED BY <1>1, <1>2, <2>1, AllocLayout
<1>5. CASE Mechanism(src, Native(ep)) \in {"readback", "write_buffer"}
  <2>1. PICK ok \in BOOLEAN : Apply("src", "in", src, Native(ep), ok)
    BY <1>5 DEF InEdge
  <2>2. \E good \in BOOLEAN : Alloc("in", Native(ep), good)
    BY <1>5, <2>1 DEF Apply
  <2> QED BY <1>1, <1>2, <2>2, AllocLayout
<1>6. CASE Mechanism(src, Native(ep)) \in {"identity", "mmap"}
  <2>1. PICK ok \in BOOLEAN : Apply("src", "in", src, Native(ep), ok)
    BY <1>6 DEF InEdge
  <2>2. /\ UNCHANGED <<layouts, bo_modifiers>>
        /\ t' = IF ok THEN [t EXCEPT !["in"] = View("src", "in",
                        IF Mechanism(src, Native(ep)) = "mmap" THEN "cpu" ELSE src)] ELSE t
    BY <1>6, <2>1, Zenon DEF Apply
  <2>3. CASE ~ok
    BY <2>2, <2>3, LayoutKept
  <2>4. CASE ok
    <3>1. Mechanism(src, Native(ep)) = "identity" => src \in {"cpu", "wgpu"}
      BY <1>2 DEF Mechanism, Domains
    <3>2. PICK dom \in {"cpu", "wgpu"} : t' = [t EXCEPT !["in"] = View("src", "in", dom)]
      BY <1>6, <2>2, <2>4, <3>1
    <3> QED BY <1>1, <1>2, <2>2, <3>2, ViewLayout
  <2> QED BY <2>3, <2>4
<1> QED BY <1>3, <1>4, <1>5, <1>6

\* The hand-over output: a view.
LEMMA OutViewLayout == ASSUME AllocInv, LayoutInv, OutView PROVE LayoutInv'
<1>1. "out" \in Tensors /\ "dst" \in Tensors /\ Shapes
  BY DEF Tensors, AllocInv
<1>2. CASE ~HandOver(Native(ep), dst)
  BY <1>2, LayoutKept DEF OutView
<1>3. CASE HandOver(Native(ep), dst)
  <2>1. PICK ok \in BOOLEAN : Apply("dst", "out", Native(ep), dst, ok)
    BY <1>3 DEF OutView
  <2>2. /\ UNCHANGED <<layouts, bo_modifiers>>
        /\ t' = IF ok THEN [t EXCEPT !["out"] = View("dst", "out",
                        IF Mechanism(Native(ep), dst) = "mmap" THEN "cpu" ELSE Native(ep))] ELSE t
    BY <1>3, <2>1, Zenon DEF Apply, HandOver
  <2>3. CASE ~ok
    BY <2>2, <2>3, LayoutKept
  <2>4. CASE ok
    <3>1. PICK dom \in {"cpu", "wgpu"} : t' = [t EXCEPT !["out"] = View("dst", "out", dom)]
      BY <2>2, <2>4 DEF Native
    <3> QED BY <1>1, <2>2, <3>1, ViewLayout
  <2> QED BY <2>3, <2>4
<1> QED BY <1>2, <1>3

\* The copy out of the engine, which may allocate.
LEMMA OutCopyLayout == ASSUME AllocInv, LayoutInv, OutCopy PROVE LayoutInv'
<1>1. pc = "copy" /\ Shapes
  BY DEF OutCopy, AllocInv
<1>2. /\ "dst" \in Tensors /\ dst \in Domains
      /\ Native(ep) \in {"cpu", "wgpu"} /\ Mechanism(Native(ep), dst) # "none"
  BY <1>1 DEF AllocInv, Edges, Tensors, Native
<1>3. Mechanism(Native(ep), dst) \in
        {"identity", "mmap", "readback", "write_buffer", "upload", "dmabuf_write"}
  BY <1>2 DEF Mechanism, Domains
<1>4. CASE HandOver(Native(ep), dst)
  BY <1>4, LayoutKept DEF OutCopy
<1>5. CASE ~HandOver(Native(ep), dst)
  <2>1. PICK ok \in BOOLEAN : Apply("out", "dst", Native(ep), dst, ok)
    BY <1>5 DEF OutCopy
  <2>2. CASE Mechanism(Native(ep), dst) \in {"readback", "write_buffer"}
    <3>1. \E good \in BOOLEAN : Alloc("dst", dst, good)
      BY <2>1, <2>2 DEF Apply
    <3> QED BY <1>1, <1>2, <3>1, AllocLayout
  <2>3. CASE Mechanism(Native(ep), dst) \in {"upload", "dmabuf_write"}
    <3>1. UNCHANGED <<t, layouts, bo_modifiers>>
      BY <2>1, <2>3 DEF Apply
    <3> QED BY <3>1, LayoutKept
  <2> QED BY <1>3, <1>5, <2>2, <2>3 DEF HandOver
<1> QED BY <1>4, <1>5

\* Every step keeps the layouts.
LEMMA LayoutStep == ASSUME AllocInv, LayoutInv, [Next]_vars PROVE LayoutInv'
<1>1. /\ \A x \in {"src", "in", "out", "dst"} : x \in Tensors
      /\ Shapes
  BY DEF Tensors, AllocInv
<1>2. ASSUME UNCHANGED <<t, layouts, bo_modifiers>> PROVE LayoutInv'
  BY <1>2, LayoutKept
<1>3. CASE RunReference \/ RunCell
  BY <1>2, <1>3 DEF RunReference, RunCell, StartCell, ctxVars
<1>4. CASE AllocDst
  <2>1. dst \in Domains
    BY <1>4 DEF AllocDst, AllocInv, Edges
  <2> QED BY <1>1, <1>4, <2>1, AllocLayout DEF AllocDst
<1>5. CASE AllocOut
  <2>1. Native(ep) \in Domains
    BY DEF Native, Domains
  <2> QED BY <1>1, <1>2, <1>5, <2>1, AllocLayout DEF AllocOut
<1>6. CASE Gen
  <2>1. src \in Domains
    BY <1>6 DEF Gen, AllocInv, Edges
  <2> QED BY <1>1, <1>6, <2>1, AllocLayout DEF Gen
<1>7. CASE InEdge \/ OutView \/ OutCopy
  BY <1>7, InEdgeLayout, OutViewLayout, OutCopyLayout
<1>8. CASE InImport \/ Run \/ EndIteration \/ DestroyEngine
  BY <1>2, <1>8 DEF InImport, Run, EndIteration, DestroyEngine, ctxVars
<1>9. CASE Release
  <2>1. Head(todo) \in Tensors
    BY <1>9 DEF Release, AllocInv, Releasing, Tensors
  <2>2. UNCHANGED <<layouts, bo_modifiers>> /\ t' = [t EXCEPT ![Head(todo)] = NoTensor]
    BY <1>9 DEF Release, ctxVars
  <2>3. NoTensor.mod = NoLayout
    BY DEF NoTensor
  <2> QED BY <1>1, <2>1, <2>2, <2>3, LayoutReplaced
<1>10. CASE Ended \/ UNCHANGED vars
  BY <1>2, <1>10 DEF Ended, vars, ctxVars
<1> QED BY <1>3, <1>4, <1>5, <1>6, <1>7, <1>8, <1>9, <1>10 DEF Next

\* create_bo takes the first of the list that fits.
LEMMA CreatedFirst ==
  ASSUME NEW list \in Seq(Layouts), NEW accepts, NEW m \in Created(list, accepts),
         \E i \in DOMAIN list : list[i] \in accepts
  PROVE  \E i \in DOMAIN list : /\ m = list[i] /\ list[i] \in accepts
                                /\ \A j \in DOMAIN list : list[j] \in accepts => i <= j
<1> DEFINE fits == {i \in DOMAIN list : list[i] \in accepts}
<1>1. fits # {} /\ fits \subseteq Nat
  OBVIOUS
<1>2. m = list[CHOOSE i \in fits : \A j \in fits : i <= j]
  BY <1>1, Zenon DEF Created
<1>3. \E i \in fits : \A j \in fits : i <= j
  <2> HIDE DEF fits
  <2> QED BY <1>1, LeastOf
<1>4. PICK i \in fits : m = list[i] /\ \A j \in fits : i <= j
  BY <1>2, <1>3
<1> QED BY <1>4

\* So the first that fits has no lower blocks of NVIDIA's behind it, unless another
\* vendor's layout keeps them there.
LEMMA LayoutPreferred == ASSUME LayoutInv PROVE PreferredLayout
<1> SUFFICES ASSUME NEW x \in Tensors, t[x].dom = "gl", t[x].mod # NoLayout, Importable(x) # {}
             PROVE  /\ t[x].mod \in Importable(x)
                    /\ \A m \in Importable(x) : Overtakes(m, t[x].mod) => Between(t[x].mod, m)
  BY DEF PreferredLayout
<1> DEFINE egl == layouts.egl
           vk == layouts.vk
           list == bo_modifiers.list
           n == Len(layouts.egl)
<1>1. /\ egl \in Seq(Entries) /\ list = Negotiated(egl, vk)
      /\ t[x].mod \in Created(list, t[x].accepts)
  BY DEF LayoutInv, ListKnown, GlTensors
<1>2. Merged(list, egl, vk, n) /\ DOMAIN egl = 1 .. n
  BY <1>1, NegotiatedMerged
<1>3. \A m : m \in Importable(x) <=>
               m \in t[x].accepts /\ \E k \in 1 .. n : Shared(egl[k], vk) /\ egl[k].mod = m
  BY <1>2 DEF Importable
<1> HIDE DEF egl, vk, list, n
<1>4. \A m : m \in Importable(x) <=> m \in t[x].accepts /\ \E i \in DOMAIN list : list[i] = m
  <2>1. Holds(list, egl, vk, n)
    BY <1>2 DEF Merged
  <2>2. ASSUME NEW m
        PROVE  (\E k \in 1 .. n : Shared(egl[k], vk) /\ egl[k].mod = m)
                 <=> \E i \in DOMAIN list : list[i] = m
    BY <2>1, Zenon DEF Holds
  <2> QED BY <1>3, <2>2, Zenon
<1>5. list \in Seq(Layouts)
  BY <1>2 DEF Merged
<1>6. \E i \in DOMAIN list : list[i] \in t[x].accepts
  BY <1>4
<1>7. PICK a \in DOMAIN list : /\ t[x].mod = list[a] /\ list[a] \in t[x].accepts
                               /\ \A j \in DOMAIN list : list[j] \in t[x].accepts => a <= j
  BY <1>1, <1>5, <1>6, CreatedFirst
<1>8. ASSUME NEW m \in Importable(x), Overtakes(m, t[x].mod)
      PROVE  Between(t[x].mod, m)
  <2>1. PICK b \in DOMAIN list : list[b] = m /\ a <= b
    BY <1>4, <1>7
  <2>2. a # b
    <3>1. list[a] \in Layouts /\ \A q \in Layouts : q[2] \in Int
      BY <1>5 DEF Layouts
    <3> QED BY <1>7, <1>8, <2>1, <3>1 DEF Overtakes
  <2>3. a \in Nat /\ b \in Nat
    BY <1>5
  <2>4. PICK c \in DOMAIN list : a < c /\ c < b /\ ~Nvidia(list[c])
    BY <1>2, <1>7, <1>8, <2>1, <2>2, <2>3 DEF Merged, Ordered
  <2>5. Separates(list, egl, vk, n)
    BY <1>2 DEF Merged
  <2>6. PICK i, j, k \in 1 .. n :
          /\ i < j /\ j < k /\ Shared(egl[j], vk) /\ egl[i].mod = list[a]
          /\ egl[j].mod = list[c] /\ egl[k].mod = list[b]
    BY <2>4, <2>5 DEF Separates
  <2> QED BY <1>2, <1>7, <2>1, <2>4, <2>6 DEF Between, Nvidia, egl, vk
<1> QED BY <1>4, <1>7, <1>8

\* infer_ctx_gl.c, negotiate_modifier and create_bo: whatever EGL, Vulkan and GBM answer, a
\* GL tensor has a layout that can be imported if one can be allocated, and misses one of
\* NVIDIA's with lower blocks only where another vendor's layout stands between the two.
THEOREM PreferredLayoutAlways == Spec => []PreferredLayout
<1>1. Init => AllocInv /\ LayoutInv
  <2>1. Init => LayoutInv
    BY DEF Init, LayoutInv, ListKnown, GlTensors, NoTensor
  <2> QED BY <2>1, AllocInit
<1>2. AllocInv /\ LayoutInv /\ [Next]_vars => AllocInv' /\ LayoutInv'
  BY AllocInvStep, LayoutStep
<1>3. LayoutInv => PreferredLayout
  BY LayoutPreferred
<1> QED BY <1>1, <1>2, <1>3, PTL DEF Spec
==============================================================================
