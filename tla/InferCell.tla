------------------------------ MODULE InferCell ------------------------------
(***************************************************************************)
(* One cell of hello/hello_inference.c, run_cell, over the infer library:  *)
(* a producer fills a tensor in its domain, an edge takes it to the engine,*)
(* the engine runs, an edge takes each output to the consumer's domain.    *)
(*                                                                         *)
(* The host thread calls one library function per step.  GL, Vulkan and    *)
(* WebGPU each have a queue of jobs that runs in order, each job once the  *)
(* fence it waits for has signaled, whenever the GPU gets to it.  Memory   *)
(* holds the number of the input its contents come from.  A sync file is   *)
(* named by the job that signals it, -1 is NoFd.                           *)
(***************************************************************************)
EXTENDS Integers, Sequences, FiniteSets

CONSTANTS
  NOut,        \* outputs of the model
  Total,       \* warm-up and timed iterations
  Setups,      \* cells, each with the APIs whose drivers have sync files
  MayTimeOut,  \* may the two seconds a token is waited for run out?
  MayGiveUp,   \* may the one-second waits run out whose result nobody looks at?
  MayFail,     \* may creating, importing or exporting a fence fail?
  MayRefuse    \* may an API refuse a call, so that the library returns -1?

Domains == {"cpu", "gl", "vk", "wgpu", "dmabuf"}
Engines == {"cpu", "webgpu"}
AllCells == [src : Domains, ep : Engines, dst : Domains]
Apis == {"gl", "vk", "wgpu"}

ASSUME CellAssumption ==
  /\ NOut \in Nat \ {0} /\ Total \in Nat \ {0}
  /\ Setups \subseteq AllCells \X SUBSET Apis
  /\ MayTimeOut \in BOOLEAN /\ MayGiveUp \in BOOLEAN /\ MayFail \in BOOLEAN
  /\ MayRefuse \in BOOLEAN

NoFd == [stage |-> "none", o |-> 0, it |-> 0]
Outs == 1 .. NOut
Src == <<"src", 0>>
In == <<"in", 0>>
Out(i) == <<"out", i>>
Dst(i) == <<"dst", i>>
Tensors == {Src} \cup {Dst(i) : i \in Outs}
Memory == Tensors \cup {In} \cup {Out(i) : i \in Outs}

VARIABLES
  cell, fenced,     \* fixed when the cell starts
  pc, it, o,        \* the host thread: next call, iteration, output
  queue,            \* per API: the jobs submitted and not executed
  mem,              \* the input that each memory's contents come from
  ready, released,  \* the tokens of the producer's and the consumer's tensors
  fds,              \* sync files open in this process
  seen, prev,       \* the outputs read back, in this and the last iteration
  exact, status     \* res->input_exact, res->status

hostVars  == <<pc, it, o>>
tokenVars == <<ready, released, fds>>
checkVars == <<seen, prev, exact, status>>
vars == <<cell, fenced, hostVars, queue, mem, tokenVars, checkVars>>

Open(f) == IF f = NoFd THEN 0 ELSE 1

------------------------------------------------------------------------------
(* Faulty variants of the operators below *)

FinishAtOnce(q) == TRUE                         \* glFinish is missing
TokenForgotten(t, f) == UNCHANGED ready         \* infer_sync_set is missing
KeepsFile(old, new) == fds' = fds + Open(new)   \* infer_sync_reset is missing
SameAgain == it                                 \* it++ is missing
OwnOutput(i) == Out(i)                          \* the hand-over is missing

------------------------------------------------------------------------------
(* The registry and the engine: which way the data goes *)

\* infer_engine_ort_input_domain, and output_domain
Native(ep) == IF ep = "webgpu" THEN "wgpu" ELSE "cpu"

\* the table of infer_registry_init
Mechanism(from, to) ==
  CASE from = to                                          -> "identity"
    [] {from, to} = {"cpu", "dmabuf"}                     -> "mmap"
    [] to = "wgpu" /\ from \in {"gl", "vk", "dmabuf"}     -> "dmabuf_import"
    [] from = "wgpu" /\ to \in {"gl", "vk", "dmabuf"}     -> "dmabuf_write"
    [] from = "cpu" /\ to = "wgpu"                        -> "write_buffer"
    [] to = "cpu" /\ from \in Apis                        -> "readback"
    [] from = "cpu" /\ to \in {"gl", "vk"}                -> "upload"

InEdge == Mechanism(cell.src, Native(cell.ep))
OutEdge == Mechanism(Native(cell.ep), cell.dst)
HandOver(edge) == edge \in {"identity", "mmap"}

\* a hand-over makes the engine's tensor a view of the producer's or consumer's
EngineIn == IF HandOver(InEdge) THEN Src ELSE In
EngineOut(i) == IF HandOver(OutEdge) THEN Dst(i) ELSE Out(i)

------------------------------------------------------------------------------
(* Jobs and fences *)

Id(stage, i) == [stage |-> stage, o |-> i, it |-> it]

InFlight == UNION {{queue[q][k] : k \in 1 .. Len(queue[q])} : q \in Apis}
Signaled(f) == \A j \in InFlight : j.id # f

FromMemory == 0     \* job.data, unless the contents are fixed at submission

Reads(j) ==
  IF j.data # FromMemory THEN {}
  ELSE CASE j.id.stage = "in"  -> {Src}
         [] j.id.stage = "run" -> {EngineIn}
         [] j.id.stage = "out" -> {Out(j.id.o)}

Writes(j) ==
  CASE j.id.stage = "gen" -> {Src}
    [] j.id.stage = "in"  -> {In}
    [] j.id.stage = "run" -> {EngineOut(i) : i \in Outs}
    [] j.id.stage = "out" -> {Dst(j.id.o)}

Contents(j) == IF j.data # FromMemory THEN j.data ELSE mem[CHOOSE m \in Reads(j) : TRUE]

Submit(q, id, wait, data) ==
  queue' = [queue EXCEPT ![q] = Append(@, [id |-> id, wait |-> wait, data |-> data])]

Idle(q) == queue[q] = <<>>

\* infer_wait_sync_fd with a second's timeout, the result ignored
WaitOrGiveUp(f) == Signaled(f) \/ MayGiveUp

------------------------------------------------------------------------------
(* Steps of the host thread: the next call, or the next output's turn *)

At(p) == pc = p /\ UNCHANGED <<cell, fenced>>
Go(p) == pc' = p /\ UNCHANGED <<it, o>>
GoOver(p, q) ==     \* p for the next output, or q after the last
  /\ UNCHANGED it
  /\ IF o < NOut THEN o' = o + 1 /\ pc' = p ELSE o' = 1 /\ pc' = q

\* infer_sync_set and infer_sync_reset: the old file is closed
SetReady(t, f) == ready' = [ready EXCEPT ![t] = f]
SetReleased(t, f) == released' = [released EXCEPT ![t] = f]
Exchange(old, new) == fds' = fds - Open(old) + Open(new)

AfterRun == IF HandOver(OutEdge) THEN "ready" ELSE "out"

------------------------------------------------------------------------------
(* run_cell, before the loop: tensors without tokens *)

Init ==
  /\ \E s \in Setups : cell = s[1] /\ fenced = s[2]
  /\ pc = "gen" /\ it = 1 /\ o = 1
  /\ queue = [q \in Apis |-> <<>>]
  /\ mem = [m \in Memory |-> 0]
  /\ ready = [t \in Tensors |-> NoFd] /\ released = [t \in Tensors |-> NoFd]
  /\ fds = 0
  /\ seen = [i \in Outs |-> 0] /\ prev = [i \in Outs |-> 0]
  /\ exact = TRUE /\ status = "running"

------------------------------------------------------------------------------
(* infer_tensor_gen: fill t_src on its own domain *)

GenCpu ==
  /\ At("gen") /\ cell.src = "cpu"
  /\ mem' = [mem EXCEPT ![Src] = it]
  /\ Go("in") /\ UNCHANGED <<queue, tokenVars, checkVars>>

GenWgpu ==
  /\ At("gen") /\ cell.src = "wgpu"
  /\ Submit("wgpu", Id("gen", 0), NoFd, it)
  /\ Go("in") /\ UNCHANGED <<mem, tokenVars, checkVars>>

\* the foreign producer polls the consumer's fence for as long as it takes
GenDmabuf ==
  /\ At("gen") /\ cell.src = "dmabuf"
  /\ Signaled(released[Src])
  /\ mem' = [mem EXCEPT ![Src] = it]
  /\ SetReady(Src, NoFd) /\ SetReleased(Src, NoFd)
  /\ fds' = fds - Open(released[Src]) - Open(ready[Src])
  /\ Go("in") /\ UNCHANGED <<queue, checkVars>>

\* wait_released: the fence goes to the GPU, which owns it then, or the host waits
\* for a second and goes on.  gate is what the job will wait for.
HonourReleased(q, t, gate) ==
  /\ \/ q \in fenced /\ gate = released[t]
     \/ /\ released[t] # NoFd /\ (q \notin fenced \/ MayFail)
        /\ WaitOrGiveUp(released[t]) /\ gate = NoFd
     \/ released[t] = NoFd /\ gate = NoFd
  /\ SetReleased(t, NoFd)

\* signal_ready: export a fence behind the job, or finish before going on
SignalReady(q, t, id, next, finish) ==
  IF q \in fenced
  THEN \E f \in {id} \cup (IF MayFail THEN {NoFd} ELSE {}) :
         /\ SetReady(t, f)
         /\ fds' = fds - Open(released[t]) - Open(ready[t]) + Open(f)
         /\ next
  ELSE /\ UNCHANGED ready /\ fds' = fds - Open(released[t])
       /\ Go(finish)

Gates(t) == {NoFd, released[t]}

GenGl ==
  /\ At("gen") /\ cell.src = "gl"
  /\ \E gate \in Gates(Src) :
       /\ HonourReleased("gl", Src, gate)
       /\ Submit("gl", Id("gen", 0), gate, it)
  /\ SignalReady("gl", Src, Id("gen", 0), Go("in"), "finish_gen")
  /\ UNCHANGED <<mem, checkVars>>

\* the same, after the last write's own fence: its command buffer is reused
GenVk ==
  /\ At("gen") /\ cell.src = "vk"
  /\ Idle("vk")
  /\ \E gate \in Gates(Src) :
       /\ HonourReleased("vk", Src, gate)
       /\ Submit("vk", Id("gen", 0), gate, it)
  /\ SignalReady("vk", Src, Id("gen", 0), Go("in"), "finish_gen")
  /\ UNCHANGED <<mem, checkVars>>

\* glFinish, vkWaitForFences: where there are no sync files
Finished(q) == Idle(q)

FinishGen ==
  /\ At("finish_gen") /\ Finished(cell.src)
  /\ SetReady(Src, NoFd) /\ Exchange(ready[Src], NoFd)
  /\ Go("in") /\ UNCHANGED <<queue, mem, released, checkVars>>

Gen == GenCpu \/ GenWgpu \/ GenDmabuf \/ GenGl \/ GenVk \/ FinishGen

------------------------------------------------------------------------------
(* The input edge, t_src to t_in *)

\* identity, mmap: t_in becomes a view of t_src
InView ==
  /\ At("in") /\ HandOver(InEdge)
  /\ Go("run") /\ UNCHANGED <<queue, mem, tokenVars, checkVars>>

\* wgpuQueueWriteBuffer takes its copy of the bytes at once
InWrite ==
  /\ At("in") /\ InEdge = "write_buffer"
  /\ Submit("wgpu", Id("in", 0), NoFd, mem[Src])
  /\ Go("run") /\ UNCHANGED <<mem, tokenVars, checkVars>>

\* what infer_wgpu_import_access lets Dawn wait for
Acquired(f) == f

\* infer_wgpu_import_access: one pass between BeginAccess and EndAccess, gated by a
\* fence; it gives back Dawn's fence, -1 if that is not a sync file
ImportAccess(id, fence, given) ==
  /\ \/ "wgpu" \in fenced /\ Submit("wgpu", id, Acquired(fence), FromMemory)
     \/ /\ "wgpu" \notin fenced /\ WaitOrGiveUp(fence)
        /\ Submit("wgpu", id, NoFd, FromMemory)
  /\ given \in (IF "wgpu" \in fenced THEN {id} ELSE {NoFd}) \cup (IF MayFail THEN {NoFd} ELSE {})

\* dmabuf_to_wgpu: ready gates the pass, its fence becomes released
InImport ==
  /\ At("in") /\ InEdge = "dmabuf_import"
  /\ \E f \in {NoFd, Id("in", 0)} :
       /\ ImportAccess(Id("in", 0), ready[Src], f)
       /\ SetReleased(Src, f) /\ Exchange(released[Src], f)
  /\ Go("run") /\ UNCHANGED <<mem, ready, checkVars>>

\* What a read on the host waits for: the token of a foreign writer, then what the API
\* was given before; in Vulkan only the tensor's own fence (the generator's), unless the
\* memory is device-local and a copy has to be waited for.
ReadbackGl(t) == Signaled(ready[t]) /\ Idle("gl")
ReadbackVk(t) == Signaled(ready[t]) /\ (t = Src => Idle("vk"))
ReadbackWgpu == Idle("wgpu")
ReadbackDmabuf(t) == Signaled(ready[t])

\* infer_tensor_readback
Readback(t, domain) ==
  CASE domain = "cpu"    -> TRUE
    [] domain = "gl"     -> ReadbackGl(t)
    [] domain = "vk"     -> ReadbackVk(t)
    [] domain = "wgpu"   -> ReadbackWgpu
    [] domain = "dmabuf" -> ReadbackDmabuf(t)

\* readback_to_cpu
InReadback ==
  /\ At("in") /\ InEdge = "readback"
  /\ Readback(Src, cell.src)
  /\ mem' = [mem EXCEPT ![In] = mem[Src]]
  /\ Go("run") /\ UNCHANGED <<queue, tokenVars, checkVars>>

\* the token's fence does not signal within two seconds: the cell fails
GiveUp(f) ==
  /\ MayTimeOut /\ ~Signaled(f)
  /\ status' = "failed" /\ Go("release")
  /\ UNCHANGED <<queue, mem, tokenVars, seen, prev, exact>>

InTimeOut == At("in") /\ InEdge = "readback" /\ GiveUp(ready[Src])

------------------------------------------------------------------------------
(* infer_engine_ort_run, after the output hand-overs and the binding *)

RunCpu ==
  /\ At("run") /\ cell.ep = "cpu"
  /\ mem' = [m \in Memory |-> IF \E i \in Outs : m = EngineOut(i) THEN mem[EngineIn] ELSE mem[m]]
  /\ Go(AfterRun) /\ UNCHANGED <<queue, tokenVars, checkVars>>

\* returns when the inference is submitted
RunWebgpu ==
  /\ At("run") /\ cell.ep = "webgpu"
  /\ Submit("wgpu", Id("run", 0), NoFd, FromMemory)
  /\ Go(AfterRun) /\ UNCHANGED <<mem, tokenVars, checkVars>>

------------------------------------------------------------------------------
(* The output edge, t_out[o] to t_dst[o] *)

OutReadback ==
  /\ At("out") /\ OutEdge = "readback"
  /\ ReadbackWgpu
  /\ mem' = [mem EXCEPT ![Dst(o)] = mem[Out(o)]]
  /\ GoOver("out", "ready") /\ UNCHANGED <<queue, tokenVars, checkVars>>

OutWrite ==
  /\ At("out") /\ OutEdge = "write_buffer"
  /\ Submit("wgpu", Id("out", o), NoFd, mem[Out(o)])
  /\ GoOver("out", "ready") /\ UNCHANGED <<mem, tokenVars, checkVars>>

\* wgpu_to_dmabuf: released gates the pass, its fence becomes ready
OutImport ==
  /\ At("out") /\ OutEdge = "dmabuf_write"
  /\ \E f \in {NoFd, Id("out", o)} :
       /\ ImportAccess(Id("out", o), released[Dst(o)], f)
       /\ SetReady(Dst(o), f)
       /\ fds' = fds - Open(released[Dst(o)]) - Open(ready[Dst(o)]) + Open(f)
  /\ SetReleased(Dst(o), NoFd)
  /\ GoOver("out", "ready") /\ UNCHANGED <<mem, checkVars>>

\* infer_gl_upload: the texture takes its copy at once, the blit is a job
OutUploadGl ==
  /\ At("out") /\ OutEdge = "upload" /\ cell.dst = "gl"
  /\ \E gate \in Gates(Dst(o)) :
       /\ HonourReleased("gl", Dst(o), gate)
       /\ Submit("gl", Id("out", o), gate, mem[Out(o)])
  /\ SignalReady("gl", Dst(o), Id("out", o), GoOver("out", "ready"), "finish_out")
  /\ UNCHANGED <<mem, checkVars>>

FinishOut ==
  /\ At("finish_out") /\ Finished(cell.dst)
  /\ SetReady(Dst(o), NoFd) /\ Exchange(ready[Dst(o)], NoFd)
  /\ GoOver("out", "ready") /\ UNCHANGED <<queue, mem, released, checkVars>>

\* infer_vk_upload: through a map, or a copy that is waited for
OutUploadVk ==
  /\ At("out") /\ OutEdge = "upload" /\ cell.dst = "vk"
  /\ WaitOrGiveUp(released[Dst(o)])
  /\ mem' = [mem EXCEPT ![Dst(o)] = mem[Out(o)]]
  /\ SetReady(Dst(o), NoFd) /\ SetReleased(Dst(o), NoFd)
  /\ fds' = fds - Open(released[Dst(o)]) - Open(ready[Dst(o)])
  /\ GoOver("out", "ready") /\ UNCHANGED <<queue, checkVars>>

OutputEdge == OutReadback \/ OutWrite \/ OutImport \/ OutUploadGl \/ FinishOut \/ OutUploadVk

------------------------------------------------------------------------------
(* The consumer *)

\* infer_tensor_wait_ready: nothing for the CPU, the queue for WebGPU, else the token
WaitReady ==
  /\ At("ready")
  /\ CASE cell.dst = "cpu"  -> TRUE
       [] cell.dst = "wgpu" -> Idle("wgpu")
       [] OTHER             -> Signaled(ready[Dst(o)])
  /\ GoOver("ready", "read") /\ UNCHANGED <<queue, mem, tokenVars, checkVars>>

WaitReadyTimeOut ==
  At("ready") /\ cell.dst \in {"gl", "vk", "dmabuf"} /\ GiveUp(ready[Dst(o)])

\* the outputs, one after the other
ReadOutput ==
  /\ At("read")
  /\ Readback(Dst(o), cell.dst)
  /\ seen' = [seen EXCEPT ![o] = mem[Dst(o)]]
  /\ GoOver("read", "check") /\ UNCHANGED <<queue, mem, tokenVars, prev, exact, status>>

NextIteration == it + 1
More == it < Total

\* the first input, read back from where the engine read it
InputCheck ==
  /\ cell.ep = "webgpu" => Idle("wgpu")
  /\ exact' = (mem[EngineIn] = it)

\* the end of an iteration: outputs equal to the last iteration's are stale
Check ==
  /\ At("check")
  /\ IF it = 1 THEN InputCheck ELSE UNCHANGED exact
  /\ status' = IF it > 1 /\ seen = prev THEN "STALE" ELSE status
  /\ prev' = seen
  /\ IF More THEN it' = NextIteration /\ pc' = "gen" ELSE UNCHANGED it /\ pc' = "release"
  /\ UNCHANGED <<o, queue, mem, tokenVars, seen>>

\* A call fails and the cell with it, before or after it has consumed a token: the
\* producer's released, or in wgpu_to_dmabuf both of the consumer's.  A job it may
\* have submitted is left out, nothing is read from then on.
CallFails ==
  /\ MayRefuse /\ pc \notin {"release", "done"} /\ At(pc)
  /\ \/ UNCHANGED tokenVars
     \/ /\ pc = "gen" \/ (pc = "in" /\ InEdge = "dmabuf_import")
        /\ SetReleased(Src, NoFd) /\ Exchange(released[Src], NoFd) /\ UNCHANGED ready
     \/ /\ pc = "out" /\ OutEdge = "dmabuf_write"
        /\ SetReleased(Dst(o), NoFd) /\ SetReady(Dst(o), NoFd)
        /\ fds' = fds - Open(released[Dst(o)]) - Open(ready[Dst(o)])
  /\ status' = "failed" /\ Go("release")
  /\ UNCHANGED <<queue, mem, seen, prev, exact>>

\* tear down the engine, the imports, the tensors with their tokens
ReleaseTensors ==
  /\ At("release")
  /\ "vk" \in {cell.src, cell.dst} => Idle("vk")
  /\ ready' = [t \in Tensors |-> NoFd] /\ released' = [t \in Tensors |-> NoFd]
  /\ fds' = fds - Cardinality({t \in Tensors : ready[t] # NoFd})
                - Cardinality({t \in Tensors : released[t] # NoFd})
  /\ status' = IF status = "running" THEN "ok" ELSE status
  /\ Go("done") /\ UNCHANGED <<queue, mem, seen, prev, exact>>

Calls ==
  \/ Gen
  \/ InView \/ InWrite \/ InImport \/ InReadback
  \/ RunCpu \/ RunWebgpu
  \/ OutputEdge
  \/ WaitReady \/ ReadOutput \/ Check
  \/ ReleaseTensors

Host == Calls \/ InTimeOut \/ WaitReadyTimeOut \/ CallFails

------------------------------------------------------------------------------
(* The GPU executes the oldest job of a queue once its fence has signaled *)

MayRun(q) == queue[q] # <<>> /\ Signaled(Head(queue[q]).wait)

GpuRuns(q) ==
  /\ MayRun(q)
  /\ queue' = [queue EXCEPT ![q] = Tail(@)]
  /\ mem' = [m \in Memory |->
               IF m \in Writes(Head(queue[q])) THEN Contents(Head(queue[q])) ELSE mem[m]]
  /\ UNCHANGED <<cell, fenced, hostVars, tokenVars, checkVars>>

Terminated == pc = "done" /\ InFlight = {} /\ UNCHANGED vars

Next == Host \/ (\E q \in Apis : GpuRuns(q)) \/ Terminated

Spec == Init /\ [][Next]_vars

(***************************************************************************)
(* Fairness: the host makes its next call, or returns from it, once it can *)
(* (no call has to fail or to time out for that), and each GPU executes    *)
(* what may run: one thread, three drivers.                                *)
(***************************************************************************)
FairSpec == Spec /\ WF_vars(Calls) /\ \A q \in Apis : WF_vars(GpuRuns(q))

------------------------------------------------------------------------------
(* Properties *)

Rank(stage) == CASE stage = "gen" -> 1 [] stage = "in" -> 2 [] stage = "run" -> 3 [] stage = "out" -> 4
Earlier(a, b) ==
  \/ a.it < b.it
  \/ a.it = b.it /\ Rank(a.stage) < Rank(b.stage)
Conflict(a, b) ==
  Writes(a) \cap (Reads(b) \cup Writes(b)) # {} \/ Reads(a) \cap Writes(b) # {}

\* Across the APIs' queues, a job never runs before an earlier one that writes what
\* it uses, or reads what it writes: the two tokens are the only order there is.
NoOverrun ==
  \A q \in Apis : MayRun(q) =>
    \A j \in InFlight :
      Earlier(j.id, Head(queue[q]).id) => ~Conflict(j, Head(queue[q]))

\* infer.h, on the token: "-1 = already signaled / nothing to wait for".  A tensor
\* of GL, Vulkan or dma-buf memory whose ready token is -1 is written by no job in
\* flight.
ReadyMeansDone ==
  pc \in {"in", "run", "out", "ready", "read", "check"} =>
    \A t \in Tensors :
      /\ ready[t] = NoFd
      /\ (IF t = Src THEN cell.src ELSE cell.dst) \in {"gl", "vk", "dmabuf"}
      => \A j \in InFlight : t \notin Writes(j)

\* No sync file leaks or is closed twice, whoever owns it in the end: what is open
\* is what the tokens hold.
FdsAccounted ==
  fds = Cardinality({t \in Tensors : ready[t] # NoFd})
        + Cardinality({t \in Tensors : released[t] # NoFd})

\* Whatever the domains and the drivers, the consumer sees the result of each input,
\* once and in order; the cell's own STALE diagnostic never fires.  The first input
\* is in the engine as it was generated (res->input_exact).
Promise == INSTANCE InferPromise WITH input <- it, delivered <- prev
ImplementsPromise == Promise!PromiseSpec /\ []exact

\* Every cell ends: no two queues, and no queue and the host, wait for each other.
CellEnds == <>(pc = "done")

------------------------------------------------------------------------------
(* The inductive invariants behind the theorems of InferCellProofs *)

Ids == [stage : {"gen", "in", "run", "out"}, o : Nat, it : Nat]
Files == Ids \cup {NoFd}
Jobs == [id : Ids, wait : Files, data : Nat]

\* Every variable is in its range.
TypeOK ==
  /\ cell \in AllCells /\ fenced \subseteq Apis
  /\ it \in Nat \ {0} /\ o \in Outs
  /\ queue \in [Apis -> Seq(Jobs)] /\ mem \in [Memory -> Nat]
  /\ ready \in [Tensors -> Files] /\ released \in [Tensors -> Files] /\ fds \in Int

\* What a job may be, and in whose queue.
Placed(q, j) ==
  /\ j.id.stage = "gen" => q = cell.src /\ j.data # FromMemory
  /\ j.id.stage = "run" => cell.ep = "webgpu"
  /\ j.id.stage = "out" => j.id.o \in Outs /\ (OutEdge = "upload" => q = "gl" /\ cell.dst = "gl")

JobsPlaced == \A q \in Apis : \A k \in 1 .. Len(queue[q]) : Placed(q, queue[q][k])

\* Only the upload to GL is finished by the host.
FinishPlace == pc = "finish_out" => OutEdge = "upload" /\ cell.dst = "gl"

\* The token of a foreign tensor stays "nothing to wait for" only between the
\* submission of a job that writes it and the finish that takes its place.
Unfinished(t) ==
  \/ pc = "finish_gen" /\ t = Src
  \/ pc = "finish_out" /\ t = Dst(o)

Foreign(t) == (IF t = Src THEN cell.src ELSE cell.dst) \in {"gl", "vk", "dmabuf"}

QuietWhenReady ==
  pc \notin {"release", "done"} =>
    \A t \in Tensors : ready[t] = NoFd /\ Foreign(t) /\ ~Unfinished(t) =>
      \A q \in Apis : \A k \in 1 .. Len(queue[q]) : t \notin Writes(queue[q][k])
==============================================================================
