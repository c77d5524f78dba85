# TLA+ models of prototype-video-zero-copy-infer

The repository is a set of small Wayland clients that show an animated scene or a
camera through shared memory, GLES or Vulkan, without copying frames where the hardware
allows it, and a benchmark that moves tensors between GPU APIs and an inference engine
in the same way. What is hard in it is who may touch a buffer, and when: the capture
driver, several GPU queues, the presentation engine, the compositor and the CPU hand
buffers to each other with fences, flags, sync files and protocol events. The models
here are about those hand-offs: each module takes one place where buffers (or events)
change hands, with every party a process of its own.

PROJECT.json lists the components, the runs, the source lines of every definition, a
mutation per property, the findings, the hazards and the theorems.

    tlc -config CamStream_safety.cfg MCCamStream.tla     # a run
    tlapm CamStreamProofs.tla                            # the proofs

## 1. Inventory

| Component | State | Operations | Who else moves | Correct when |
|---|---|---|---|---|
| camera stream (`camera/cam_stream.c`, the `cam_draw`s in `scenes/`) | latest, fence per buffer, retiring set, counters | open, pump, retire, rendered, reap, close | capture driver, GPU | the camera never writes a buffer a frame in flight reads; no buffer, fence or frame lost; the driver always gets buffers back |
| V4L2 wrapper (`camera/v4l2_camera.c`) | fd, mapped buffers | open, start, queue, dequeue, map, close | driver, unplugging | every dequeued buffer is queued again |
| effect chain and camera frames (`camera/effect_chain.h`, `scenes/scene_cam_*.c`) | effect mask, scratch images and their layouts, staging buffers, the imported camera images | list of passes, record a frame, ping-pong of scratch images, upload | a GPU that reorders what barriers allow | a frame shows its own picture with its own effects in order; layouts match; buffers go back released |
| frame loop (`common/common.c`) | pending and applied size, running, animating, frame callback | event dispatch, configure handshake, frame callback, close | compositor | one frame loop, which does not stop; the content has the acknowledged size |
| event loop, seat, keyboard, pointer, pinch, clock (`common/common.c`) | the claim on the socket, staged pointer batch, zoom, speed, modifiers, clock | app_run, their listeners | compositor, Mesa reading the same socket, hot-plugging | no event sleeps in a queue; controls are what the user did; pausing and wrapping do not make the clock jump |
| shared-memory presenter (`present/shm_present.c`), dmabuf presenter (`present/gles_present.c`) | slots with a wl_buffer, busy flags, timeline points, orphans | configure (reallocate), redraw, release, fini | compositor, GPU | a slot is redrawn only when the compositor has returned it; orphans die once; a frame is read when it is finished |
| EGLSurface presenter | none of its own: Mesa owns the buffers | | | |
| Vulkan presenter (`present/vk_present.c`) | swapchain, lanes with fence and image_avail, render_done per image, serials | draw_frame, configure, serial_done, recreate, fini | GPU, presentation engine, compositor | lanes and images exclusive, flags clean, serials exact, every frame ends |
| inference tensors and edges (`infer/infer_tensor.c`, `infer_edge.c`, `infer_ctx_*.c`) | memory per domain, descriptors, ready and released sync files, import cache, the negotiated layouts | alloc, gen, convert, wait_ready, readback, release | queues of GL, Vulkan and WebGPU | a consumer sees exactly the current input's result; no file or object leaks; nothing is used after its release |
| inference engine and benchmark (`infer_engine_ort.c`, `hello/hello_inference.c`) | session, bindings, the cell's tensors | bind, run, run_cell's loop, the sweep | WebGPU queue (Run returns before it is done) | every cell ends, no iteration returns the last one's result, a failed cell leaves no more behind than a good one |
| drawing, shaders, colour conversion | none shared | | | pixel arithmetic |
| single-file ancestors (`hello/shm.c`, ...) | as the presenters | | | frozen; their comments are quoted by properties |

How they interact: a scene draws through a presenter, which calls it back from
`redraw` or `draw_frame`; the camera scenes add the camera's descriptor to the event
loop (`aux_fd`), pump when it is readable, and reap at each draw. The fence they give to
`cam_stream_rendered` is an EGLSync or, with Vulkan, the frame serial that
`vk_present_serial_done` answers for. The inference benchmark uses none of these: its
thread calls the tensor library, and three drivers execute what it submits.

The behaviours that are hard are listed as hazards in PROJECT.json, each at its line:
buffers returned one frame early, fences left over from an earlier frame, releases that
arrive after a resize, skipped frames whose callback is never committed, early returns
between a wait and a reset, barriers that leave a stage out, tokens that say "already
signaled" too early, calls that fail half-way through a cell.

## 2. Modules

**CamStream** is `cam_stream.c` over the driver. The application thread runs one C
function at a time, but each ioctl and each fence test is a step: `Dequeue`,
`Supersede` (a newer frame of the same burst), `Retire` and `PumpDone` are
`cam_stream_pump`; `DrawBegin` and `Reap` (one loop iteration, returning the buffer or
not) are `cam_stream_reap`; `DrawCpu`, `DrawEgl`, `DrawSerial` and `DrawStaging` are the
draws with their `cam_stream_rendered`; `Close` is `cam_stream_close`. `mapped` holds the
buffers that `camera_map` has mapped, which it keeps; once the device has gone no other can
be (`Mappable`), and the staging scene, which does not look at the result, is then at
`CrashInDraw`. `Capture`, `Unplug` and `GpuDone` are the driver and the GPU. A fence is the number of submitted frames the GPU still has
to finish before it signals; that is what an EGLSync after a frame's commands and a
frame serial both tell. The constant `Backends` chooses among the CPU scene (NULL
fences), EGL, Vulkan sampling the buffer, and Vulkan with a staging copy.

**CamLease** is what `cam_stream.h` promises, without pump, fences or statistics: a
buffer is lent, read only while on loan, and returned when no read is outstanding.
CamStream implements it (`driver <- queued`, `ready <- filled`, `reading <-` the buffers
that frames in flight read).

**CamChain** is one camera frame, pass by pass. With Vulkan a frame is a list of
commands (`image_barrier`, `draw_fullscreen`, `draw_cube`, copies, the presenter's
depth and window barriers) with their stages; `Before` says which commands must wait
for which, and `Execute` runs any command that is `Ready`, the next frame's included. A
draw is two commands, its fetches and its stores. What an image holds is the history of
its pixels: the number of the picture and the effects since. `ChainInto` is the pass loop of
`cam_record`, `GlesCommands` and `ShmDraw` the same loop in the other scenes, where one
context, or the CPU, keeps the order. `Drivers` and `Imports` decide between
zero copy and the staging path, as `import_dmabufs` does. Which image an acquire gives is
VkPresent's subject; here any image that the compositor has returned, and one that it is
about to return, stands in for it.

**SlotRing** is the event loop of `common.c` with the presenters that own their buffers.
The client's requests take effect at once; events wait in `inbox`, in order, and
`Dispatch` runs one handler per step. `Redraw` is `present_redraw`/`dmabuf_redraw`
(first free slot, attach, `Commit`; or skip), `Reallocate` is `present_configure`/
`dmabuf_configure` with its orphans. Mode "listener" is shared memory and implicit
sync, "explicit" is an acquire and a release point per commit (`SetPoints`): the acquire
point is the frame's fence, or glFinish and a signal from the host where no fence can
be had. A wl_buffer is a slot and a generation number, so that a late release can be
told from a current one; a point is a member of `reached` or `returned` until the next
frame of its slot takes a `NewPoint`.

**AppInput** is `app_run` (prepare_read, flush, poll, read or cancel, dispatch, the
camera's descriptor) with the handlers of the seat, the clock and the small answers
(ping, close). The compositor sends on `wire`; a redraw inside a handler may read the
socket, as Mesa does, and fill the queue. Beside the client's `app` the module keeps
`user`, which the compositor updates as it sends: what the user meant; `batch` is what a
pointer batch that is not yet complete has moved, pressed and scrolled so far. One behaviour
takes its events from one kind of input (`Inputs`).

**VkPresent** is `vk_present.c`'s `draw_frame`, call by call (wait, acquire, reset,
record, submit, present, recreate), with the GPU, the presentation engine and the
compositor behind it as separate parties. An acquire returns an image that may still be
read; its semaphore is "pending" until the release and "signaled" after it.

**InferCell** is `run_cell` over the tensor library. The host makes one library call per
step; GL, Vulkan and WebGPU each execute a queue of jobs in order, a job once the fence
it was submitted with has signaled. Memory holds the number of the input its contents
come from, so a job that runs too early or too late shows in the data. A sync file is
named by the job that signals it. `Mechanism` is the table of `infer_registry_init`;
whether an API can export and import sync files is part of the set-up, because every
edge and generator has another path without them. `Readback` says per domain what a read
on the host waits for.

**InferPromise** is what the consumer is told: inputs go through one at a time, and each
output holds the result of the current input when the tokens have signaled. InferCell
implements it (`input <- it`, `delivered <- prev`), with exact inputs throughout.

**InferAlloc** is the same benchmark seen as an owner of memory: the reference cell, then
further cells, with every allocation, import, bind and call able to fail at any point of
it. A tensor holds a set of driver objects and a descriptor; views
(`View`), the import cache and the engine's wrappers point to objects of other tensors;
`ReleaseOrder` and `Release` are the `out:` label; as in the code, a release gives back all
of a tensor's objects but its descriptor set (`Frees`). `InsertLayout`, `Negotiated` and
`Created` are the choice of a GL tensor's layout from what EGL and Vulkan list.
It shares the table of edges with InferCell but not the queues; each keeps what its
properties tell apart.

The **MC** modules name the sets that the .cfg files give to the constants.
**CamStreamProofs**, **VkPresentProofs**, **SlotRingProofs**, **InferCellProofs**,
**InferAllocProofs**, **CamChainProofs** and **AppInputProofs** hold the theorems about the module in their
name, and **ModularArithmetic** the lemmas about remainders that two of them share. In each of the
models, a short section of "faulty variants" holds plausible wrong versions of its
operators; nothing refers to them, they are there to see each property fail when one of
them takes the operator's place (PROJECT.json, "mutants").

## 3. Runs

| Run | Instance | Distinct states | Shows |
|---|---|---|---|
| cam_safety | 5 buffers, 2 frames in flight, all scenes, sync creation may fail | 9,685,488 | one holder per buffer, no stale fence, no leaked sync object, the statistics add up |
| cam_lease | 3 buffers, fenced scenes | 46,836 | no read is overwritten; implements CamLease; as long as frames are asked for, retiring ends and frames get shown and keep coming |
| chain_frames | 3 scenes, with and without import, 2 lanes, 3 images, 3 frames, 2 pictures | 1,243,379 | every frame shows its picture and effects in order, layouts match, the depth image has one user, buffers go back released |
| chain_early | Vulkan, no pictures | | finding |
| ring_loop | 2 slots, 2 generations, 1 configure on the wire | 168,528 | a free slot is a returned slot, loans end once, what is read is finished, orphans die, one frame loop, the content has the acknowledged size |
| ring_stall | the same, a slow compositor | | finding |
| app_input | one kind of input at a time, up to eight events, two under way | 6,404,087 | controls are what the user did, poll does not sleep on work, the clock is true |
| vk_frames | 2 lanes, 3 images, 2 sizes, 5 frames | about 20,000 | serials exact while recording, lanes and images exclusive, render_done clean, every frame ends |
| vk_avail | 2 frames | | finding |
| infer_cells | all 50 cells, with and without sync files, 2 outputs, 3 inputs, calls may fail or time out | 40,088 | queues respect the order of conflicting jobs, tokens are true, files accounted for, implements InferPromise, every cell ends |
| infer_alloc | the reference and 2 cells of 2 iterations, on every set of drivers | 2,350,051 | nothing is used or freed when gone, a cell leaves nothing behind but what the code loses, GL gets the layout its importers read |
| alloc_close0 | the reference and 1 cell | | finding |

Bounds, and why they are enough. The code asks for 6 capture buffers and accepts 3; with
2 frames in flight the application can hold at most 4 of them, so 5 is the first number
with which the driver always keeps one, and 3 the case in which it can run dry
for a while. The statistics wrap at 2 (2^32 in C): the property compares
them modulo the same number. `NSlots` and `NLanes` are the code's own 2. Two generations
per slot are a buffer and its orphan; while a slot has no free number the compositor of
the model proposes no size. A second resize over an unreleased orphan is therefore not
in the run (three generations have more than 37 million states): it meets the same
handlers, which look at one buffer at a time, and the theorems of section 5 cover it.
Five Vulkan frames use each lane twice and reuse one; in CamChain three frames reuse a
lane, and two pictures are one that replaces the other under a frame in flight. Three
inputs are the first, which runs without tokens, the second,
which meets those of the first, and a third after the tokens have been exchanged; two
outputs tell a per-tensor token from a per-iteration one. In InferAlloc the second cell
after the reference meets what the first has left: the negotiated layouts, and anything
forgotten. In AppInput the pinch input has eight events, enough for a gesture, an
unplugging and another gesture; pointer input has six, which is a batch and an unplugging.
A batch of the next pointer does not fit in after that (`ControlsFollowUserAlways`, section
5, is about any number). Kinds of input are explored one at a time because their handlers
share nothing but the batch's `ptr_event`, which is within one kind. Zoom is counted in exponents and speed in scroll
steps, both with the limits that clamp them; `TimeMod` 4 and `Period` 5 stand for 2^32
and 2048 and are coprime, so that wraps of one are not hidden by the other. `MaxGens`,
`MaxConfigures`, `MaxFrames`, `MaxPics`, `MaxCells`, `MaxFd` and `MaxWire` bound what is
otherwise unbounded; nothing else is cut off.

Fairness. CamStream: the application loop pumps a camera that is readable, a function that
has begun goes on, the GPU finishes what it was given, and the dequeue loop ends because a
camera takes milliseconds per frame and an ioctl microseconds. That draws recur
(`FramesAsked`, strong fairness on `DrawBegin`) is not this code's doing but an assumption
about the compositor: `app_run` draws on a frame callback or a configure only
(`common.c:450`, `:464`). A window that is hidden, or whose frame loop has stalled (finding
1), is outside `RetiringEnds`, `LatestGetsShown`, `DriverFed` and `FramesKeepComing`: buffers
then stay retiring, and the camera may run dry, until a frame is drawn again. Only
`FramesKeepComing` is also helped by a camera that captures. SlotRing: the
client dispatches what it has read; the GPU finishes its frames; the compositor greets a
new window, returns buffers
that it does not show and asks a visible window for frames. FramesGoOn is stated for a
compositor that returns buffers before it asks for the next frame, since that is what the
two-slot ring counts on; the other kind is the finding of ring_stall. VkPresent: the
loop, the GPU, the engine and the compositor run. InferCell: the host makes its next call
if it can and each GPU executes what may run; timeouts and failing calls are possible but
not fair, so `CellEnds` does not lean on them. CamChain, AppInput and InferAlloc are
checked for safety only. Deadlock is checked in every run but app_input's: where a
program has really ended, a stuttering step says so; the client of AppInput stops when
its window is closed, and the compositor has nothing left to send.

## 4. Findings

1. **The ring stalls** (ring_stall, `present/shm_present.c:96`, `gles_present.c:221`). If
   every slot is on loan when a frame is due, the presenter returns without committing,
   and the frame callback just requested is never sent: no further one comes. The
   comment says that the next callback tries again.
2. **A raised flag is handed to acquire** (vk_avail, `present/vk_present.c:451`). A resize
   noticed after a successful acquire abandons image and semaphore; the README says that
   such a flag is always clean. What follows from it is not shown: Vulkan leaves an acquire
   with a signaled or pending semaphore undefined, the model lets it take the flag over
   (`AcquireImage`), and so `NoTear` speaks of what the code does besides.
3. **The transition runs ahead of its wait** (chain_early, `present/vk_present.c:476`). The
   first barrier on the window image has TOP_OF_PIPE as its source stage, the submission
   waits for image_avail at the color stage: nothing keeps the layout transition, a write
   to the image, from running while the compositor reads it. The README says that the
   semaphore orders it after the compositor.
4. **Closing descriptor 0** (alloc_close0, `infer/infer_ctx_gl.c:524`). A GL tensor whose
   allocation fails early is released with its `dmabuf_fd` still 0, which is the
   program's standard input. The benchmark's own comment warns of it, for dma-buf tensors.

Three further limits of the code show when a constant is set to what a run leaves out:

- `cam_stream.c:47` counts as dropped every frame that the CPU scene has shown, since NULL
  means both "read, and finished" and "never read" (`DroppedNeverShown` with `Backends =
  {"cpu"}`).
- `eglCreateSync`'s result is not checked (`scene_cam_gles.c:560`): if it fails, the buffer goes
  back under the GPU's reads (`NoScribble` with `SyncMayFail = TRUE`). It is the
  assumption of the theorems below.
- The dma-buf edges are offered on a WebGPU device that has no sync files
  (`infer_ctx_wgpu.c:420`, `infer_edge.c:270`): the edge out of the engine then leaves
  "already signaled" in the token while its pass is in flight (`ReadyMeansDone` with a set-up
  in which "wgpu" is not in `fenced` and the consumer is a GPU).

Three more are in the runs, and the property each is about says so. The first: the
insertion sort of `negotiate_modifier` (`infer_ctx_gl.c:250`) moves a layout past its
neighbour if both are NVIDIA's. Where EGL lists another vendor's shared layout between
two of NVIDIA's, the two are never compared and the higher one stays first, while the
comment above it says that the one-GOB layout sorts first. Whether a driver lists its
layouts so is up to the driver. One of the lists of infer_alloc is such a list; without
the last clause of `PreferredLayout`, TLC shows a GL tensor with the higher blocks.

The second: `infer_tensor_release` frees and clears `priv` (`infer_tensor.c:393`) before it
calls `infer_vk_release`, which looks there for the descriptor set (`infer_ctx_vk.c:823`).
`vkFreeDescriptorSets` is never reached, while `infer.h:187` says that the set is "freed
with the tensor". Every Vulkan tensor of a cell leaves one behind, in a pool of 32
(`infer_ctx_vk.c:207`). `NothingLeft` lets these sets stay, no more than one per tensor of a
cell (`OneSet`), and nothing else but the images of section 6.

The third: `camera_map` returns NULL when the device has gone before the buffer was first
mapped (`v4l2_camera.h:62`: "NULL on failure"), and the staging path reads from it
(`scene_cam_vk.c:883`), where the CPU scene looks first. The program crashes
(`CrashInDraw`). `LatestGetsShown` leaves out a frame in such a buffer, and `RetiringEnds` a
program that has crashed. Without either exemption TLC shows the crash.

## 5. Proofs

`CamStreamProofs.tla` proves, for every number of buffers and frames in flight, every
set of scenes and every wrap-around of the counters that `CamAssumption` admits:

| Theorem | Also assumes | Argument |
|---|---|---|
| TypeCorrect | | TypeOK is inductive |
| OneHolderAlways, NoStaleFenceAlways | | TypeOK and Holding are inductive |
| NoScribbleAlways | SyncMayFail = FALSE | with Fencing |
| ImplementsLeaseAlways | SyncMayFail = FALSE | each step maps to a step of the lease or a stutter, given Holding and Fencing |
| DroppedNeverShownAlways | SyncMayFail = FALSE, no CPU scene | with Marking |
| SyncsAccountedAlways | | each step replaces, adds or removes one buffer's fence and counts as much (`LivingExchange`) |
| FramesAccountedAlways | | with Holding, and counting of held buffers modulo any width (`ModPlus`, `ModShift`) |

`OneHolder` is not inductive: it says nothing about a closed stream and nothing about
which buffers carry fences, and both matter one step later. *Holding* adds that only
`latest` and retiring buffers carry a fence and that pump's local is set exactly while
pump runs. *Fencing* is the reason why a returned buffer is not read: the fence of a
buffer that the i-th frame in flight reads is at least i, so it cannot signal first. It
needs that sync creation succeeds. *Marking* says that
a held frame has a fence exactly if some draw has read it; it fails in the CPU scene.
The two assumptions of the theorems are thus the first two limits of section 4.

`VkPresentProofs.tla` proves the four safety properties of vk_frames for every number of
lanes, images, sizes and frames:

| Theorem | Argument |
|---|---|
| TypeCorrect | TypeOK, which also says what is in the queue while the GPU renders |
| LaneExclusiveAlways | with *LaneUse*: a fence is down exactly from its reset to the end of its submission, and a lane has at most one submission |
| SerialDoneExactAlways | with *Serials*: a lane keeps the serial of its last submission, so a serial that no lane has was finished when its lane was used again |
| RenderDoneCleanAlways | with *Plates*: an image is submitted only between its acquire and its display, and its render_done is raised in between |
| NoTearAlways | with *Waits*: a submission into an image on display waits for the flag that its release raises, and an image is on display or acquired by one frame only |

None of the four is inductive: each speaks of one moment of draw_frame (recording, a
running submission), and what makes it true was done by an earlier frame of the same lane
or of the same image. The lemmas (`QueueMovesUp`, `QueueGrows`, `PresentedLess`, ...) say
once what appending a submission and finishing the oldest do to the indices.

`SlotRingProofs.tla` proves every safety property of ring_loop from one invariant, for any
number of slots, of wl_buffer numbers per slot and of configures on the wire, and for both
ways of learning about a release. `RingInv` has six parts, and each is there for a step that
would break the others:

| Part | Says | Needed for |
|---|---|---|
| TypeOK | types; an event on the wire names a wl_buffer that may exist | all |
| Callbacks | before the first configure no callback, then one: requested, armed or on the wire | OneCallbackAlways; a frame event is never handled twice |
| Slotted | the ring is there from the first configure on, all of the acknowledged size | ContentMatchesAckAlways, and the redraw of a frame |
| Loans | busy exactly while held, released on the wire or returned by a point; whatever else is alive is a held orphan | FreeMeansReturnedAlways, LoanEndsOnceAlways, NoBufferLeakAlways, NeverDestroyHeldAlways |
| Points | a point that has been reached means that the GPU is not drawing; points only of buffers in a slot | DrawnWhenAcquiredAlways, with explicit sync |
| Room | for each configure on the wire every slot has an unused wl_buffer number | a reallocation can happen when its turn comes |

None of the properties is inductive. A release that crosses a resize on the wire frees
nothing only because Loans says that its buffer is an orphan by then; that the
reallocation leaves no slot half-made needs Slotted and Room. The second resize over an
unreleased orphan, which is outside the bounds of ring_loop, is covered here.

`InferCellProofs.tla` is about any number of outputs and iterations and all set-ups:

| Theorem | Also assumes | Argument |
|---|---|---|
| TypeInvAlways | | types, which job may be in which API's queue (*JobsPlaced*), and where the host finishes an upload (*FinishPlace*) |
| FdsAccountedAlways | | every operation on tokens is an exchange of one file (`Exchanged`, `Held`); failing, refused and timed-out calls are included |
| ReadyMeansDoneAlways | FencesWork | with *QuietWhenReady*: the token of a tensor that a job writes is -1 only between the submission and the finish that takes its place |
| NoOverrunAlways | FencesWork, HostWaits | *OrderInv*: each queue keeps the order of its submissions, and an import and a generator of the producer's tensor that are both in flight are ordered by the token of the earlier one |
| ImplementsPromiseAlways | FencesWork, HostWaits | *DataInv*: what a stage is to leave in a memory is there, or a job in flight will write it and none of a later input comes before its reader; a step maps to the promise's delivery exactly at the end of an iteration |

`NoOverrun` compares two jobs in flight and `ImplementsPromise` the data they have left; the
invariant of both, `CellInv`, must say why the host may submit the next job at all. While the
host has the tokens (`ReadyHeld`, `ReleasedHeld`), a token that stands for a job in flight
names that job; when they are handed to the next job, its `wait` does (`InTurn`). A consumer
that is the host or WebGPU itself finishes the queue instead (`ConsumerIdle`). `Due(m, n)`
says that memory m holds input n's result once the jobs in flight up to n have run: the
readers in flight rely on it (`ReadersDue`), and so do the calls the host has yet to make
(`HostDue`).

`FencesWork` says that no single fence export fails (`MayFail`) and that WebGPU has sync
files unless nothing depends on them (the engine on the CPU, or a consumer that is the host
or WebGPU itself). Without its second part the property fails: the third limit of section 4. `HostWaits` says
that the waits whose result the code ignores do not run out (`MayGiveUp`, section 6); without
it the consumer is shown an old result. The waits whose result is checked may time out, and
any call may be refused.

`InferAllocProofs.tla` is about any number of cells and iterations, any capabilities, any
answers of the drivers and whichever calls fail. **MemoryIsLiveAlways** follows from the
invariant `AllocInv`:

| Part | Says | Needed for |
|---|---|---|
| Owners | `src` and `dst` have objects of their own only; `in` and `out` their own, or as views those of `src` and `dst` | a release takes no other tensor's memory unless that tensor is a view |
| Progress | which tensors have their memory at each point of `run_cell` | a view, a binding or an import is never made of an empty tensor |
| Releasing | the engine and the imports go first, and of the releases still to come those of the views precede those of what they view | nothing outlives its memory |
| Edges | the cell's two edges exist (`infer_registry_probe`) | no step of a cell is without its mechanism |

**NothingLeftAlways** says the converse: what a cell has made, it releases, but for the two
things that the code loses. `NothingLeft`
speaks of the end of a cell only; `LeftInv` accounts for every object and descriptor while
the cell is under way:

| Part | Says | Needed for |
|---|---|---|
| Accounted | a live object is a tensor's, an import's, or one of the two that the code loses: the image or alias without memory that a failed Vulkan allocation has left, and the descriptor set of a tensor that has been released | no allocation, import or release forgets another |
| Sets | a tensor of a cell has one descriptor set at most, and an image that has a set has its memory | a set without its tensor is the only one of that tensor; a release that leaves a set has freed the image |
| Descriptors | an open descriptor is standard input or the one that its tensor's release closes; no two tensors have the same | a descriptor is closed once, and a new one is nobody else's |
| ViewsOnly | a tensor is made a view before it owns anything | a view displaces no object |
| Cleared | what has been released is blank | at the end of a cell nothing is held, so by Accounted nothing lives |
| ImagesOnly | a Vulkan tensor without memory has at most its image and alias | what its release forgets, but for the set, is what section 6 exempts |

`NothingLeft` needs a descriptor for each of the four tensors beside standard input (`MaxFd >= 4` in
`AllocAssumption`): with fewer, `Lowest` would have none to give. That is about the model's
bound; a call that fails for want of descriptors is one of the failures of every allocation.

**PreferredLayoutAlways** is about every list that EGL may give, of any length and order.
`Merged` is what `negotiate_modifier` keeps true while it takes in one layout after the other:

| Part | Says | Needed for |
|---|---|---|
| Holds | the list has exactly the shared layouts of those taken in | a layout is found if one fits |
| Ordered | an NVIDIA layout stands before one with lower blocks only if another vendor's is between them | `create_bo` takes the first that fits |
| Precedes, Separates | what stands before or behind another vendor's layout was listed before or after it | then EGL listed another vendor's between the two |

One round keeps `Merged` (`MergedInsert`, `MergedLonger`); from there to the whole list it is
not induction over the list, which is out of the prover's reach, but the least number
principle (`LeastOf`, from the well-foundedness of `<`): if some round broke `Merged`, there
would be a first. The same argument shows that the recursive function in `Negotiated` exists
(`RoundsExist`). `LayoutInv` carries the result through the cells: the list is
negotiated once, no view is a GL tensor, and a tensor keeps the layout it was made with.

`CamChainProofs.tla` is about any number of buffers, lanes, window images, pictures and
frames, any sequence of looks, and every order in which the GPU may execute what is
submitted. It gives every command ever recorded a name (frame, stage, step) and shows once
what the recording is: `RecordsVk` and `RecordsGles` say that `FrameCommands` and
`GlesCommands` are the commands of the frame's names, in their order. From there on the
proofs speak of names, and no longer of sequences.

| Theorem | Argument |
|---|---|
| LayoutsMatchAlways | with *LayoutInv*: an image has the layout that the next command on it needs once no barrier on it is left before that command, and every such command has a barrier of its own frame (`Given`); the upload image's first barrier takes over what an earlier frame left (*UploadInv*) |
| DepthIsOwnAlways | with *DepthInv*: once the clear of a draw is done and until its last test, the depth image holds that draw |
| BackWithCameraAlways | with *CamInv*: an image that is not with the camera has a release barrier left, of a frame that has not ended |
| ShownIsChainAlways | with *DataInv*, below: what a command left to execute is to read is there once the command that gives it has been executed |

All four rest on *QueueInv*: the queue is what is left of the program, in its order,
and what is left is closed: a command that must come after one that is left (`Must`) is left
too. The lemma `InTurn` draws from the recorded barriers alone that two commands on one
image, unless both fetch, are executed in the order of their names, however far apart their
frames are: a scratch image is handed over by the barriers of its two neighbouring passes,
the depth and upload images by the next frame's first barrier, and a window image belongs to
one unfinished frame (*WinInv*). The names are existentially quantified in the invariant:
they are no part of the model's state, so TLC checks the properties and not the invariant.

`ShownIsChain` speaks of one moment, the end of a frame, and of the window's image at that
moment; what is there then went through every pass of the frame, while other frames used the
same images. The invariant `DataInv` says what that takes at any time:

| Part | Says | Needed for |
|---|---|---|
| MemInv | every command left that reads an image has a `Giver`, an earlier command of its frame; if that has been executed, the image holds the `Value` that the command is to read | a pass reads its predecessor's result, and the end of the frame the last one's |
| ValInv | a store whose fetch has been executed carries the history that its effect completes, and an end the picture it is to show | what a store leaves is what the next command is to read |
| Promised | the picture that a frame is to show, with its effects in the documented order (`Wanted`), is what its passes make one after another (`Hist`) | the end of the frame |

A content stays because nothing writes to its image between giver and reader: no command of
the frame itself (`NotBetween`: the two scratch images take turns), and none of another frame
(`NotOver`: by `InTurn` it would be executed before the giver or after the reader). Three
facts do not come from the GPU's order. The window image of a frame that has not ended is
its own (*WinInv*). The staging buffer of a lane is free when the host fills it
(`LaneFree`: the last frame of that lane is `NLanes` frames back, and frames end in turn, so
were it in flight, there would be no room for another). The camera fills no buffer that a
frame in flight still reads (`DataInvCamera`). The CPU scene executes nothing on a GPU; its
passes are run through one by one (`ShmDrawn`).

`AppInputProofs.tla` is about any events in any order, any bound on what is under way, any
range of the timestamps, period, speed and zoom limit:

| Theorem | Also assumes | Argument |
|---|---|---|
| WaitsIdleAlways | | with *ClaimedEmpty*: the queue was empty when the socket was claimed, and nothing that may run until the read fills it |
| ClockTrueAlways | | with *ClockInv*: at most one frame callback is asked for, known or under way (*OneFrame*), its time is not before the last frame's and less than `TimeMod` after it (*Plausible*, *Times*), and `last_time` is that last frame's; then `ModDifference` and `AnimTimeMod` (the corrected fmod is a remainder) |
| ControlsFollowUserAlways | SplitBatches = FALSE | with *UserInv*, below |

`ControlsFollowUser` says something only when nothing is under way. What holds at other
times is that the handlers, run over all that is under way, would end in the user's
controls. `UserInv` says so without a fold: there is a sequence of states, one for each
event of the pipe (`Trace`, each the `After` of the one before), that begins with struct app
as it is and ends in one that `Mirrors` the user, his unfinished batch (`StagedIs`), keymap
and modifiers (`KeymapIs`) and pinch included. Sending an event makes the sequence longer
by one state (`TraceAppend`), for which one lemma per kind of event shows that the handler
will do what the user meant; handling one takes the first state away (`TraceTail`); reading
the socket, in the loop or in a redraw, changes nothing. So no induction over the events is
needed. The assumption is the one on the compositor in section 6: `on_seat_capabilities`
leaves a half-staged batch where it is (`common.c:393`), and with `SplitBatches = TRUE` the
property fails.

`ModularArithmetic.tla` proves the facts about `%` from the uniqueness of quotient and
remainder; the backends know none of them for a modulus that is a constant.

Every invariant that a passing run checks is thus also a theorem, some under the
assumptions their tables name. Model-checked only is every liveness property: the proof
system's backends do not do liveness under fairness or ENABLED, nor do they instantiate an
induction theorem with an operator, nor unfold RECURSIVE definitions; no module uses the latter.

## 6. What is abstracted or left out

- Pixels, formats, strides and geometry; a window has one number for its size, a frame
  its buffer, a tensor the number of its input, an effect its name.
- Start-up that either succeeds or ends the program: device and format negotiation
  (`camera_open`), globals, cursor and decoration, swapchain and pipeline creation,
  bringing up the drivers (`infer_ctx_*_init`), engine sessions, the import of the camera's
  buffers in the GLES scene (it exits where the Vulkan scene falls back).
- Errors after which the program exits at once (most VK_CHECKs and failing mallocs). In
  InferCell and InferAlloc a failing call ends the cell and not the program: it is an
  action, or an outcome of one.
- Cache maintenance and implicit sync of dma-bufs. Leaving implicit sync out allows
  more behaviours, never fewer. Memory caches inside a GPU: CamChain models execution
  and layouts, and takes a barrier's access masks to be what its stages need.
- `infer_wait_sync_fd` with a second's timeout and the result ignored
  (`infer_ctx_wgpu.c:469`, `infer_ctx_gl.c:387`): `MayGiveUp` is FALSE in the runs. Set to
  TRUE, TLC shows an input overrun, under a driver that is slower than a second.
  `MayFail`, the failure of a single fence export, is FALSE likewise; it has the effect of
  the third limit in section 4.
- In InferAlloc, VK objects that a failing allocation leaves behind before it has memory
  (`infer_ctx_vk.c:424`, released only if there is memory, `:822`) are exempt from
  `NothingLeft`, as are descriptor sets (section 4): the property says so. The uniform
  buffer and bind group of the WebGPU generator, made once at the first `gen`, are made
  with the tensor.
- `camera_map` fails in CamStream when the device has gone and the buffer was never mapped;
  an mmap that fails with the device present is left out.
- An acquire in VkPresent takes over a flag that is still raised or pending (finding 2).
- In AppInput: a compositor closes a batch and a gesture before it takes the pointer away
  (`SplitBatches` = TRUE shows the staged event going to the next pointer) and has one
  button event per batch; it waits for the answer to a change of capabilities; two frames
  are less than 2^32 ms apart; requests are flushed by the loop and the socket takes them
  (`wl_display_flush`'s EAGAIN is ignored by the code). After a frame at time 0 modulo
  2^32 the code takes the next frame for the first: `ClockTrue` says so. Seats older than
  version 5, which send no `frame` event, are left out.
- A camera picture drawn by two frames in flight is acquired and released by both without
  order between them (`scene_cam_vk.c:870`, `:1013`); `LayoutsMatch` leaves the camera's images
  out for that reason and `TransitionsInTurn` fails on them too.
- The image layout arithmetic of `infer_desc_set_image` and the strides and offsets of
  planes: pure integer arithmetic without a second actor, bounded by the tensor sizes of
  the models.
- The EGLSurface mode (Mesa owns the buffers), the single-file ancestors (frozen; the
  presenters they became are modelled), drawing.
- A composition of CamStream's Vulkan scene with VkPresent's serials: CamStream's fences
  count frames the GPU has to finish, and `SerialDoneExact`, which is proved, says that
  `vk_present_serial_done` answers just that. The two meet in that one predicate, and a
  product of both modules would check nothing else.
