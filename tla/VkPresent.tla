------------------------------ MODULE VkPresent ------------------------------
(***************************************************************************)
(* present/vk_present.c: frames in lanes, swapchain images ("plates"), and *)
(* the three hand-offs between CPU, GPU and presentation engine:           *)
(*                                                                         *)
(*   in_flight    per lane   GPU -> CPU: the frame is finished             *)
(*   image_avail  per lane   engine -> GPU: the image may be written       *)
(*   render_done  per image  GPU -> engine: the image may be shown         *)
(*                                                                         *)
(* The CPU executes vk_present_run and draw_frame step by step; the GPU    *)
(* executes submissions in order; the presentation engine and the          *)
(* compositor behind it show the presented images and release them.        *)
(***************************************************************************)
EXTENDS Integers, Sequences, FiniteSets

CONSTANTS
  NLanes,     \* VK_PRESENT_LANES
  NImages,    \* the images the swapchain has got
  Sizes,      \* window sizes
  MaxFrames   \* bound: frames submitted

ASSUME VkAssumption ==
  /\ NLanes \in Nat \ {0} /\ NImages \in Nat \ {0}
  /\ Sizes # {} /\ MaxFrames \in Nat

Lanes == 0 .. NLanes - 1
Images == 1 .. NImages
NoImage == 0

VARIABLES
  size,          \* a->width and a->height: the last configure
  extent,        \* the swapchain's
  resized,       \* the swapchain is stale
  pc,            \* "loop", then the next call of draw_frame, or "gone"
  lane, img,     \* p->lane; the image acquired
  frame_serial, lane_serial,
  in_flight,     \* per lane: is the fence signaled?
  image_avail,   \* per lane: "clean", "pending" a release, or "signaled"
  waitsFor,      \* per lane: the image whose release signals image_avail
  render_done,   \* per image: "clean" or "signaled"
  queue,         \* submissions the GPU has not finished
  rendering,     \* the GPU has begun the first of them
  ours,          \* images acquired and not presented
  presents,      \* images presented, waiting for render_done, oldest first
  reading        \* images the compositor shows or scans out

windowVars == <<size, extent, resized>>
frameVars  == <<lane, img, frame_serial, lane_serial>>
flagVars   == <<in_flight, image_avail, waitsFor, render_done>>
gpuVars    == <<queue, rendering>>
engineVars == <<ours, presents, reading>>
vars == <<windowVars, pc, frameVars, flagVars, gpuVars, engineVars>>

------------------------------------------------------------------------------
(* Helpers *)

Presented == {presents[i] : i \in 1 .. Len(presents)}
Submitted(s) == \E i \in 1 .. Len(queue) : queue[i].serial = s
OnLane(l) == \E i \in 1 .. Len(queue) : queue[i].lane = l

\* vk_present_serial_done
SerialDone(s) ==
  /\ s > 0 /\ s <= frame_serial
  /\ IF \E l \in Lanes : lane_serial[l] = s
     THEN \E l \in Lanes : lane_serial[l] = s /\ in_flight[l]
     ELSE TRUE    \* the lane was reused, after waiting for its fence

------------------------------------------------------------------------------
(* Faulty variants of the operators below *)

GateOpen(l) == TRUE                        \* vkWaitForFences is missing
StartAnyTime(l) == TRUE                    \* no semaphore to wait for at submit
FlagOfLane(l, i) == l + 1                  \* render_done per lane
ResetNothing == in_flight                  \* vkResetFences is missing
KeepOrReset == [in_flight EXCEPT ![lane] = FALSE]   \* reset before acquire

------------------------------------------------------------------------------
(* vk_present_init: configured, swapchain created, fences born signaled *)

Init ==
  /\ size \in Sizes /\ extent = size /\ resized = FALSE
  /\ pc = "loop" /\ lane = 0 /\ img = NoImage
  /\ frame_serial = 0 /\ lane_serial = [l \in Lanes |-> 0]
  /\ in_flight = [l \in Lanes |-> TRUE]
  /\ image_avail = [l \in Lanes |-> "clean"]
  /\ waitsFor = [l \in Lanes |-> NoImage]
  /\ render_done = [i \in Images |-> "clean"]
  /\ queue = <<>> /\ rendering = FALSE
  /\ ours = {} /\ presents = <<>> /\ reading = {}

------------------------------------------------------------------------------
(* vk_present_run *)

\* wl_display_dispatch_pending delivers a configure: present_configure
Configure(s) ==
  /\ pc = "loop"
  /\ size' = s
  /\ resized' = (resized \/ s # extent)
  /\ UNCHANGED <<extent, pc, frameVars, flagVars, gpuVars, engineVars>>

DrawFrame ==
  /\ pc = "loop" /\ frame_serial < MaxFrames
  /\ pc' = "wait"
  /\ UNCHANGED <<windowVars, frameVars, flagVars, gpuVars, engineVars>>

\* running = 0; vk_present_fini waits until the device is idle
Quit ==
  /\ pc = "loop" /\ queue = <<>>
  /\ pc' = "gone"
  /\ UNCHANGED <<windowVars, frameVars, flagVars, gpuVars, engineVars>>

Terminated == pc = "gone" /\ UNCHANGED vars

------------------------------------------------------------------------------
(* draw_frame *)

GateReady(l) == in_flight[l]

WaitForFence ==
  /\ pc = "wait" /\ GateReady(lane)
  /\ pc' = "acquire"
  /\ UNCHANGED <<windowVars, frameVars, flagVars, gpuVars, engineVars>>

\* what the early return leaves of the fences
OnEarlyReturn == in_flight

Stale == resized

\* VK_SUCCESS or VK_SUBOPTIMAL_KHR: an image the engine has processed; if the
\* compositor still reads it, image_avail is signaled by its release.  If a resize
\* is pending, the image is not used, and the lane keeps its turn.  Its next acquire finds
\* image_avail raised, or still to be raised: Vulkan leaves open what comes of that, and
\* here the newer acquire takes the flag over as if the older one had not been.
AcquireImage(i) ==
  /\ pc = "acquire"
  /\ i \notin ours \cup Presented
  /\ img' = i /\ ours' = ours \cup {i}
  /\ image_avail' = [image_avail EXCEPT ![lane] = IF i \in reading THEN "pending" ELSE "signaled"]
  /\ waitsFor' = [waitsFor EXCEPT ![lane] = IF i \in reading THEN i ELSE NoImage]
  /\ pc' = IF Stale THEN "recreate" ELSE "reset"
  /\ in_flight' = IF Stale THEN OnEarlyReturn ELSE in_flight
  /\ UNCHANGED <<windowVars, lane, frame_serial, lane_serial, render_done, gpuVars,
                 presents, reading>>

AcquireOutOfDate ==
  /\ pc = "acquire"
  /\ pc' = "recreate" /\ in_flight' = OnEarlyReturn
  /\ UNCHANGED <<windowVars, frameVars, image_avail, waitsFor, render_done, gpuVars,
                 engineVars>>

ResetFence == [in_flight EXCEPT ![lane] = FALSE]

\* vkResetFences, and the serials, before the scene records
ResetAndNumber ==
  /\ pc = "reset"
  /\ in_flight' = ResetFence
  /\ frame_serial' = frame_serial + 1
  /\ lane_serial' = [lane_serial EXCEPT ![lane] = frame_serial + 1]
  /\ pc' = "record"
  /\ UNCHANGED <<windowVars, lane, img, image_avail, waitsFor, render_done, gpuVars,
                 engineVars>>

\* scene->record ran; vkQueueSubmit, waiting for image_avail
Submit ==
  /\ pc = "record"
  /\ queue' = Append(queue, [lane |-> lane, img |-> img, serial |-> frame_serial])
  /\ pc' = "present"
  /\ UNCHANGED <<windowVars, frameVars, flagVars, rendering, engineVars>>

NextLane(l) == (l + 1) % NLanes

\* vkQueuePresentKHR; the result may ask for a new swapchain
Present ==
  /\ pc = "present"
  /\ ours' = ours \ {img} /\ presents' = Append(presents, img)
  /\ lane' = NextLane(lane)
  /\ \/ pc' = "recreate"          \* OUT_OF_DATE, SUBOPTIMAL
     \/ pc' = "loop" /\ ~resized  \* SUCCESS
  /\ UNCHANGED <<windowVars, img, frame_serial, lane_serial, flagVars, gpuVars, reading>>

\* recreate_swapchain: wait for the device, new images and new flags for them; the
\* old images drain through the engine.  image_avail belongs to the lanes and stays
\* as it is: the release of an old image still signals it.
RecreateSwapchain ==
  /\ pc = "recreate" /\ queue = <<>>
  /\ extent' = size /\ resized' = FALSE
  /\ ours' = {} /\ presents' = <<>> /\ reading' = {}
  /\ render_done' = [i \in Images |-> "clean"]
  /\ waitsFor' = [l \in Lanes |-> NoImage]
  /\ pc' = "loop"
  /\ UNCHANGED <<size, frameVars, in_flight, image_avail, gpuVars>>

------------------------------------------------------------------------------
(* The GPU, the presentation engine and the compositor *)

MayStart(l) == image_avail[l] = "signaled"

\* the wait on image_avail is satisfied, and lowers it
GpuStart ==
  /\ queue # <<>> /\ ~rendering
  /\ MayStart(Head(queue).lane)
  /\ image_avail' = [image_avail EXCEPT ![Head(queue).lane] = "clean"]
  /\ rendering' = TRUE
  /\ UNCHANGED <<windowVars, pc, frameVars, in_flight, waitsFor, render_done, queue,
                 engineVars>>

\* pSignalSemaphores of the submit, pWaitSemaphores of the present
FlagOf(l, i) == i

GpuFinish ==
  /\ rendering
  /\ rendering' = FALSE /\ queue' = Tail(queue)
  /\ in_flight' = [in_flight EXCEPT ![Head(queue).lane] = TRUE]
  /\ render_done' = [render_done EXCEPT ![FlagOf(Head(queue).lane, Head(queue).img)] = "signaled"]
  /\ UNCHANGED <<windowVars, pc, frameVars, image_avail, waitsFor, engineVars>>

\* the engine consumes render_done and hands the image to the compositor
Show ==
  /\ presents # <<>> /\ render_done[Head(presents)] = "signaled"
  /\ render_done' = [render_done EXCEPT ![Head(presents)] = "clean"]
  /\ presents' = Tail(presents)
  /\ reading' = reading \cup {Head(presents)}
  /\ UNCHANGED <<windowVars, pc, frameVars, in_flight, image_avail, waitsFor, gpuVars, ours>>

\* the compositor releases an image; an acquire linked to it is signaled
Release(i) ==
  /\ i \in reading
  /\ reading' = reading \ {i}
  /\ image_avail' = [l \in Lanes |-> IF image_avail[l] = "pending" /\ waitsFor[l] = i
                                     THEN "signaled" ELSE image_avail[l]]
  /\ waitsFor' = [l \in Lanes |-> IF waitsFor[l] = i THEN NoImage ELSE waitsFor[l]]
  /\ UNCHANGED <<windowVars, pc, frameVars, in_flight, render_done, gpuVars, ours, presents>>

\* the same for an image of a swapchain that has been replaced
ReleaseOld(l) ==
  /\ image_avail[l] = "pending" /\ waitsFor[l] = NoImage
  /\ image_avail' = [image_avail EXCEPT ![l] = "signaled"]
  /\ UNCHANGED <<windowVars, pc, frameVars, in_flight, waitsFor, render_done, gpuVars,
                 engineVars>>

------------------------------------------------------------------------------
Acquire == (\E i \in Images : AcquireImage(i)) \/ AcquireOutOfDate
Frame == WaitForFence \/ Acquire \/ ResetAndNumber \/ Submit \/ Present \/ RecreateSwapchain

Next ==
  \/ \E s \in Sizes : Configure(s)
  \/ DrawFrame \/ Frame \/ Quit \/ Terminated
  \/ GpuStart \/ GpuFinish \/ Show
  \/ \E i \in Images : Release(i)
  \/ \E l \in Lanes : ReleaseOld(l)

Spec == Init /\ [][Next]_vars

(***************************************************************************)
(* Fairness: draw_frame runs; the GPU executes what may start; the engine  *)
(* shows what is ready; the compositor releases what it has shown.         *)
(***************************************************************************)
FairSpec ==
  /\ Spec
  /\ WF_vars(Frame) /\ WF_vars(GpuStart) /\ WF_vars(GpuFinish) /\ WF_vars(Show)
  /\ \A i \in Images : WF_vars(Release(i))
  /\ \A l \in Lanes : WF_vars(ReleaseOld(l))

------------------------------------------------------------------------------
(* Properties *)

Submissions == [lane : Lanes, img : Images, serial : 1 .. MaxFrames]

\* Every variable stays in its range; what a step of draw_frame uses is there.
TypeOK ==
  /\ size \in Sizes /\ extent \in Sizes /\ resized \in BOOLEAN
  /\ pc \in {"loop", "wait", "acquire", "reset", "record", "present", "recreate", "gone"}
  /\ lane \in Lanes /\ img \in Images \cup {NoImage}
  /\ frame_serial \in 0 .. MaxFrames
  /\ pc \in {"wait", "acquire", "reset"} => frame_serial < MaxFrames
  /\ pc \in {"reset", "record", "present"} => img # NoImage
  /\ pc = "record" => frame_serial # 0
  /\ lane_serial \in [Lanes -> 0 .. MaxFrames]
  /\ in_flight \in [Lanes -> BOOLEAN]
  /\ image_avail \in [Lanes -> {"clean", "pending", "signaled"}]
  /\ waitsFor \in [Lanes -> Images \cup {NoImage}]
  /\ render_done \in [Images -> {"clean", "signaled"}]
  /\ queue \in Seq(Submissions)
  /\ rendering \in BOOLEAN /\ (rendering => queue # <<>>)
  /\ ours \subseteq Images /\ presents \in Seq(Images) /\ reading \subseteq Images

\* While the scene records, and asks, vk_present_serial_done is exact: a serial is
\* done if and only if the GPU has finished that frame; the frame being recorded
\* is not.  On this the camera's buffers rely.
SerialDoneExact ==
  pc = "record" =>
    \A s \in 1 .. frame_serial : SerialDone(s) <=> (s # frame_serial /\ ~Submitted(s))

\* README, "Two lanes, four plates": the fence guarantees one frame per lane at a
\* time.  The lane's command buffer and staging buffer are written only while no
\* submission of that lane is unfinished.
LaneExclusive == pc \in {"acquire", "reset", "record"} => ~OnLane(lane)

\* The GPU never writes an image that the compositor is reading.
NoTear == rendering => Head(queue).img \notin reading

\* render_done is raised only after the present of the image's previous frame has
\* lowered it: what a flag per image, and not per lane, is for.
RenderDoneClean ==
  \A i \in 1 .. Len(queue) :
    /\ render_done[queue[i].img] = "clean"
    /\ \A j \in 1 .. Len(queue) : queue[i].img = queue[j].img => i = j

\* What makes the safety properties above inductive; proved in VkPresentProofs.
\* LaneUse: a fence is down exactly from its reset to the end of its submission,
\* and a lane has one submission at most.
LaneUse ==
  /\ \A k \in 1 .. Len(queue) : ~in_flight[queue[k].lane]
  /\ \A j, k \in 1 .. Len(queue) : queue[j].lane = queue[k].lane => j = k
  /\ pc \in {"acquire", "reset"} => in_flight[lane]
  /\ pc = "record" => ~in_flight[lane] /\ \A k \in 1 .. Len(queue) : queue[k].lane # lane
  /\ \A l \in Lanes : in_flight[l] \/ OnLane(l) \/ (pc = "record" /\ l = lane)

\* Serials: a lane keeps the serial of its last submission, no two lanes the same.
Serials ==
  /\ \A k \in 1 .. Len(queue) : queue[k].serial = lane_serial[queue[k].lane]
  /\ \A l \in Lanes : lane_serial[l] <= frame_serial
  /\ \A l, m \in Lanes : lane_serial[l] = lane_serial[m] => l = m \/ lane_serial[l] = 0
  /\ pc = "record" => lane_serial[lane] = frame_serial

\* Plates: an image is submitted only between its acquire and its display, and its
\* render_done is raised only after that submission and before the display.
UnderWay == Presented \cup (IF pc = "present" THEN {img} ELSE {})
Plates ==
  /\ \A k \in 1 .. Len(queue) :
       render_done[queue[k].img] = "clean" /\ queue[k].img \in UnderWay
  /\ \A j, k \in 1 .. Len(queue) : queue[j].img = queue[k].img => j = k
  /\ \A i \in Images : render_done[i] = "signaled" => i \in UnderWay
  /\ \A j, k \in 1 .. Len(presents) : presents[j] = presents[k] => j = k
  /\ ours \cap Presented = {}
  /\ pc \in {"reset", "record", "present"} => img \in ours

\* Waits: a lane that is to draw into an image on display waits for its release.
WaitsForRelease(l, i) == i \in reading => image_avail[l] = "pending" /\ waitsFor[l] = i
Waits ==
  /\ \A k \in 1 .. Len(queue) : WaitsForRelease(queue[k].lane, queue[k].img)
  /\ pc \in {"reset", "record"} => WaitsForRelease(lane, img)
  /\ rendering => Head(queue).img \notin reading

\* A frame that has been begun ends, however often the swapchain is found stale: no
\* early return leaves a fence that nobody will signal, or a flag nobody raises.
FrameEnds == (pc = "wait") ~> (pc = "loop")

\* README, "Two lanes, four plates": "a flag handed to acquire is always clean".
AvailClean == pc = "acquire" => image_avail[lane] = "clean"
==============================================================================
