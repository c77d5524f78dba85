------------------------------ MODULE CamStream ------------------------------
(***************************************************************************)
(* camera/cam_stream.c on top of camera/v4l2_camera.c: frame pacing and    *)
(* buffer lifetime of the camera scenes.                                   *)
(*                                                                         *)
(* Three parties share NBuf capture buffers: the driver (it DMA-writes a   *)
(* buffer it has been given, at any time), the application thread (pump,   *)
(* reap, draw; one C function at a time, but each camera ioctl and each    *)
(* fence test is a step of its own, so the other two move in between) and  *)
(* the GPU (it executes the submitted frames in order, reading the buffer  *)
(* each of them samples).                                                  *)
(*                                                                         *)
(* A fence is modelled by the number of submitted frames the GPU still has *)
(* to finish before it signals: 0 is a signaled fence, NoFence the NULL    *)
(* pointer.  This is what an EGLSync created after a frame's commands, and *)
(* a frame serial compared with the lanes' VkFences, both answer.          *)
(***************************************************************************)
EXTENDS Integers, Sequences, FiniteSets

CONSTANTS
  NBuf,         \* buffers the driver granted (camera_start accepts 3 to 8)
  MaxInFlight,  \* frames the presenter lets the GPU hold: the slots of a ring,
                \* the lanes of the Vulkan presenter
  Backends,     \* the scenes to consider, a subset of AllBackends
  SyncMayFail,  \* may eglCreateSync return EGL_NO_SYNC?
  StatMod       \* frames_captured and frames_dropped wrap here (2^32 in C)

AllBackends == {"cpu", "egl", "serial", "staging"}

ASSUME CamAssumption ==
  /\ NBuf \in Nat /\ NBuf >= 3
  /\ MaxInFlight \in Nat \ {0}
  /\ Backends \subseteq AllBackends
  /\ SyncMayFail \in BOOLEAN
  /\ StatMod \in Nat /\ StatMod >= 2

NoBuffer == -1
NoFence == -1
Buffers == 0 .. NBuf - 1

VARIABLES
  backend,   \* which scene this is; fixed when the program starts
  mapped,    \* buffers the CPU has mapped: cam->bufs[b].map
  queued,    \* buffers given to the driver, to be filled in any order
  filled,    \* captured frames not dequeued yet, oldest first
  gone,      \* the device has been unplugged: every ioctl fails
  pc,        \* the application thread: "loop", "pump", "draw", "closed" or "crashed"
  newest,    \* pump's local: the newest frame of this burst
  scan,      \* reap's loop index
  latest,    \* the buffer held for rendering
  fence,     \* per buffer: the fence of the last draw that read it
  retiring,  \* buffers replaced as latest, waiting on their fence
  gpu,       \* the frames the GPU has not finished: the buffer each one reads
  syncs,     \* EGLSync objects created and not destroyed
  captured, dropped,  \* the statistics printed by cam_stream_close
  shown,     \* history: buffers whose present content some draw has read
  reaped     \* history: frames handed back by reap, modulo StatMod

driverVars == <<queued, filled, gone>>
poolVars   == <<latest, fence, retiring>>
statVars   == <<captured, dropped, shown, reaped>>
vars == <<backend, mapped, driverVars, pc, newest, scan, poolVars, gpu, syncs, statVars>>

------------------------------------------------------------------------------
(* Helpers *)

InFilled == {filled[i] : i \in 1 .. Len(filled)}
DriverOwned == queued \cup InFilled

Reads(b) == \E i \in 1 .. Len(gpu) : gpu[i] = b

\* VIDIOC_QBUF; after an unplug it fails and the buffer is with nobody
CameraQueue(S) == queued' = IF gone THEN queued ELSE queued \cup S

\* camera_map: made once and kept; a new mapping needs QUERYBUF, so the device
Mappable(b) == b \in mapped \/ ~gone

\* cam_fence_ops.done: eglClientWaitSync with a zero timeout, or
\* vk_present_serial_done; a NULL fence is never passed to it
Signaled(b) == fence[b] = 0

\* ops.destroy is eglDestroySync for EGL and NULL elsewhere
Alive(f) == IF backend = "egl" /\ f # NoFence THEN 1 ELSE 0

Count(stat, n) == (stat + n) % StatMod

\* retired, and not read any more
Returnable(b) == b \in retiring /\ (fence[b] = NoFence \/ Signaled(b))

------------------------------------------------------------------------------
(* Faulty variants of the operators below, one slip of the pen each: the
   properties at the end tell them from the code. *)

RenderedKeepsFirst(b, f) ==     \* an older fence is not replaced
  /\ fence' = [fence EXCEPT ![b] = IF @ = NoFence THEN f ELSE @]
  /\ UNCHANGED syncs /\ shown' = shown \cup {b}

RenderedLeaks(b, f) ==          \* the older fence is not destroyed
  /\ fence' = [fence EXCEPT ![b] = f]
  /\ syncs' = syncs + Alive(f) /\ shown' = shown \cup {b}

SupersedeForgets(b) ==          \* counted, but not handed back
  dropped' = Count(dropped, 1) /\ UNCHANGED queued

RetireAlsoQueues(b) ==          \* the else is missing
  /\ retiring' = IF fence[b] # NoFence THEN retiring \cup {b} ELSE retiring
  /\ CameraQueue({b}) /\ dropped' = Count(dropped, 1)

RetireUncounted(b) ==           \* frames_dropped++ is missing
  IF fence[b] # NoFence
  THEN retiring' = retiring \cup {b} /\ UNCHANGED <<queued, dropped>>
  ELSE CameraQueue({b}) /\ UNCHANGED <<retiring, dropped>>

GiveBackKeepsFence(b) ==        \* fence[i] = NULL is missing
  /\ UNCHANGED fence /\ syncs' = syncs - Alive(fence[b])
  /\ retiring' = retiring \ {b} /\ CameraQueue({b}) /\ reaped' = Count(reaped, 1)

GiveBackKeepsMark(b) ==         \* retiring[i] = 0 is missing
  /\ fence' = [fence EXCEPT ![b] = NoFence] /\ syncs' = syncs - Alive(fence[b])
  /\ UNCHANGED retiring /\ CameraQueue({b}) /\ reaped' = Count(reaped, 1)

GiveBackForgets(b) ==           \* camera_queue is missing
  /\ fence' = [fence EXCEPT ![b] = NoFence] /\ syncs' = syncs - Alive(fence[b])
  /\ retiring' = retiring \ {b} /\ reaped' = Count(reaped, 1) /\ UNCHANGED queued

DrawBeginAtOne ==               \* reap's loop starts at 1
  /\ pc = "loop" /\ Len(gpu) < MaxInFlight
  /\ pc' = "draw" /\ scan' = 1
  /\ UNCHANGED <<backend, mapped, driverVars, newest, poolVars, gpu, syncs, statVars>>

DrawBeginWhenReaped ==          \* no redraw unless a buffer is to be reaped
  /\ pc = "loop" /\ Len(gpu) < MaxInFlight /\ retiring # {}
  /\ pc' = "draw" /\ scan' = 0
  /\ UNCHANGED <<backend, mapped, driverVars, newest, poolVars, gpu, syncs, statVars>>

------------------------------------------------------------------------------
\* cam_stream_rendered: the new fence replaces, and destroys, the old one
Rendered(b, f) ==
  /\ fence' = [fence EXCEPT ![b] = f]
  /\ syncs' = syncs - Alive(fence[b]) + Alive(f)
  /\ shown' = shown \cup {b}

------------------------------------------------------------------------------
(* cam_stream_open *)

\* every buffer is queued before STREAMON
CameraStart == queued = Buffers /\ filled = <<>> /\ gone = FALSE

Init ==
  /\ backend \in Backends /\ mapped = {}
  /\ CameraStart
  /\ pc = "loop" /\ newest = NoBuffer /\ scan = 0
  /\ latest = NoBuffer
  /\ fence = [b \in Buffers |-> NoFence]
  /\ retiring = {}
  /\ gpu = <<>> /\ syncs = 0
  /\ captured = 0 /\ dropped = 0 /\ shown = {} /\ reaped = 0

------------------------------------------------------------------------------
(* The driver and the device *)

\* the ISP finishes writing a frame into a buffer it owns
Capture(b) ==
  /\ ~gone /\ b \in queued
  /\ queued' = queued \ {b}
  /\ filled' = Append(filled, b)
  /\ shown' = shown \ {b}
  /\ UNCHANGED <<backend, mapped, gone, pc, newest, scan, poolVars, gpu, syncs,
                 captured, dropped, reaped>>

Unplug ==
  /\ ~gone /\ pc # "closed"
  /\ gone' = TRUE
  /\ UNCHANGED <<backend, mapped, queued, filled, pc, newest, scan, poolVars, gpu, syncs,
                 statVars>>

(* The GPU finishes the oldest frame; every fence behind it comes nearer *)
GpuDone ==
  /\ gpu # <<>>
  /\ gpu' = Tail(gpu)
  /\ fence' = [b \in Buffers |-> IF fence[b] > 0 THEN fence[b] - 1 ELSE fence[b]]
  /\ UNCHANGED <<backend, mapped, driverVars, pc, newest, scan, latest, retiring, syncs,
                 statVars>>

------------------------------------------------------------------------------
(* cam_stream_pump, called when the fd polls readable, or every turn *)

\* an older frame of the same burst: nobody will see it
Supersede(b) == CameraQueue({b}) /\ dropped' = Count(dropped, 1)

\* one successful DQBUF; a pump that finds nothing to dequeue does nothing
Dequeue ==
  /\ pc \in {"loop", "pump"}
  /\ ~gone /\ filled # <<>>
  /\ pc' = "pump"
  /\ newest' = Head(filled)
  /\ filled' = Tail(filled)
  /\ captured' = Count(captured, 1)
  /\ IF newest # NoBuffer THEN Supersede(newest) ELSE UNCHANGED <<queued, dropped>>
  /\ UNCHANGED <<backend, mapped, gone, scan, poolVars, gpu, syncs, shown, reaped>>

\* wait for the GPU if a draw read the buffer, else give it back at once
Retire(b) ==
  IF fence[b] # NoFence
  THEN retiring' = retiring \cup {b} /\ UNCHANGED <<queued, dropped>>
  ELSE CameraQueue({b}) /\ dropped' = Count(dropped, 1) /\ UNCHANGED retiring

\* DQBUF says EAGAIN, or fails: the burst's newest frame becomes latest
PumpDone ==
  /\ pc = "pump"
  /\ gone \/ filled = <<>>
  /\ latest' = newest /\ newest' = NoBuffer
  /\ IF latest # NoBuffer THEN Retire(latest) ELSE UNCHANGED <<queued, retiring, dropped>>
  /\ pc' = "loop"
  /\ UNCHANGED <<backend, mapped, filled, gone, scan, fence, gpu, syncs, captured, shown,
                 reaped>>

------------------------------------------------------------------------------
(* The scene's draw callback: reap first, then draw from latest *)

\* the presenter has a free slot (or lane) and calls the scene
DrawBegin ==
  /\ pc = "loop" /\ Len(gpu) < MaxInFlight
  /\ pc' = "draw" /\ scan' = 0
  /\ UNCHANGED <<backend, mapped, driverVars, newest, poolVars, gpu, syncs, statVars>>

GiveBack(b) ==
  /\ fence' = [fence EXCEPT ![b] = NoFence]
  /\ syncs' = syncs - Alive(fence[b])
  /\ retiring' = retiring \ {b}
  /\ CameraQueue({b})
  /\ reaped' = Count(reaped, 1)

\* one turn of cam_stream_reap's loop
Reap ==
  /\ pc = "draw" /\ scan < NBuf
  /\ scan' = scan + 1
  /\ IF Returnable(scan)
     THEN GiveBack(scan)
     ELSE UNCHANGED <<fence, syncs, retiring, queued, reaped>>
  /\ UNCHANGED <<backend, mapped, filled, gone, pc, newest, latest, gpu, captured, dropped,
                 shown>>

\* what every draw leaves alone
DrawEnd ==
  /\ pc = "draw" /\ scan = NBuf
  /\ pc' = "loop"
  /\ UNCHANGED <<backend, driverVars, newest, scan, latest, retiring, captured,
                 dropped, reaped>>

\* scene_cam_shm.c: the CPU has read the frame when the draw returns
DrawCpu ==
  /\ backend = "cpu" /\ DrawEnd /\ UNCHANGED gpu
  /\ IF latest # NoBuffer /\ Mappable(latest)
     THEN Rendered(latest, NoFence) /\ mapped' = mapped \cup {latest}
     ELSE UNCHANGED <<fence, syncs, shown, mapped>>

\* scene_cam_gles.c: an EGLSync behind the commands that sample latest
DrawEgl ==
  /\ backend = "egl" /\ DrawEnd /\ UNCHANGED mapped
  /\ gpu' = Append(gpu, latest)
  /\ \/ latest = NoBuffer /\ UNCHANGED <<fence, syncs, shown>>
     \/ latest # NoBuffer /\ Rendered(latest, Len(gpu'))
     \/ latest # NoBuffer /\ SyncMayFail /\ Rendered(latest, NoFence)

\* scene_cam_vk.c, the zero-copy path: the GPU reads the buffer, until the frame's serial
DrawSerial ==
  /\ backend = "serial" /\ DrawEnd /\ UNCHANGED mapped
  /\ gpu' = Append(gpu, latest)
  /\ IF latest = NoBuffer
     THEN UNCHANGED <<fence, syncs, shown>>
     ELSE Rendered(latest, Len(gpu'))

\* scene_cam_vk.c, the staging path: the CPU copies the buffer, and the frame's serial is
\* entered all the same
DrawStaging ==
  /\ backend = "staging" /\ DrawEnd
  /\ gpu' = Append(gpu, NoBuffer)
  /\ \/ latest = NoBuffer /\ UNCHANGED <<fence, syncs, shown, mapped>>
     \/ /\ latest # NoBuffer /\ Mappable(latest)
        /\ Rendered(latest, Len(gpu')) /\ mapped' = mapped \cup {latest}

\* The staging path does not look whether camera_map returned NULL before it reads there:
\* no map of latest and no device to make one, and the program is gone in mid-draw.
CrashInDraw ==
  /\ backend = "staging" /\ pc = "draw" /\ scan = NBuf
  /\ latest # NoBuffer /\ ~Mappable(latest)
  /\ pc' = "crashed"
  /\ UNCHANGED <<backend, mapped, driverVars, newest, scan, poolVars, gpu, syncs, statVars>>

------------------------------------------------------------------------------
(* cam_stream_close, from the scene's fini *)

\* STREAMOFF takes every buffer from the driver, filled or not
CameraClose == queued' = {} /\ filled' = <<>>

\* The Vulkan presenter has idled the device by then.
Close ==
  /\ pc = "loop"
  /\ backend \in {"serial", "staging"} => gpu = <<>>
  /\ pc' = "closed"
  /\ CameraClose /\ mapped' = {}
  /\ fence' = [b \in Buffers |-> NoFence]
  /\ syncs' = syncs - Cardinality({b \in Buffers : Alive(fence[b]) = 1})
  /\ UNCHANGED <<backend, gone, newest, scan, latest, retiring, gpu, statVars>>

\* the process ends, one way or the other
Over == pc \in {"closed", "crashed"}
Terminated == Over /\ gpu = <<>> /\ UNCHANGED vars

Pump == Dequeue \/ PumpDone
Draw == DrawCpu \/ DrawEgl \/ DrawSerial \/ DrawStaging

Next ==
  \/ \E b \in Buffers : Capture(b)
  \/ Unplug
  \/ GpuDone
  \/ Pump
  \/ DrawBegin \/ Reap \/ Draw \/ CrashInDraw
  \/ Close
  \/ Terminated

Spec == Init /\ [][Next]_vars

(***************************************************************************)
(* Fairness, party by party.  The thread runs (weak fairness on the steps  *)
(* of a function that has begun), and each turn of the event loop that     *)
(* finds the camera fd readable pumps it (strong fairness on Dequeue).     *)
(* Strong fairness on PumpDone says that the camera is slower than the     *)
(* loop of DQBUF calls: a frame lasts milliseconds, an ioctl microseconds. *)
(* The GPU finishes what it was given.                                     *)
(*                                                                         *)
(* FramesAsked is an assumption about the compositor, not about this code: *)
(* the loop draws only when a frame callback or a configure has come, so   *)
(* a hidden window, or a frame loop that has stalled (see SlotRing), is    *)
(* outside it.  Without draws nothing is reaped and nothing is shown.      *)
(* CameraRuns is the same kind of assumption about the driver.             *)
(***************************************************************************)
Fairness ==
  /\ SF_vars(Dequeue) /\ SF_vars(PumpDone)
  /\ WF_vars(Reap) /\ WF_vars(DrawEgl \/ DrawSerial \/ DrawStaging \/ CrashInDraw)
  /\ WF_vars(GpuDone)

FramesAsked == SF_vars(DrawBegin)
CameraRuns == WF_vars(\E b \in Buffers : Capture(b))

FairSpec == Spec /\ Fairness /\ FramesAsked
FairCameraSpec == FairSpec /\ CameraRuns

------------------------------------------------------------------------------
(* Properties *)

Maybe(b) == {b} \ {NoBuffer}

\* the buffers the application accounts for
Tracked == Maybe(newest) \cup Maybe(latest) \cup retiring

\* Every variable stays in its range; -1 stands for "none" as in the code.
TypeOK ==
  /\ backend \in AllBackends /\ mapped \in SUBSET Buffers
  /\ queued \in SUBSET Buffers /\ filled \in Seq(Buffers) /\ gone \in BOOLEAN
  /\ pc \in {"loop", "pump", "draw", "closed", "crashed"}
  /\ newest \in Buffers \cup {NoBuffer} /\ scan \in 0 .. NBuf
  /\ latest \in Buffers \cup {NoBuffer}
  /\ fence \in [Buffers -> Nat \cup {NoFence}]
  /\ retiring \in SUBSET Buffers
  /\ gpu \in Seq(Buffers \cup {NoBuffer}) /\ syncs \in Int
  /\ captured \in Nat /\ dropped \in Nat /\ shown \in SUBSET Buffers /\ reaped \in Nat

\* cam_stream.h: "A buffer must not be requeued while the GPU may still be
\* reading it, or the ISP scribbles over a texture mid-frame."
NoScribble == \A b \in DriverOwned : ~Reads(b)

\* While the stream runs, each buffer has exactly one holder: the driver's
\* queue, the filled list (once), or exactly one of newest, latest and the
\* retiring set.  Only an unplug, which makes QBUF fail, may lose a buffer.
OneHolder ==
  pc # "closed" =>
    /\ \A i, j \in 1 .. Len(filled) : filled[i] = filled[j] => i = j
    /\ queued \cap InFilled = {}
    /\ DriverOwned \cap Tracked = {}
    /\ newest # NoBuffer => newest # latest /\ newest \notin retiring
    /\ latest \notin retiring
    /\ gone \/ DriverOwned \cup Tracked = Buffers

\* A buffer the driver owns carries no fence: a fence left on it would describe
\* the previous frame, and the next retirement would wait on, or trust, a read
\* that has nothing to do with the frame in it.
NoStaleFence == \A b \in DriverOwned \cup Maybe(newest) : fence[b] = NoFence

\* Sync objects are neither leaked nor destroyed twice: as many are alive as
\* the fence table holds, through replacement, reaping and closing.
SyncsAccounted == syncs = Cardinality({b \in Buffers : Alive(fence[b]) = 1})

\* The statistics add up: every frame dequeued was dropped, went back through
\* reap, or is still held.
FramesAccounted ==
  captured = Count(dropped + reaped, Cardinality(Tracked))

\* The statistic is what the message says, "dropped (never rendered)": a buffer
\* given back counts as dropped exactly when no draw had read its frame.
DroppedNeverShown ==
  [][\A b \in queued' \ queued : b \in shown <=> dropped' = dropped]_vars

\* What makes the properties above inductive.  Holding: the parts of OneHolder
\* that hold in every state, closed or not; only latest and the retiring buffers
\* carry fences; pump's local is set exactly while pump runs.
Holding ==
  /\ \A i, j \in 1 .. Len(filled) : filled[i] = filled[j] => i = j
  /\ \A b \in queued : b \notin InFilled /\ b \notin Tracked
  /\ \A b \in InFilled : b \notin Tracked
  /\ newest # NoBuffer => newest # latest /\ newest \notin retiring
  /\ latest \notin retiring
  /\ pc = "closed" => queued = {} /\ filled = <<>>
  /\ pc = "closed" \/ gone \/ \A b \in Buffers : b \in DriverOwned \/ b \in Tracked
  /\ \A b \in Buffers : fence[b] # NoFence => b = latest \/ b \in retiring
  /\ newest # NoBuffer <=> pc = "pump"

\* Fencing: until the stream closes, the fence of a buffer that some frame in
\* flight reads cannot signal before the last such frame is finished.
Fencing ==
  /\ backend = "cpu" => gpu = <<>>
  /\ pc # "closed" =>
       \A i \in 1 .. Len(gpu) : gpu[i] # NoBuffer => fence[gpu[i]] >= i

\* Marking: in the scenes whose draws are fenced, a frame the application or the
\* filled list holds carries a fence exactly when some draw has read it, and every
\* retiring buffer carries one.
Marking ==
  pc # "closed" =>
    /\ \A b \in Tracked \cup InFilled : b \in shown <=> fence[b] # NoFence
    /\ \A b \in retiring : fence[b] # NoFence

\* The detailed stream implements the lease.
Lease == INSTANCE CamLease
  WITH driver <- queued, ready <- filled, reading <- {b \in Buffers : Reads(b)}
ImplementsLease == Lease!LeaseSpec

\* A buffer waiting on its fence does not wait for ever: as long as frames are asked
\* for, it is reaped by a later draw, unless the stream closes or, in the staging scene
\* after an unplug, the program crashes.
RetiringEnds ==
  \A b \in Buffers : (b \in retiring) ~> (b \notin retiring \/ Over)

\* As long as frames are asked for, a frame that became latest is drawn, or replaced by a
\* newer one, or the stream closes.  One case is left out, for there the code fails: in
\* the staging scene a frame in a buffer that was never mapped before the unplug is neither
\* shown nor replaced, and the draw that comes upon it crashes.
LatestGetsShown ==
  \A b \in Buffers :
    (latest = b /\ b \notin shown) ~>
      \/ latest # b \/ b \in shown \/ pc = "closed"
      \/ backend = "staging" /\ ~Mappable(b)

\* The camera is never starved for good, as long as frames are asked for: again and again
\* the driver has a buffer to write into, until the stream closes or the device disappears.
DriverFed == []<>(queued # {} \/ gone \/ pc = "closed")

\* With a camera that keeps filling the buffers it owns and a compositor that keeps asking
\* for frames, new frames keep coming out of the pump.
FramesKeepComing == []<>(newest # NoBuffer \/ gone \/ pc = "closed")
==============================================================================
