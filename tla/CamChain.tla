------------------------------ MODULE CamChain -------------------------------
(***************************************************************************)
(* How a camera scene draws one frame: the chain of effect passes that     *)
(* camera/effect_chain.h lists, as scenes/scene_cam_vk.c, scene_cam_gles.c *)
(* and scene_cam_shm.c run it.                                             *)
(*                                                                         *)
(* With Vulkan a frame is a list of commands, and the GPU may run them in  *)
(* any order that the barriers between them allow, those of the next frame *)
(* included.  The queue holds the commands not executed yet, in submission *)
(* order.  A draw is two of them, the fetches of its fragment stage and    *)
(* the stores of its color stage; a barrier waits for the earlier commands *)
(* of its src stages and holds back the later ones of its dst stages.      *)
(*                                                                         *)
(* What an image holds is the history of its pixels: the number of the     *)
(* camera's picture and the effects applied to it since.                   *)
(***************************************************************************)
EXTENDS Integers, Sequences, FiniteSets, SequencesExt

CONSTANTS
  Scenes,      \* which of the scenes below a run considers
  NBuf,        \* camera buffers
  NImages,     \* images of the swapchain
  NLanes,      \* VK_PRESENT_LANES
  Looks,       \* what the user switches between: sets of effects, with or without cube
  MaxFrames,   \* bound: frames drawn
  MaxPics      \* bound: pictures the camera takes

AllScenes == {"vk", "gles", "shm"}
Effects == {"mosaic", "blur", "sobel", "thermal"}

ASSUME ChainAssumption ==
  /\ Scenes \subseteq AllScenes /\ Looks \subseteq (SUBSET Effects) \X BOOLEAN
  /\ NBuf \in Nat \ {0} /\ NLanes \in Nat \ {0} /\ NImages > NLanes
  /\ MaxFrames \in Nat /\ MaxPics \in Nat

Bufs == 1 .. NBuf
Cam(b) == <<"cam", b>>          \* a camera buffer, and the image imported from it
Tmp(d) == <<"tmp", d>>          \* tmp_image[d], tmp_tex[d], scratch[d]
Win(w) == <<"win", w>>
Window == {Win(w) : w \in 1 .. NImages}
Staging(l) == <<"staging", l>>
Upload == <<"upload", 0>>       \* the fallback's cam_image[0]
Depth == <<"depth", 0>>
Rgb == <<"rgb", 0>>             \* scene_cam_shm's converted frame
Memory == {Cam(b) : b \in Bufs} \cup Window
            \cup {Tmp(0), Tmp(1), Upload, Depth, Rgb}
            \cup {Staging(l) : l \in 0 .. NLanes - 1}

Garbage == <<>>
Black == <<0>>
NoDraw == <<0, 0>>               \* else the frame and the pass

VARIABLES
  scene, zero_copy,   \* fixed when the scene starts
  latest,             \* the camera buffer to show, 0 before the first
  pics, frames,       \* pictures taken, frames drawn
  queue,              \* commands submitted and not executed
  mem, layout,        \* what each image holds, and its Vulkan layout
  engine, shown,      \* window images the compositor may read; the newest
  fallback_image_written

camVars == <<latest, pics>>
winVars == <<engine, shown>>
vars == <<scene, zero_copy, camVars, frames, queue, mem, layout, winVars,
          fallback_image_written>>

------------------------------------------------------------------------------
(* Commands *)

Command(op, img, src, dst) ==
  [op |-> op, img |-> img, src |-> src, dst |-> dst, from |-> img, fx |-> "none",
   old |-> "none", new |-> "none", val |-> Garbage,
   draw |-> NoDraw]

\* image_barrier
image_barrier(img, old, new, src, dst) ==
  [Command("barrier", img, src, dst) EXCEPT !.old = old, !.new = new]

\* One fullscreen pass: the effect's fragments read "from" and color "img".
draw_fullscreen(k, from, img, fx) ==
  <<[Command("fetch", img, {"frag"}, {"frag"}) EXCEPT !.from = from, !.draw = k],
    [Command("store", img, {"color"}, {"color"}) EXCEPT !.fx = fx, !.draw = k]>>

\* The cube as the last pass: the depth image is cleared at its begin and tested
\* against until its end.
draw_cube(k, from, img, fx) ==
  <<[Command("clear", Depth, {"depth"}, {"depth"}) EXCEPT !.draw = k]>>
    \o draw_fullscreen(k, from, img, fx)
    \o <<[Command("test", Depth, {"depth"}, {"depth"}) EXCEPT !.draw = k]>>

IsSync(c) == c.op \in {"barrier", "wait"}

\* The first of two commands has to be executed before the second.
Before(a, b) ==
  \/ b.op = "end"
  \/ a.dst \cap b.src # {} /\ (IsSync(a) \/ IsSync(b))
  \/ a.draw = b.draw /\ a.draw # NoDraw
  \/ scene # "vk" /\ a.op # "end"          \* GL executes in order

Ready(i) ==
  /\ \A j \in 1 .. i - 1 : ~Before(queue[j], queue[i])
  /\ queue[i].op = "wait" => queue[i].img \notin engine

------------------------------------------------------------------------------
(* Faulty variants of the operators below *)

PassWithoutFlip(k, from, i, fx) ==                            \* no barrier before
  draw_fullscreen(k, from, Tmp((i - 1) % 2), fx)
    \o <<image_barrier(Tmp((i - 1) % 2), "attachment", "readonly", {"color"}, {"frag"})>>
DepthUnordered(old) == <<image_barrier(Depth, "none", "depth", {}, {"depth"})>>
SharedLane(l) == Staging(0)                                   \* one staging buffer
ReleaseMissing(b) == <<>>                                     \* no way back to the camera

------------------------------------------------------------------------------
(* effect_chain.h *)

If(b, seq) == IF b THEN seq ELSE <<>>

\* effect_chain_passes
Passes(mask) ==
  LET list == If("mosaic" \in mask, <<"mosaic">>)
                \o If("blur" \in mask, <<"blurH", "blurV">>)
                \o If("sobel" \in mask, <<"sobel">>)
                \o If("thermal" \in mask, <<"thermal">>)
  IN IF list = <<>> THEN <<"none">> ELSE list

\* What a pass makes of its input.
Apply(content, fx) == IF fx = "none" THEN content ELSE Append(content, fx)

------------------------------------------------------------------------------
(* scene_cam_vk.c: recording a frame *)

\* push.src: pass i reads the scratch that pass i - 1 has written.
Source(first, i) == IF i = 1 THEN first ELSE Tmp(i % 2)

\* A pass that is not the last, with its scratch flipped to an attachment before
\* and back to a texture after.
ScratchPass(k, from, i, fx) ==
  LET d == Tmp((i - 1) % 2)
  IN <<image_barrier(d, "none", "attachment", {"frag"}, {"color"})>>
       \o draw_fullscreen(k, from, d, fx)
       \o <<image_barrier(d, "attachment", "readonly", {"color"}, {"frag"})>>

\* The image that the descriptor set bound for buffer b has at binding 0.
CameraImage(b) == IF zero_copy THEN Cam(b) ELSE Upload

Acquire(b) == <<image_barrier(Cam(b), "foreign", "readonly", {}, {"frag"})>>
ReleaseToCamera(b) == <<image_barrier(Cam(b), "readonly", "foreign", {"frag"}, {})>>

\* The old layout of the upload image: nothing to keep the first time.
UploadOld(written) == IF written THEN "readonly" ELSE "none"

StagingOf(l) == Staging(l)

CopyStaging(l) ==
  <<image_barrier(Upload, UploadOld(fallback_image_written), "transfer", {"frag"}, {"transfer"}),
    [Command("copy", Upload, {"transfer"}, {"transfer"}) EXCEPT !.from = StagingOf(l)],
    image_barrier(Upload, "transfer", "readonly", {"transfer"}, {"frag"})>>

\* The chain and the window, or the cube: the last pass goes there.
ChainInto(target, b, mask, mode, n) ==
  LET passes == Passes(mask)
      last == Len(passes)
      K(i) == <<n, i>>
      From(i) == Source(CameraImage(b), i)
  IN FlattenSeq([i \in 1 .. last - 1 |-> ScratchPass(K(i), From(i), i, passes[i])])
       \o (IF mode THEN draw_cube(K(last), From(last), target, passes[last])
                   ELSE draw_fullscreen(K(last), From(last), target, passes[last]))

\* cam_record
CamRecord(target, b, mask, mode, n) ==
  IF b = 0
    THEN <<[Command("store", target, {"color"}, {"color"}) EXCEPT !.val = Black]>>
    ELSE (IF zero_copy THEN Acquire(b) ELSE CopyStaging(n % NLanes))
           \o ChainInto(target, b, mask, mode, n)
           \o If(zero_copy, ReleaseToCamera(b))

\* The depth image is shared by both lanes.
DepthBarrier(old) == <<image_barrier(Depth, old, "depth", {"depth"}, {"depth"})>>

\* draw_frame's part of the command buffer: the semaphore the submission waits for
\* at its color stage, and the window image's two transitions.
FrameCommands(w, b, mask, mode, n) ==
  <<Command("wait", w, {}, {"color"}),
    image_barrier(w, "none", "attachment", {}, {"color"})>>
    \o DepthBarrier("none")
    \o CamRecord(w, b, mask, mode, n)
    \o <<image_barrier(w, "attachment", "present", {"color"}, {})>>

------------------------------------------------------------------------------
(* scene_cam_gles.c and scene_cam_shm.c *)

\* cam_draw of the GLES scene: clear, then pass i from its source into its target.
GlesCommands(w, b, mask, mode, n) ==
  LET passes == Passes(mask)
      last == Len(passes)
      Target(i) == IF i = last THEN w ELSE Tmp((i - 1) % 2)
      Draw(i) == IF i = last /\ mode
                   THEN draw_cube(<<n, i>>, Source(Cam(b), i), Target(i), passes[i])
                   ELSE draw_fullscreen(<<n, i>>, Source(Cam(b), i), Target(i), passes[i])
  IN <<[Command("store", w, {"color"}, {"color"}) EXCEPT !.val = Black]>>
       \o (IF b = 0 THEN <<>> ELSE FlattenSeq([i \in 1 .. last |-> Draw(i)]))

\* One effect_pass of the CPU scene.  A pass must not read what it writes.
EffectPass(m, from, to, fx) ==
  [m EXCEPT ![to] = IF from = to THEN Garbage ELSE Apply(m[from], fx)]

\* cam_draw of the CPU scene, all of it at once: convert, chain, scale or map.
ShmDraw(m, w, b, mask) ==
  LET passes == Passes(mask)
      n == IF passes = <<"none">> THEN 0 ELSE Len(passes)
      after[i \in 0 .. n] ==
        IF i = 0 THEN [m EXCEPT ![Rgb] = m[Cam(b)]]
                 ELSE EffectPass(after[i - 1], Source(Rgb, i), Tmp((i - 1) % 2), passes[i])
      img == Source(Rgb, n + 1)
  IN IF b = 0 THEN [m EXCEPT ![w] = Black]
              ELSE [after[n] EXCEPT ![w] = after[n][img]]

------------------------------------------------------------------------------
(* Starting: cam_init *)

\* What the driver can do, and the first camera buffer it cannot import (0: none).
Drivers == [dmabuf_import : BOOLEAN, format : {"NV12", "YUYV", "other"},
            get_fd_props : BOOLEAN, sampleable : BOOLEAN, refuses : 0 .. NBuf]

\* import_dmabufs returns 0
Imports(d) ==
  /\ d.format \in {"NV12", "YUYV"} /\ d.get_fd_props /\ d.sampleable
  /\ d.refuses = 0

Init ==
  /\ scene \in Scenes
  /\ \E d \in Drivers : zero_copy = (scene = "vk" /\ d.dmabuf_import /\ Imports(d))
  /\ latest = 0 /\ pics = 0 /\ frames = 0
  /\ queue = <<>>
  /\ mem = [x \in Memory |-> Garbage]
  /\ layout = [x \in Memory |-> IF x[1] = "cam" THEN "foreign" ELSE "none"]
  /\ engine = {} /\ shown = Win(0)
  /\ fallback_image_written = FALSE

------------------------------------------------------------------------------
(* Frames, pictures and the GPU *)

\* What ends a submission: its fence and render_done.
End(w, want, b) ==
  [Command("end", w, {}, {}) EXCEPT !.val = want, !.from = Cam(b)]

Ends == {c \in Range(queue) : c.op = "end"}
InUse(b) == \E c \in Ends : c.from = Cam(b)

\* The newest picture with the effects applied in the documented order: quantize,
\* then smooth, then detect, then recolor.
Wanted(b, mask) ==
  LET Quantize(h) == IF "mosaic" \in mask THEN Append(h, "mosaic") ELSE h
      Smooth(h) == IF "blur" \in mask THEN Append(Append(h, "blurH"), "blurV") ELSE h
      Detect(h) == IF "sobel" \in mask THEN Append(h, "sobel") ELSE h
      Recolor(h) == IF "thermal" \in mask THEN Append(h, "thermal") ELSE h
  IN IF b = 0 THEN Black ELSE Recolor(Detect(Smooth(Quantize(mem[Cam(b)]))))

\* The images to draw the next frame to, up to renaming.  With Vulkan, acquire may return
\* one that the compositor still reads; the rings of the others wait for a free slot.
OneOf(S) == IF S = {} THEN {} ELSE {CHOOSE w \in S : TRUE}
Targets ==
  LET idle == {w \in Window : w # shown /\ \A c \in Ends : c.img # w}
  IN OneOf(idle \ engine) \cup (IF scene = "vk" THEN OneOf(idle \cap engine) ELSE {})

CanDraw == frames < MaxFrames /\ Cardinality(Ends) < NLanes

DrawVk(w, mask, mode) ==
  /\ scene = "vk"
  /\ mem' = IF latest # 0 /\ ~zero_copy
              THEN [mem EXCEPT ![StagingOf((frames + 1) % NLanes)] = mem[Cam(latest)]]
              ELSE mem
  /\ fallback_image_written' = (fallback_image_written \/ (latest # 0 /\ ~zero_copy))
  /\ queue' = queue \o FrameCommands(w, latest, mask, mode, frames + 1)
                    \o <<End(w, Wanted(latest, mask), latest)>>

DrawGles(w, mask, mode) ==
  /\ scene = "gles"
  /\ queue' = queue \o GlesCommands(w, latest, mask, mode, frames + 1)
                    \o <<End(w, Wanted(latest, mask), latest)>>
  /\ UNCHANGED <<mem, fallback_image_written>>

DrawShm(w, mask) ==
  /\ scene = "shm"
  /\ mem' = ShmDraw(mem, w, latest, mask)
  /\ queue' = queue \o <<End(w, Wanted(latest, mask), 0)>>
  /\ UNCHANGED fallback_image_written

Draw ==
  /\ CanDraw
  /\ \E w \in Targets, look \in Looks :
       \/ DrawVk(w, look[1], look[2])
       \/ DrawGles(w, look[1], look[2])
       \/ DrawShm(w, look[1])
  /\ frames' = frames + 1
  /\ UNCHANGED <<scene, zero_copy, camVars, layout, winVars>>

\* The camera fills a buffer that no frame in flight reads (CamStream: NoScribble),
\* and the pump makes it the latest.
CameraTakes(b) ==
  /\ pics < MaxPics /\ b # latest /\ ~InUse(b)
  /\ pics' = pics + 1 /\ latest' = b
  /\ mem' = [mem EXCEPT ![Cam(b)] = <<pics + 1>>]
  /\ UNCHANGED <<scene, zero_copy, frames, queue, layout, winVars, fallback_image_written>>

------------------------------------------------------------------------------

\* A fetch hands what it read to the stores of its draw.
Fetched(rest, c) ==
  [j \in DOMAIN rest |->
     IF rest[j].op = "store" /\ rest[j].draw = c.draw
       THEN [rest[j] EXCEPT !.val = IF c.from = c.img THEN Garbage ELSE mem[c.from]]
       ELSE rest[j]]

\* What a command does to the images.
Contents(c) ==
  CASE c.op = "barrier" /\ c.old = "none" -> [mem EXCEPT ![c.img] = Garbage]
    [] c.op = "store" -> [mem EXCEPT ![c.img] = Apply(c.val, c.fx)]
    [] c.op = "copy"  -> [mem EXCEPT ![c.img] = mem[c.from]]
    [] c.op = "clear" -> [mem EXCEPT ![c.img] = c.draw]
    [] OTHER          -> mem

Execute(i) ==
  LET c == queue[i]
      rest == RemoveAt(queue, i)
  IN /\ Ready(i) /\ c.op # "end"
     /\ queue' = IF c.op = "fetch" THEN Fetched(rest, c) ELSE rest
     /\ mem' = Contents(c)
     /\ layout' = IF c.op = "barrier" THEN [layout EXCEPT ![c.img] = c.new] ELSE layout
     /\ UNCHANGED <<scene, zero_copy, camVars, frames, winVars, fallback_image_written>>

\* The frame is done: its image goes to the compositor, its buffer to the camera.
Finish ==
  /\ queue # <<>> /\ queue[1].op = "end"
  /\ queue' = Tail(queue)
  /\ shown' = queue[1].img /\ engine' = engine \cup {shown'}
  /\ UNCHANGED <<scene, zero_copy, camVars, frames, mem, layout, fallback_image_written>>

\* The compositor has read an image that it no longer shows.
Returned(w) ==
  /\ w \in engine /\ w # shown
  /\ engine' = engine \ {w}
  /\ UNCHANGED <<scene, zero_copy, camVars, frames, queue, mem, layout, shown,
                 fallback_image_written>>

Ended ==
  /\ frames = MaxFrames /\ queue = <<>> /\ pics = MaxPics
  /\ UNCHANGED vars

Next ==
  \/ Draw \/ Finish \/ Ended
  \/ \E b \in Bufs : CameraTakes(b)
  \/ \E i \in DOMAIN queue : Execute(i)
  \/ \E w \in Window : Returned(w)

Spec == Init /\ [][Next]_vars

------------------------------------------------------------------------------
(* Properties *)

\* Whatever order the GPU picks, a finished frame shows the picture that was the newest
\* when it was drawn, with the effects that were on, in the order of effect_chain.h:
\* scratch images, upload image and staging buffers are reused under two frames in
\* flight, and nothing of another frame or pass gets in.
ShownIsChain ==
  \A i \in DOMAIN queue :
    queue[i].op = "end" /\ Ready(i) => mem[queue[i].img] = queue[i].val

Uses(c) == IF c.op = "fetch" THEN c.from ELSE c.img

LayoutFor(op) == CASE op = "fetch" -> "readonly" [] op = "store" -> "attachment"
                   [] op = "copy" -> "transfer" [] op \in {"clear", "test"} -> "depth"

\* When the GPU gets to a command, the image is in the layout that the command was
\* recorded for ("the driver tracks nothing"): the scratch images, the upload image,
\* the depth image that two lanes share, the window.  (The camera's images are not,
\* while two frames in flight draw the same picture: TransitionsInTurn.)
LayoutsMatch ==
  scene = "vk" =>
    \A i \in DOMAIN queue :
      LET c == queue[i] IN
      Ready(i) /\ c.op \notin {"end", "wait"} /\ Uses(c)[1] # "cam" =>
        IF c.op = "barrier" THEN c.old \in {"none", layout[c.img]}
                            ELSE layout[Uses(c)] = LayoutFor(c.op)

\* The depth image is shared by both lanes: from its clear to its last test it belongs
\* to one draw.
DepthIsOwn ==
  \A i \in DOMAIN queue :
    queue[i].op = "test" /\ Ready(i) => mem[Depth] = queue[i].draw

\* A buffer that no frame in flight reads is back with the foreign owner: when the
\* camera gets it, the release barrier has been executed.
BackWithCamera ==
  \A b \in Bufs : ~InUse(b) => layout[Cam(b)] = "foreign"

\* README.md says of the window's first barrier that there is "nothing earlier in this
\* queue to wait for (the real previous user, the compositor, is ordered by the
\* image_avail semaphore at submit)".  So when a layout transition runs, whoever read
\* the image before is done with it: the compositor, or an earlier frame's draw.
TransitionsInTurn ==
  \A i \in DOMAIN queue :
    LET c == queue[i] IN
    c.op = "barrier" /\ Ready(i) =>
      /\ c.img \notin engine
      /\ \A j \in 1 .. i - 1 : queue[j].op = "fetch" => queue[j].from # c.img
==============================================================================
