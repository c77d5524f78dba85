------------------------------- MODULE SlotRing -------------------------------
(***************************************************************************)
(* The frame loop of common/common.c with the presenters that own their    *)
(* buffers: present/shm_present.c and the dmabuf mode of                   *)
(* present/gles_present.c.                                                 *)
(*                                                                         *)
(* Client and compositor never block on each other.  The client's requests *)
(* take effect at once here; the compositor's events wait in inbox, in     *)
(* order, until the event loop dispatches them, one handler per step.      *)
(*                                                                         *)
(* A wl_buffer is <<slot, generation>>: the slot its listener was given    *)
(* and a number that is free for reuse once the buffer is destroyed and    *)
(* nobody can mention it any more.                                         *)
(***************************************************************************)
EXTENDS Integers, Sequences, FiniteSets

CONSTANTS
  NSlots,       \* SHM_SLOTS, GLES_SLOTS
  Sizes,        \* what a compositor may propose; 0 means "you pick"
  DefaultSize,  \* APP_DEFAULT_WIDTH x APP_DEFAULT_HEIGHT
  Modes,        \* how releases arrive, a subset of AllModes
  Compositors,  \* a subset of AllCompositors
  MaxGens,      \* bound: wl_buffers per slot, orphans included
  MaxConfigures \* bound: configures on the wire

\* "listener": wl_buffer.release events (wl_shm, dmabuf with implicit sync);
\* "explicit": a release point per commit, polled (dmabuf with explicit sync)
AllModes == {"listener", "explicit"}

\* "prompt": returns every buffer before it asks for the next frame;
\* "slow": returns the buffers it does not show, some time
AllCompositors == {"prompt", "slow"}

ASSUME RingAssumption ==
  /\ NSlots \in Nat \ {0}
  /\ Sizes \subseteq Nat /\ DefaultSize \in Nat \ {0}
  /\ Modes \subseteq AllModes /\ Compositors \subseteq AllCompositors
  /\ MaxGens \in Nat /\ MaxConfigures \in Nat

None == 0
NoBuffer == <<0, 0>>
Slots == 1 .. NSlots
Buffers == Slots \X (1 .. MaxGens)

VARIABLES
  mode, compositor,    \* fixed when the program starts
  pending,             \* the size staged by on_toplevel_configure
  size,                \* a->width and a->height, acknowledged
  animating,           \* a frame callback has been asked for once
  running,             \* a->running, until fini is done ("gone")
  buffer, busy,        \* the slots
  bufSize,             \* p->buf_w and p->buf_h; None before the first pool
  sizeOf,              \* per wl_buffer: its size, None when not alive
  scheduled,           \* frame callbacks requested since the last commit
  armed,               \* frame callbacks the compositor has to answer
  held,                \* buffers committed and not released by the compositor
  current,             \* the buffer the window shows
  rendering,           \* buffers the GPU still draws into, oldest first
  reached,             \* slots' buffers whose acquire point the GPU has reached
  returned,            \* slots' buffers whose release point has been reached
  inbox                \* events on their way to the client

fixedVars == <<mode, compositor>>
appVars   == <<pending, size, animating, running>>
ringVars  == <<buffer, busy, bufSize, sizeOf>>
surfVars  == <<scheduled, armed, held, current>>
syncVars  == <<rendering, reached, returned>>
vars == <<fixedVars, appVars, ringVars, surfVars, syncVars, inbox>>

------------------------------------------------------------------------------
(* Helpers *)

Event(kind, arg) == [kind |-> kind, arg |-> arg]
Pending(kind) == {i \in 1 .. Len(inbox) : inbox[i].kind = kind}
ReleaseSent(b) == \E i \in Pending("release") : inbox[i].arg = b

Alive(b) == sizeOf[b] # None
SlotOf(b) == b[1]
InSlot(b) == buffer[SlotOf(b)] = b
Rendering(b) == \E i \in 1 .. Len(rendering) : rendering[i] = b

\* generations of a slot that nothing mentions any more
Unused(i) ==
  {g \in 1 .. MaxGens : LET b == <<i, g>> IN
     ~Alive(b) /\ b \notin held /\ ~ReleaseSent(b) /\ ~Rendering(b)}

Least(S) == CHOOSE x \in S : \A y \in S : x <= y

------------------------------------------------------------------------------
(* Faulty variants of the operators below *)

HandBackAny(b) ==               \* the slot is freed whoever's buffer this was
  busy' = [busy EXCEPT ![SlotOf(b)] = FALSE] /\ UNCHANGED sizeOf

HandBackKeepsOrphan(b) ==       \* wl_buffer_destroy is missing
  /\ busy' = [i \in Slots |-> busy[i] /\ ~(i = SlotOf(b) /\ buffer[i] = b)]
  /\ UNCHANGED sizeOf

DestroyedAll(b) == \E i \in Slots : buffer[i] = b         \* the busy ones, too

FreshKeepsBusy(i) == busy[i]    \* slots[i].busy = 0 is missing

FreeUnlessShown(buf, bz, i) == buf[i] # current   \* anything but the front buffer

SamePoint(points, b) == points  \* s->point++ is missing

ScheduleAlways == scheduled + 1 \* if (!animating) is missing

ScheduleNever == scheduled      \* on_frame_done does not ask for the next

------------------------------------------------------------------------------
(* present_redraw, dmabuf_redraw *)

\* !busy, or, with explicit sync, the release timeline has come to the slot's point
IsFree(buf, bz, i) == ~bz[i] \/ (mode = "explicit" /\ buf[i] \in returned)

FreeSlots(buf, bz) == {i \in Slots : IsFree(buf, bz, i)}

\* s->point++: of all the points reached so far, none is this frame's
NewPoint(points, b) == points \ {b}

\* destroy_slot_sync: a buffer's points go with its slot's timelines
OfSlots(points) == {b \in points : buffer'[SlotOf(b)] = b}

\* Explicit sync: the frame's acquire point is the fence of its GPU work; without
\* a fence, glFinish, and the host signals the point.  The release point is for the
\* compositor to signal.
SetPoints(b) ==
  /\ returned' = OfSlots(NewPoint(returned, b))
  /\ \/ /\ rendering' = Append(rendering, b)
        /\ reached' = OfSlots(NewPoint(reached, b))
     \/ /\ rendering' = <<>>
        /\ reached' = OfSlots(reached \cup {x \in Buffers : Rendering(x)} \cup {b})

\* attach and commit: the callbacks requested so far ride on the commit
Commit(b, sched) ==
  /\ IF mode = "explicit" THEN SetPoints(b) ELSE UNCHANGED syncVars
  /\ held' = held \cup {b} /\ current' = b
  /\ armed' = armed + sched /\ scheduled' = 0

\* draw into the first free slot; without one, nothing is committed
Redraw(buf, bz, sched) ==
  LET i == Least(FreeSlots(buf, bz))
  IN IF FreeSlots(buf, bz) = {}
     THEN /\ busy' = bz /\ scheduled' = sched
          /\ UNCHANGED <<armed, held, current, syncVars>>
     ELSE busy' = [bz EXCEPT ![i] = TRUE] /\ Commit(buf[i], sched)

------------------------------------------------------------------------------
(* present_configure, dmabuf_configure *)

\* explicit sync: wait 100 ms for the release point, then go on as if it had come
Destroyed(b) == \E i \in Slots : buffer[i] = b /\ (~busy[i] \/ mode = "explicit")

FreshBusy(i) == FALSE

\* a pool, or per slot a buffer object with its framebuffer and timelines
NewBuffer(i) == <<i, Least(Unused(i))>>

\* the buffers on loan become orphans
Reallocate ==
  /\ buffer' = [i \in Slots |-> NewBuffer(i)]
  /\ sizeOf' = [b \in Buffers |-> IF b = NewBuffer(SlotOf(b)) THEN size'
                                  ELSE IF Destroyed(b) THEN None ELSE sizeOf[b]]
  /\ bufSize' = size'

------------------------------------------------------------------------------
Init ==
  /\ mode \in Modes /\ compositor \in Compositors
  /\ pending = DefaultSize /\ size = None /\ animating = FALSE /\ running = "yes"
  /\ buffer = [i \in Slots |-> NoBuffer] /\ busy = [i \in Slots |-> FALSE]
  /\ bufSize = None /\ sizeOf = [b \in Buffers |-> None]
  /\ scheduled = 0 /\ armed = 0 /\ held = {} /\ current = NoBuffer
  /\ rendering = <<>> /\ reached = {} /\ returned = {}
  /\ inbox = <<>>

------------------------------------------------------------------------------
(* The compositor *)

Send(events) == inbox' = inbox \o events

\* a proposal is an xdg_toplevel event and the xdg_surface event closing the batch
SendConfigure(s) ==
  /\ Cardinality(Pending("xdg")) < MaxConfigures
  /\ \A i \in Slots : Cardinality(Unused(i)) > Cardinality(Pending("xdg"))
  /\ Send(<<Event("toplevel", s), Event("xdg", 0)>>)
  /\ UNCHANGED <<fixedVars, appVars, ringVars, surfVars, syncVars>>

SendClose ==
  /\ Pending("close") = {}
  /\ Send(<<Event("close", 0)>>)
  /\ UNCHANGED <<fixedVars, appVars, ringVars, surfVars, syncVars>>

\* The compositor has read the buffer for the last time.  With explicit sync it
\* waits for the acquire point before it reads, and signals the release point, of
\* timelines that a resize may have taken from the slot since.
MayRead(b) == b \in IF InSlot(b) THEN reached ELSE {x \in held : ~Rendering(x)}

Release(b) ==
  /\ b \in held
  /\ mode = "explicit" => MayRead(b)
  /\ held' = held \ {b}
  /\ returned' = IF mode = "explicit" /\ InSlot(b) THEN returned \cup {b} ELSE returned
  /\ IF mode = "listener" /\ Alive(b)
     THEN Send(<<Event("release", b)>>)
     ELSE UNCHANGED inbox
  /\ UNCHANGED <<fixedVars, appVars, ringVars, scheduled, armed, current, rendering, reached>>

\* the window is about to be repainted: draw the next frame
FrameDue ==
  /\ armed > 0
  /\ compositor = "prompt" => held = {}
  /\ armed' = armed - 1
  /\ Send(<<Event("frame", 0)>>)
  /\ UNCHANGED <<fixedVars, appVars, ringVars, scheduled, held, current, syncVars>>

\* the GPU, in order, comes to the end of a frame: its fence signals the point
FinishFrame ==
  /\ rendering # <<>>
  /\ rendering' = Tail(rendering)
  /\ reached' = IF InSlot(Head(rendering)) THEN reached \cup {Head(rendering)} ELSE reached
  /\ UNCHANGED <<fixedVars, appVars, ringVars, surfVars, returned, inbox>>

------------------------------------------------------------------------------
(* The client: one event handler per step *)

Dispatch(kind) ==
  /\ running # "gone"
  /\ inbox # <<>> /\ Head(inbox).kind = kind
  /\ inbox' = Tail(inbox)
  /\ UNCHANGED fixedVars

Stage(s) == IF s > 0 THEN s ELSE DefaultSize

OnToplevelConfigure ==
  /\ Dispatch("toplevel")
  /\ pending' = Stage(Head(inbox).arg)
  /\ UNCHANGED <<size, animating, running, ringVars, surfVars, syncVars>>

\* if (!animating) app_schedule_frame
FirstSchedule == IF animating THEN scheduled ELSE scheduled + 1

\* ack, apply the size, reallocate the ring if it changed, start the frame loop
\* if this is the first configure, repaint
OnXdgSurfaceConfigure ==
  /\ Dispatch("xdg")
  /\ size' = pending
  /\ IF bufSize = size'
     THEN /\ UNCHANGED <<buffer, sizeOf, bufSize>>
          /\ Redraw(buffer, busy, FirstSchedule)
     ELSE /\ Reallocate
          /\ Redraw(buffer', [i \in Slots |-> FreshBusy(i)], FirstSchedule)
  /\ animating' = TRUE
  /\ UNCHANGED <<pending, running>>

NextSchedule == scheduled + 1

\* destroy the callback, ask for the next, redraw
OnFrameDone ==
  /\ Dispatch("frame")
  /\ UNCHANGED <<appVars, buffer, bufSize, sizeOf>>
  /\ Redraw(buffer, busy, NextSchedule)

\* the slot's buffer is free again; an orphan of a resize is destroyed
HandBack(b) ==
  IF buffer[SlotOf(b)] = b
  THEN busy' = [busy EXCEPT ![SlotOf(b)] = FALSE] /\ UNCHANGED sizeOf
  ELSE sizeOf' = [sizeOf EXCEPT ![b] = None] /\ UNCHANGED busy

OnBufferRelease ==
  /\ Dispatch("release")
  /\ HandBack(Head(inbox).arg)
  /\ UNCHANGED <<appVars, buffer, bufSize, surfVars, syncVars>>

OnToplevelClose ==
  /\ Dispatch("close")
  /\ running' = "no"
  /\ UNCHANGED <<pending, size, animating, ringVars, surfVars, syncVars>>

\* app_run returns, *_present_fini
Fini ==
  /\ running = "no"
  /\ running' = "gone"
  /\ sizeOf' = [b \in Buffers |-> IF \E i \in Slots : buffer[i] = b THEN None ELSE sizeOf[b]]
  /\ UNCHANGED <<fixedVars, pending, size, animating, buffer, busy, bufSize,
                 surfVars, syncVars, inbox>>

Terminated == running = "gone" /\ UNCHANGED vars

Client ==
  \/ OnToplevelConfigure \/ OnXdgSurfaceConfigure \/ OnFrameDone \/ OnBufferRelease
  \/ OnToplevelClose

Compositor ==
  /\ running # "gone"
  /\ \/ \E s \in Sizes : SendConfigure(s)
     \/ SendClose
     \/ \E b \in Buffers : Release(b)
     \/ FrameDue

Next == Client \/ Compositor \/ FinishFrame \/ Fini \/ Terminated

Spec == Init /\ [][Next]_vars

(***************************************************************************)
(* Fairness.  The event loop dispatches what it has read.  Of the          *)
(* compositor: it proposes a size to a new window, returns the buffers it  *)
(* no longer needs (a prompt one: all of them), and asks a visible window  *)
(* for new frames.  The GPU ends the frames it was given.                  *)
(***************************************************************************)
ReturnDue(b) == running # "gone" /\ (compositor = "prompt" \/ b # current) /\ Release(b)
Greet == ~animating /\ running # "gone" /\ inbox = <<>> /\ \E s \in Sizes : SendConfigure(s)

FairSpec ==
  /\ Spec
  /\ WF_vars(Client)
  /\ WF_vars(Greet)
  /\ WF_vars(FinishFrame)
  /\ \A b \in Buffers : WF_vars(ReturnDue(b))
  /\ SF_vars(running # "gone" /\ FrameDue)

------------------------------------------------------------------------------
(* Properties *)

\* hello/shm.c: "a committed buffer is ON LOAN: we may not draw into it". A slot
\* that counts as free is read by nobody, and no release that was meant for an
\* earlier loan is still under way to free it again.
FreeMeansReturned ==
  running # "gone" =>
    \A i \in Slots : IsFree(buffer, busy, i) =>
      buffer[i] \notin held /\ ~ReleaseSent(buffer[i])

\* A busy slot comes back exactly once: the compositor still has the buffer, or
\* its release is on the wire, or its release point has been reached.
LoanEndsOnce ==
  running # "gone" =>
    \A i \in Slots : busy[i] =>
      /\ buffer[i] \in held <=> ~(ReleaseSent(buffer[i]) \/ buffer[i] \in returned)
      /\ Cardinality({j \in Pending("release") : inbox[j].arg = buffer[i]}) <= 1

\* A compositor that waits for the acquire point of a frame reads a finished
\* picture, whether the point came from a fence or from the host.
DrawnWhenAcquired ==
  mode = "explicit" => \A b \in held : MayRead(b) => ~Rendering(b)

\* No wl_buffer leaks: one that is alive belongs to a slot, or is an orphan
\* whose release, still to come, will destroy it.
NoBufferLeak ==
  running # "gone" =>
    \A b \in Buffers : Alive(b) =>
      (\E i \in Slots : buffer[i] = b) \/ (mode = "listener" /\ (b \in held \/ ReleaseSent(b)))

\* A buffer that the compositor reports through a listener is not destroyed while
\* the compositor may read it (hello/shm.c: "not earlier: the pages were being
\* read").  With explicit sync a resize gives up after 100 ms, and may.
NeverDestroyHeld ==
  [][(mode = "listener" /\ running' # "gone") =>
       \A b \in Buffers : (Alive(b) /\ sizeOf'[b] = None) => b \notin held]_vars

\* Once configured, the window shows a frame of the size last acknowledged: a
\* resize never meets a ring that is fully on loan, so its repaint is not skipped.
ContentMatchesAck ==
  animating => current # NoBuffer /\ (running # "gone" => sizeOf[current] = size)

\* There is one frame loop, not two and not none: of the requested, the armed and
\* the delivered callbacks there is exactly one, whatever configures come between.
OneCallback ==
  animating => scheduled + armed + Cardinality(Pending("frame")) = 1

\* An orphan of a resize is destroyed once the compositor is done with it.
OrphansDie ==
  \A b \in Buffers :
    (Alive(b) /\ \A i \in Slots : buffer[i] # b)
      ~> (~Alive(b) \/ (\E i \in Slots : buffer[i] = b) \/ running # "yes")

\* README, "Double vs triple": with a compositor that returns buffers promptly, two
\* slots ping-pong cleanly; the animation never stops, whatever resizes come.
FramesGoOn == (compositor = "prompt") => []<>(armed > 0 \/ running # "yes")

\* hello/shm.c, above shm_redraw: "If every slot is on loan, skip -- the next frame
\* callback tries again."  So a callback that has been requested is committed.
SkipIsRetried == (scheduled > 0) ~> (scheduled = 0 \/ running # "yes")

------------------------------------------------------------------------------
(* The inductive invariant behind the theorems of SlotRingProofs *)

Events ==
  [kind : {"toplevel", "xdg", "close", "frame"}, arg : Nat]
    \cup [kind : {"release"}, arg : Buffers]

\* Every variable is in its range.
TypeOK ==
  /\ mode \in AllModes /\ compositor \in AllCompositors
  /\ pending \in Nat \ {0} /\ size \in Nat /\ bufSize \in Nat
  /\ animating \in BOOLEAN /\ running \in {"yes", "no", "gone"}
  /\ buffer \in [Slots -> Buffers \cup {NoBuffer}] /\ busy \in [Slots -> BOOLEAN]
  /\ sizeOf \in [Buffers -> Nat]
  /\ scheduled \in Nat /\ armed \in Nat
  /\ held \subseteq Buffers /\ current \in Buffers \cup {NoBuffer}
  /\ rendering \in Seq(Buffers) /\ reached \subseteq Buffers /\ returned \subseteq Buffers
  /\ inbox \in Seq(Events)

\* The frame loop starts once and then has its one callback somewhere.
Callbacks ==
  /\ ~animating => scheduled = 0 /\ armed = 0 /\ Pending("frame") = {}
  /\ animating =>
       \/ scheduled + armed = 1 /\ Pending("frame") = {}
       \/ scheduled = 0 /\ armed = 0 /\ \E i \in Pending("frame") : Pending("frame") = {i}

\* The ring is there from the first configure on, all of it of the size
\* acknowledged, the window's content in one of its slots.
Slotted ==
  /\ \A i \in Slots : buffer[i] \in Buffers => SlotOf(buffer[i]) = i
  /\ bufSize = None => ~animating /\ \A i \in Slots : buffer[i] = NoBuffer /\ ~busy[i]
  /\ bufSize # None =>
       /\ animating /\ bufSize = size
       /\ current \in Buffers /\ InSlot(current)
       /\ \A i \in Slots : buffer[i] \in Buffers
       /\ running # "gone" => \A i \in Slots : sizeOf[buffer[i]] = size

\* No release is on the wire twice.
UniqueReleases ==
  \A j, k \in Pending("release") : inbox[j].arg = inbox[k].arg => j = k

\* A slot is busy exactly while its buffer is held, or its release is on the
\* wire, or its point has been reached; and what is alive is accounted for.
Loans ==
  /\ UniqueReleases
  /\ mode = "explicit" => \A b \in Buffers : ~ReleaseSent(b)
  /\ \A b \in returned : b \notin held
  /\ running # "gone" => \A b \in Buffers :
       /\ InSlot(b) => (busy[SlotOf(b)] <=> b \in held \/ ReleaseSent(b) \/ b \in returned)
       /\ mode = "listener" /\ b \in held => ~ReleaseSent(b)
       /\ mode = "listener" /\ (b \in held \/ ReleaseSent(b)) => Alive(b)
       /\ Alive(b) => InSlot(b) \/ (mode = "listener" /\ (b \in held \/ ReleaseSent(b)))

\* Points are kept for the slots' buffers only, and a reached one means that the
\* GPU is not drawing into the buffer; nor is it into a buffer never committed.
Points ==
  /\ mode = "listener" => rendering = <<>> /\ reached = {} /\ returned = {}
  /\ \A b \in reached \cup returned : InSlot(b) /\ ~Rendering(b)
  /\ \A j, k \in 1 .. Len(rendering) : rendering[j] = rendering[k] => j = k
  /\ \A b \in Buffers : InSlot(b) /\ ~busy[SlotOf(b)] => ~Rendering(b)

\* For every configure on the wire, each slot has a wl_buffer left.
Room ==
  running # "gone" =>
    \A i \in Slots : Cardinality(Unused(i)) >= Cardinality(Pending("xdg"))

RingInv == TypeOK /\ Callbacks /\ Slotted /\ Loans /\ Points /\ Room
==============================================================================
