------------------------------- MODULE AppInput ------------------------------
(***************************************************************************)
(* The client of common.c between its window and its scene: app_run's      *)
(* event loop on the Wayland socket and the camera's descriptor, and the   *)
(* handlers that turn the seat's events into the controls a frame is drawn *)
(* with (pointer, speed, effects, zoom) and advance the animation clock.   *)
(*                                                                         *)
(* The compositor sends on `wire`, in order; what was read waits in        *)
(* `queue`, the default event queue, for a dispatch.  Mesa shares the      *)
(* socket: a redraw may read it, into every queue.  Requests wait in       *)
(* `unsent` for a flush.  `user` is what the user did, kept by the sender. *)
(***************************************************************************)
EXTENDS Integers, Sequences, FiniteSets, SequencesExt

CONSTANTS
  Inputs,       \* bound: what may happen in one behaviour: [kinds of event, how many]
  MaxWire,      \* bound: events under way
  TimeMod,      \* 2^32: a frame's timestamp is modulo this
  Period,       \* 2048: the fills' period
  SpeedLimit,   \* 10.0 in the code; a scroll step is 1 here
  ZoomLimit,    \* 5.0 and 0.2 in the code, as exponents: +ZoomLimit and -ZoomLimit
  SplitBatches  \* the compositor may remove a pointer in mid-batch

ASSUME InputAssumption ==
  /\ \A i \in Inputs : i.events \in Nat
  /\ MaxWire \in Nat /\ SplitBatches \in BOOLEAN
  /\ TimeMod \in Nat \ {0} /\ Period \in Nat \ {0}
  /\ SpeedLimit \in Nat \ {0} /\ ZoomLimit \in Nat

Places == {1, 2}      \* where the pointer may be
Effects == {"1"}      \* the number keys that name an effect of the scene
Digits == {"1", "2"}  \* the number keys: one names no effect

VARIABLES
  pc,        \* where app_run is
  claimed,   \* wl_display_prepare_read holds the socket for this thread
  wire,      \* events sent and not yet read
  queue,     \* events read and not yet dispatched
  unsent,    \* requests made and not yet flushed
  bound,     \* what the compositor has been asked for and may send events to
  caps,      \* the seat's capabilities, as last sent
  aux,       \* the camera's descriptor
  woken,     \* poll reported the camera
  app,       \* struct app
  user,      \* the controls as the user set them
  batch,     \* what the user did in the pointer batch the compositor is sending
  allowed,   \* the kinds of event of this behaviour
  left,      \* how many more events the compositor sends
  now, drawn \* the compositor's time, and that of the last frame done

compVars == <<bound, caps, user, batch, left, now>>
vars == <<pc, claimed, wire, queue, unsent, aux, woken, app, allowed, drawn, compVars>>

Clamp(v, limit) == IF v > limit THEN limit ELSE IF v < -limit THEN -limit ELSE v

NoEvent == [motion |-> FALSE, x |-> 0, press |-> FALSE, serial |-> 0, axis |-> FALSE, v |-> 0]
NoBatch == [open |-> FALSE, at |-> 0, button |-> FALSE, press |-> 0, scrolled |-> 0]
Controls == [x |-> 0, moved |-> 0, speed |-> 1, effect |-> {}, mode |-> FALSE,
             paused |-> FALSE, zoom |-> 0]

------------------------------------------------------------------------------
(* The handlers' work on struct app *)

\* Faulty variants: only the last scroll event of a batch counts, the zoom is
\* integrated, the clock's last time stands still while paused, the socket is
\* claimed with events in the queue.
LastScroll(ev, e) == [ev EXCEPT !.axis = TRUE, !.v = e.v]
Integrated(a, e) == Clamp(a.c.zoom + e.v, ZoomLimit)
StopsWithPause(a, t) ==
  [a EXCEPT !.anim = IF a.last # 0 /\ ~a.c.paused
                     THEN @ + ((t - a.last) % TimeMod) * a.c.speed ELSE @,
            !.last = IF a.c.paused THEN @ ELSE t]
AnyTime == TRUE

\* app_advance_clock: the difference of two timestamps is taken modulo 2^32,
\* and a last time of 0 means that there was none.
AdvanceClock(a, t) ==
  [a EXCEPT !.anim = IF a.last # 0 /\ ~a.c.paused
                     THEN @ + ((t - a.last) % TimeMod) * a.c.speed ELSE @,
            !.last = t]

\* app_anim_time: C's fmod keeps the sign of the clock.
AnimTime(anim) ==
  LET r == IF anim >= 0 THEN anim % Period ELSE -((-anim) % Period)
  IN  IF r < 0 THEN r + Period ELSE r

\* on_pointer_enter and on_pointer_motion, on_pointer_button, on_pointer_axis
StageMotion(ev, e) == [ev EXCEPT !.motion = TRUE, !.x = e.v]
StageButton(ev, e) == [ev EXCEPT !.press = e.v, !.serial = e.serial]
StageAxis(ev, e) == [ev EXCEPT !.axis = TRUE, !.v = @ + e.v]

\* on_pointer_frame on the controls
ApplyFrame(c, ev) ==
  [c EXCEPT !.x = IF ev.motion THEN ev.x ELSE @,
            !.moved = IF ev.press THEN ev.serial ELSE @,
            !.speed = IF ev.axis THEN Clamp(@ - ev.v, SpeedLimit) ELSE @]

\* on_pinch_update: anchored to the zoom at the gesture's begin; e.v is an exponent
Zoomed(a, e) == Clamp(a.begin + e.v, ZoomLimit)

\* Escape under any modifiers; with Shift held the q key is another symbol.
Quits(k, plain) == k = "Escape" \/ (k = "q" /\ plain)

\* on_keyboard_key: the key e.v, by the mirrored modifiers
PressKey(a, e) ==
  CASE a.xkb = "none"                                -> a
    [] a.xkb # "none" /\ Quits(e.v, a.xkb = "plain") -> [a EXCEPT !.running = FALSE]
    [] a.xkb # "none" /\ e.v = "space"               -> [a EXCEPT !.c.paused = ~@]
    [] a.xkb # "none" /\ e.v = "e"                   -> [a EXCEPT !.c.effect = {}]
    [] a.xkb # "none" /\ e.v = "c"                   -> [a EXCEPT !.c.mode = ~@]
    [] a.xkb = "plain" /\ e.v \in Effects ->
         [a EXCEPT !.c.effect = SymDiff(@, {e.v})]
    [] OTHER                                         -> a

------------------------------------------------------------------------------
(* The loop: app_run *)

Running(p) == pc = p /\ UNCHANGED <<wire, allowed, drawn, compVars>>

Init ==
  /\ \E i \in Inputs : allowed = i.kinds /\ left = i.events
  /\ batch = NoBatch /\ drawn = -1
  /\ pc = "top" /\ claimed = FALSE /\ wire = <<>> /\ unsent = {"frame"} /\ woken = FALSE
  /\ queue \in {<<>>, <<[kind |-> "ping"]>>}   \* left over from the initialisation
  /\ aux = IF "camera" \in allowed THEN "idle" ELSE "none"
  /\ bound = {} /\ caps = {}
  /\ app = [c |-> Controls, begin |-> 0, ev |-> NoEvent, xkb |-> "none", running |-> TRUE,
            pointer |-> FALSE, keyboard |-> FALSE, last |-> 0, anim |-> 0]
  /\ user = [c |-> Controls, shift |-> FALSE, keymap |-> FALSE, quit |-> FALSE,
             pinching |-> FALSE, begin |-> 0]
  /\ now \in IF "frame" \in allowed THEN 0..TimeMod-1 ELSE {0}

\* wl_display_prepare_read fails while the default queue has events.
MayClaim == queue = <<>>

\* while (running); no request is lost if it is left here
Top ==
  /\ Running("top") /\ pc' = IF app.running THEN "drain" ELSE "done"
  /\ UNCHANGED <<claimed, queue, unsent, aux, woken, app>>

\* The inner loop dispatches until the claim succeeds.
PrepareRead ==
  /\ Running("drain") /\ MayClaim
  /\ claimed' = TRUE /\ pc' = "flush"
  /\ UNCHANGED <<queue, unsent, aux, woken, app>>

\* wl_display_flush: what the compositor hears of now
Flush ==
  /\ pc = "flush" /\ pc' = "poll"
  /\ bound' = bound \cup (unsent \cap (caps \cup {"frame"}))
  /\ unsent' = {}
  /\ UNCHANGED <<claimed, wire, queue, aux, woken, app, user, caps, batch, allowed, left, now, drawn>>

\* poll returns for the camera, the socket or both; POLLERR of the camera's
\* descriptor alone makes it return at once and is not looked at.
PollReturns ==
  /\ Running("poll") /\ (wire # <<>> \/ aux \in {"ready", "error"})
  /\ woken' = (aux = "ready")
  /\ IF wire # <<>> THEN pc' = "read" /\ UNCHANGED claimed
                    ELSE pc' = "dispatch" /\ claimed' = FALSE
  /\ UNCHANGED <<queue, unsent, aux, app>>

\* EINTR: cancel_read and again; POLLERR or POLLHUP on the socket: cancel and return
PollFails ==
  /\ Running("poll") /\ claimed' = FALSE
  /\ pc' \in {"top", "done"}
  /\ UNCHANGED <<queue, unsent, aux, woken, app>>

\* wl_display_read_events; it gives the claim back also when it fails
ReadEvents ==
  /\ pc = "read" /\ claimed' = FALSE
  /\ \/ pc' = "dispatch" /\ queue' = queue \o wire /\ wire' = <<>>
     \/ pc' = "done" /\ UNCHANGED <<queue, wire>>
  /\ UNCHANGED <<unsent, aux, woken, app, allowed, drawn, compVars>>

\* dispatch_pending fails once the connection has failed.
DispatchFails ==
  /\ pc \in {"drain", "dispatch"} /\ pc' = "done"
  /\ UNCHANGED <<claimed, wire, queue, unsent, aux, woken, app, allowed, drawn, compVars>>

\* The queue is empty: on_aux_fd, if poll reported the camera, drains it.
AuxHandler ==
  /\ Running("dispatch") /\ queue = <<>> /\ pc' = "top"
  /\ aux' = IF woken THEN "idle" ELSE aux
  /\ UNCHANGED <<claimed, queue, unsent, woken, app>>

Camera ==
  /\ aux = "idle" /\ pc # "done" /\ aux' \in {"ready", "error"}
  /\ UNCHANGED <<pc, claimed, wire, queue, unsent, woken, app, allowed, drawn, compVars>>

------------------------------------------------------------------------------
(* The handlers: dispatch_pending, in both places app_run calls it *)

Handles(kind) ==
  /\ pc \in {"drain", "dispatch"} /\ queue # <<>> /\ Head(queue).kind = kind
  /\ UNCHANGED <<pc, claimed, aux, woken, allowed, compVars>>

\* ... and draw nothing, so that nothing reads the socket
Quietly(kind) ==
  /\ Handles(kind) /\ queue' = Tail(queue) /\ UNCHANGED <<wire, drawn>>

NoRequest == UNCHANGED unsent

OnPointerMotion ==
  /\ Quietly("motion") /\ app' = [app EXCEPT !.ev = StageMotion(@, Head(queue))] /\ NoRequest

\* enter: set_cursor is answered at once
OnPointerEnter ==
  /\ Quietly("enter") /\ app' = [app EXCEPT !.ev = StageMotion(@, Head(queue))]
  /\ unsent' = unsent \cup {"set_cursor"}

OnPointerButton ==
  /\ Quietly("button") /\ app' = [app EXCEPT !.ev = StageButton(@, Head(queue))] /\ NoRequest

OnPointerAxis ==
  /\ Quietly("axis") /\ app' = [app EXCEPT !.ev = StageAxis(@, Head(queue))] /\ NoRequest

OnPointerFrame ==
  /\ Quietly("pframe")
  /\ app' = [app EXCEPT !.c = ApplyFrame(@, app.ev), !.ev = NoEvent]
  /\ unsent' = IF app.ev.press THEN unsent \cup {"move"} ELSE unsent

OnPinchBegin == Quietly("pbegin") /\ app' = [app EXCEPT !.begin = app.c.zoom] /\ NoRequest

OnPinchUpdate ==
  Quietly("pupdate") /\ app' = [app EXCEPT !.c.zoom = Zoomed(app, Head(queue))] /\ NoRequest

OnPinchEnd ==
  /\ Quietly("pend") /\ NoRequest
  /\ app' = IF Head(queue).v THEN [app EXCEPT !.c.zoom = app.begin] ELSE app

\* An unusable file descriptor keeps the old keymap, one that does not compile
\* leaves none; the modifiers of a new keymap are unset.
OnKeyboardKeymap ==
  /\ Quietly("keymap") /\ NoRequest
  /\ app' = [app EXCEPT !.xkb = CASE Head(queue).v = "good"  -> "plain"
                                  [] Head(queue).v = "no_xkb" -> "none"
                                  [] OTHER                    -> @]

OnKeyboardModifiers ==
  /\ Quietly("mods") /\ NoRequest
  /\ app' = IF app.xkb = "none" THEN app
            ELSE [app EXCEPT !.xkb = IF Head(queue).v THEN "shift" ELSE "plain"]

OnKeyboardKey == Quietly("key") /\ app' = PressKey(app, Head(queue)) /\ NoRequest

\* The staged batch and the keymap stay as they are.
OnSeatCapabilities ==
  /\ Quietly("caps")
  /\ LET c == Head(queue).v IN
     /\ app' = [app EXCEPT !.pointer = "pointer" \in c, !.keyboard = "keyboard" \in c]
     /\ unsent' = (unsent \cup {d \in c : ~app[d]})
                  \ ({"pointer", "keyboard"} \ c)

OnToplevelClose == Quietly("close") /\ app' = [app EXCEPT !.running = FALSE] /\ NoRequest

OnWmBasePing == Quietly("ping") /\ unsent' = unsent \cup {"pong"} /\ UNCHANGED app

\* The redraw commits the callback and flushes; swapping buffers may read the
\* socket, unless this thread holds the claim: then Mesa waits for ever.
OnFrameDone ==
  /\ Handles("frame")
  /\ app' = AdvanceClock(app, Head(queue).v % TimeMod)
  /\ drawn' = Head(queue).v
  /\ unsent' = unsent \cup {"frame"}
  /\ \/ queue' = Tail(queue) /\ UNCHANGED wire
     \/ ~claimed /\ queue' = Tail(queue) \o wire /\ wire' = <<>>

Handler ==
  \/ OnPointerEnter \/ OnPointerMotion \/ OnPointerButton \/ OnPointerAxis \/ OnPointerFrame
  \/ OnPinchBegin \/ OnPinchUpdate \/ OnPinchEnd
  \/ OnKeyboardKeymap \/ OnKeyboardModifiers \/ OnKeyboardKey
  \/ OnSeatCapabilities \/ OnToplevelClose \/ OnWmBasePing \/ OnFrameDone

------------------------------------------------------------------------------
(* The compositor, and the user in front of it *)

Sends(e) ==
  /\ pc # "done" /\ e.kind \in allowed
  /\ left > 0 /\ Len(wire) < MaxWire
  /\ wire' = Append(wire, e) /\ left' = left - 1
  /\ UNCHANGED <<pc, claimed, queue, unsent, aux, woken, app, allowed, drawn>>

\* A pointer batch: at most one button in it, as libinput's frames have.
PointerMoves ==
  /\ "pointer" \in bound
  /\ \E kind \in {"enter", "motion"}, x \in Places :
       LET e == [kind |-> kind, v |-> x] IN Sends(e) /\ batch' = [batch EXCEPT !.open = TRUE, !.at = x]
  /\ UNCHANGED <<bound, caps, user, now>>

ButtonOrScroll ==
  /\ "pointer" \in bound
  /\ \/ \E press \in BOOLEAN :
          LET e == [kind |-> "button", v |-> press, serial |-> left]
          IN  /\ ~batch.button /\ Sends(e)
              /\ batch' = [batch EXCEPT !.open = TRUE, !.button = TRUE,
                                        !.press = IF press THEN left ELSE @]
     \/ \E d \in {-1, 1} :
          /\ Sends([kind |-> "axis", v |-> d])
          /\ batch' = [batch EXCEPT !.open = TRUE, !.scrolled = @ + d]
  /\ UNCHANGED <<bound, caps, user, now>>

\* wl_pointer.frame: the user has moved, pressed and scrolled at once.
EndBatch ==
  /\ batch.open /\ Sends([kind |-> "pframe"]) /\ batch' = NoBatch
  /\ user' = [user EXCEPT !.c.x = IF batch.at # 0 THEN batch.at ELSE @,
                          !.c.moved = IF batch.press # 0 THEN batch.press ELSE @,
                          !.c.speed = Clamp(@ - batch.scrolled, SpeedLimit)]
  /\ UNCHANGED <<bound, caps, now>>

\* A pinch: its scale is cumulative, and a cancelled one was none.
Pinches ==
  /\ "pointer" \in bound
  /\ \/ /\ ~user.pinching /\ Sends([kind |-> "pbegin"])
        /\ user' = [user EXCEPT !.pinching = TRUE, !.begin = user.c.zoom]
     \/ \E d \in {-1, 1, 2} :
          /\ user.pinching /\ Sends([kind |-> "pupdate", v |-> d])
          /\ user' = [user EXCEPT !.c.zoom = Clamp(user.begin + d, ZoomLimit)]
     \/ \E cancelled \in BOOLEAN :
          /\ user.pinching /\ Sends([kind |-> "pend", v |-> cancelled])
          /\ user' = [user EXCEPT !.pinching = FALSE,
                                  !.c.zoom = IF cancelled THEN user.begin ELSE @]
  /\ UNCHANGED <<bound, caps, batch, now>>

\* A keymap is followed by the modifiers that are held.
SendKeymap ==
  /\ "keyboard" \in bound
  /\ \E m \in {"good", "bad_fd", "no_xkb"} :
       /\ "keymap" \in allowed /\ pc # "done" /\ left > 0 /\ Len(wire) < MaxWire
       /\ wire' = wire \o <<[kind |-> "keymap", v |-> m], [kind |-> "mods", v |-> user.shift]>>
       /\ user' = [user EXCEPT !.keymap = m = "good" \/ (m = "bad_fd" /\ @)]
  /\ left' = left - 1
  /\ UNCHANGED <<pc, claimed, queue, unsent, bound, caps, aux, woken, app, batch, allowed, now, drawn>>

Shifts ==
  /\ "keyboard" \in bound /\ Sends([kind |-> "mods", v |-> ~user.shift])
  /\ user' = [user EXCEPT !.shift = ~@]
  /\ UNCHANGED <<bound, caps, batch, now>>

\* What a key means to the user who knows whether the keymap is usable.
Meant(k) ==
  IF ~user.keymap THEN user
  ELSE [user EXCEPT
          !.quit = @ \/ Quits(k, ~user.shift),
          !.c.paused = IF k = "space" THEN ~@ ELSE @,
          !.c.mode = IF k = "c" THEN ~@ ELSE @,
          !.c.effect = IF k = "e" THEN {}
                       ELSE IF k \in Effects /\ ~user.shift THEN SymDiff(@, {k})
                       ELSE @]

PressesKey ==
  /\ "keyboard" \in bound
  /\ \E k \in ({"Escape", "q", "space", "e", "c"} \cup Digits) \cap allowed :
       Sends([kind |-> "key", v |-> k]) /\ user' = Meant(k)
  /\ UNCHANGED <<bound, caps, batch, now>>

\* Plugging and unplugging, one change after the other has been answered; the
\* objects of what is gone get no more events.
ChangeCaps ==
  /\ \A i \in DOMAIN (wire \o queue) : (wire \o queue)[i].kind # "caps"
  /\ unsent \cap {"pointer", "keyboard"} = {} /\ bound \ {"frame"} = caps
  /\ SplitBatches \/ (~batch.open /\ ~user.pinching)
  /\ \E c \in SUBSET {"pointer", "keyboard"} :
       /\ c # caps /\ Sends([kind |-> "caps", v |-> c]) /\ caps' = c
       /\ bound' = bound \cap (c \cup {"frame"})
  /\ batch' = NoBatch /\ user' = [user EXCEPT !.pinching = FALSE]
  /\ UNCHANGED now

SendFrame ==
  /\ "frame" \in bound /\ Sends([kind |-> "frame", v |-> now])
  /\ bound' = bound \ {"frame"} /\ UNCHANGED <<caps, user, batch, now>>

\* Two frames of a window are less than 2^32 ms apart.
Tick ==
  /\ "frame" \in allowed /\ pc # "done" /\ now - drawn < TimeMod - 1 /\ left > 0
  /\ now' = now + 1
  /\ UNCHANGED <<pc, claimed, wire, queue, unsent, bound, caps, aux, woken, app, user, batch,
                 allowed, left, drawn>>

SendOther ==
  /\ \E k \in {"ping", "close"} : Sends([kind |-> k])
  /\ UNCHANGED <<bound, caps, user, batch, now>>

Compositor ==
  \/ PointerMoves \/ ButtonOrScroll \/ EndBatch \/ Pinches \/ SendKeymap \/ Shifts
  \/ PressesKey \/ ChangeCaps \/ SendFrame \/ Tick \/ SendOther

Next ==
  \/ Top \/ PrepareRead \/ Flush \/ PollReturns \/ PollFails \/ ReadEvents \/ DispatchFails
  \/ AuxHandler \/ Handler \/ Camera \/ Compositor

Spec == Init /\ [][Next]_vars

------------------------------------------------------------------------------
(* Properties *)

\* Once everything sent has been dispatched, the controls are those the user
\* set: a batch is applied as one, with its last position and the sum of its
\* scrolling, a pinch is anchored where it began and a cancelled one leaves
\* nothing, keys count under the keymap and the modifiers the compositor gave.
ControlsFollowUser == wire = <<>> /\ queue = <<>> => app.c = user.c

\* When app_run waits in poll, no event waits for it and no request is kept
\* back; and it waits, or stops, with the socket claimed or not claimed as it
\* must be for Mesa, which reads the same socket while a frame is drawn.
WaitsIdle ==
  /\ pc = "poll" => queue = <<>> /\ unsent = {}
  /\ claimed <=> pc \in {"flush", "poll", "read"}

\* From frame to frame the animation moves by speed times the time that really
\* passed, or not at all while paused, whatever the timestamps' wrap: pausing
\* leaves no jump, reversing none in the shown time.  (After a timestamp of 0
\* the code takes the next frame for the first.)
ClockTrue ==
  [][ drawn' # drawn =>
        LET moved == IF app.c.paused \/ drawn = -1 \/ drawn % TimeMod = 0 THEN 0
                     ELSE app.c.speed * (drawn' - drawn)
        IN  /\ app'.anim = app.anim + moved
            /\ AnimTime(app'.anim) = (AnimTime(app.anim) + moved) % Period ]_vars
==============================================================================
