----------------------------- MODULE AppInputProofs ----------------------------
(***************************************************************************)
(* WaitsIdle, ClockTrue and ControlsFollowUser of AppInput, for any        *)
(* events, bounds, ranges and periods.  WaitsIdle alone is not inductive:  *)
(* the flush that poll follows empties the requests, but that the event    *)
(* queue is empty was settled one step earlier, when the socket was        *)
(* claimed, and nothing may refill it in between.  ClockTrue rests on      *)
(* ClockInv: the frame callbacks are one at a time, wherever the one is    *)
(* (asked for, known, sent, read), so that the last time the client kept   *)
(* is that of the frame before.  ControlsFollowUser says something only    *)
(* when nothing is under way; UserInv says what holds in between: there is *)
(* a run of the handlers over all that is under way, one state for each    *)
(* event, from struct app as it is to one that mirrors the user.  Sending  *)
(* makes the run longer by one state and dispatching takes its first, so   *)
(* that no induction over the events is needed.                            *)
(***************************************************************************)
EXTENDS AppInput, ModularArithmetic, SequenceTheorems, TLAPS

\* Between the claim and the read no event is in the queue.
ClaimedEmpty == pc \in {"flush", "poll"} => queue = <<>>

IdleInv == WaitsIdle /\ ClaimedEmpty

\* app_run starts unclaimed and at its top.
LEMMA IdleInit == Init => IdleInv
BY DEF Init, IdleInv, WaitsIdle, ClaimedEmpty

\* Handlers run in the two dispatch loops only: there nothing is claimed, and what
\* they read and request is for the next claim and the next flush.
LEMMA HandlerIdle == IdleInv /\ Handler => IdleInv'
<1> SUFFICES ASSUME IdleInv, Handler PROVE IdleInv'
  OBVIOUS
<1>1. pc \in {"drain", "dispatch"} /\ UNCHANGED <<pc, claimed>>
  BY DEF Handler, Quietly, Handles, OnPointerEnter, OnPointerMotion, OnPointerButton,
         OnPointerAxis, OnPointerFrame, OnPinchBegin, OnPinchUpdate, OnPinchEnd,
         OnKeyboardKeymap, OnKeyboardModifiers, OnKeyboardKey, OnSeatCapabilities,
         OnToplevelClose, OnWmBasePing, OnFrameDone
<1> QED
  BY <1>1 DEF IdleInv, WaitsIdle, ClaimedEmpty

\* The compositor and the user send on the wire only.
LEMMA CompositorIdle == IdleInv /\ Compositor => IdleInv'
<1> SUFFICES ASSUME IdleInv, Compositor PROVE IdleInv'
  OBVIOUS
<1>1. ASSUME NEW e, Sends(e) PROVE UNCHANGED <<pc, claimed, queue, unsent>>
  BY <1>1 DEF Sends
<1>2. UNCHANGED <<pc, claimed, queue, unsent>>
  <2>1. CASE PointerMoves \/ ButtonOrScroll \/ EndBatch
    BY <1>1, <2>1 DEF PointerMoves, ButtonOrScroll, EndBatch
  <2>2. CASE Pinches
    BY <1>1, <2>2 DEF Pinches
  <2>3. CASE SendKeymap
    BY <2>3 DEF SendKeymap
  <2>4. CASE Shifts \/ PressesKey \/ ChangeCaps
    BY <1>1, <2>4 DEF Shifts, PressesKey, ChangeCaps
  <2>5. CASE SendFrame \/ SendOther
    BY <1>1, <2>5 DEF SendFrame, SendOther
  <2>6. CASE Tick
    BY <2>6 DEF Tick
  <2> QED
    BY <2>1, <2>2, <2>3, <2>4, <2>5, <2>6 DEF Compositor
<1> QED
  BY <1>2 DEF IdleInv, WaitsIdle, ClaimedEmpty

\* Every step keeps IdleInv: the claim is taken on an empty queue only, and every
\* way out of the flush, the poll and the read gives it back.
LEMMA IdleStep == IdleInv /\ [Next]_vars => IdleInv'
<1> SUFFICES ASSUME IdleInv, [Next]_vars PROVE IdleInv'
  OBVIOUS
<1> USE DEF IdleInv, WaitsIdle, ClaimedEmpty, Running
<1>1. CASE Top
  BY <1>1 DEF Top
<1>2. CASE PrepareRead
  BY <1>2 DEF PrepareRead, MayClaim
<1>3. CASE Flush
  BY <1>3 DEF Flush
<1>4. CASE PollReturns
  BY <1>4 DEF PollReturns
<1>5. CASE PollFails
  BY <1>5 DEF PollFails
<1>6. CASE ReadEvents
  BY <1>6 DEF ReadEvents
<1>7. CASE DispatchFails
  BY <1>7 DEF DispatchFails
<1>8. CASE AuxHandler
  BY <1>8 DEF AuxHandler
<1>9. CASE Handler
  BY <1>9, HandlerIdle
<1>10. CASE Camera
  BY <1>10 DEF Camera
<1>11. CASE Compositor
  BY <1>11, CompositorIdle
<1>12. CASE UNCHANGED vars
  BY <1>12 DEF vars, compVars
<1> QED
  BY <1>1, <1>2, <1>3, <1>4, <1>5, <1>6, <1>7, <1>8, <1>9, <1>10, <1>11, <1>12 DEF Next

\* In every behaviour, whatever is sent and whenever: when app_run waits in poll no
\* event waits for it and no request is kept back, and the socket is claimed exactly
\* from prepare_read to read_events or cancel_read.
THEOREM WaitsIdleAlways == Spec => []WaitsIdle
<1>1. IdleInv => WaitsIdle
  BY DEF IdleInv
<1> QED
  BY IdleInit, IdleStep, <1>1, PTL DEF Spec

------------------------------------------------------------------------------
(* The clock *)

\* Everything that is under way, oldest first.
Pipe == queue \o wire

IsSeq(s) == s \in Seq({s[i] : i \in 1 .. Len(s)})
HasFields(r, F) == r = [f \in F |-> r[f]]

\* struct app, as far as the clock needs it.
AppFields == {"c", "begin", "ev", "xkb", "running", "pointer", "keyboard", "last", "anim"}
ShapedControls(c) == HasFields(c, DOMAIN Controls) /\ c.speed \in Int
ShapedStage(ev) == HasFields(ev, DOMAIN NoEvent) /\ ev.v \in Int
Shaped(a) ==
  HasFields(a, AppFields) /\ ShapedControls(a.c) /\ ShapedStage(a.ev) /\ a.anim \in Int
AppShape == Shaped(app)

IsFrame(e) == e.kind = "frame"
NoFrame(s) == \A i \in 1 .. Len(s) : ~IsFrame(s[i])
AtMostOneFrame(s) == \A i, j \in 1 .. Len(s) : IsFrame(s[i]) /\ IsFrame(s[j]) => i = j

\* What an event may carry: scrolling a number, a change of capabilities no more
\* than those, and a frame a time that is not before the last frame's.
Plausible(e, last, t) ==
  /\ e.kind = "axis" => e.v \in Int
  /\ e.kind = "caps" => "frame" \notin e.v
  /\ IsFrame(e) => e.v \in Nat /\ last <= e.v /\ e.v <= t
AllPlausible(s, last, t) == \A i \in 1 .. Len(s) : Plausible(s[i], last, t)

\* A frame callback is asked for, known to the compositor, or answered: one at a time.
OneFrame ==
  /\ AtMostOneFrame(Pipe)
  /\ "frame" \in bound \cup unsent => NoFrame(Pipe)
  /\ ~("frame" \in bound /\ "frame" \in unsent)

Times ==
  /\ now \in Nat /\ drawn \in Nat \cup {-1} /\ drawn <= now
  /\ now - (IF drawn = -1 THEN 0 ELSE drawn) < TimeMod
  /\ app.last = IF drawn = -1 THEN 0 ELSE drawn % TimeMod

Events == IsSeq(wire) /\ IsSeq(queue) /\ AllPlausible(Pipe, drawn, now) /\ OneFrame

ClockInv == Events /\ AppShape /\ Times

------------------------------------------------------------------------------
(* Sequences without a type of their own *)

\* A sequence of anything is one of its own elements.
LEMMA SeqIsSeq == ASSUME NEW S, NEW s \in Seq(S) PROVE IsSeq(s)
BY DEF IsSeq

\* Sending: one element more at the end.
LEMMA AppendedSeq ==
  ASSUME NEW s, IsSeq(s), NEW e
  PROVE  /\ IsSeq(Append(s, e)) /\ Len(s) \in Nat /\ Len(Append(s, e)) = Len(s) + 1
         /\ Append(s, e)[Len(s) + 1] = e
         /\ \A i \in 1 .. Len(s) : Append(s, e)[i] = s[i]
<1> DEFINE S == {s[i] : i \in 1 .. Len(s)} \cup {e}
<1>1. s \in Seq(S) /\ e \in S
  BY DEF IsSeq
<1>2. Append(s, e) \in Seq(S)
  BY <1>1
<1>3. IsSeq(Append(s, e))
  BY <1>2, SeqIsSeq
<1>4. /\ Len(s) \in Nat /\ Len(Append(s, e)) = Len(s) + 1
      /\ Append(s, e)[Len(s) + 1] = e
      /\ \A i \in 1 .. Len(s) : Append(s, e)[i] = s[i]
  BY <1>1
<1> QED BY <1>3, <1>4

\* Dispatching: the oldest element is gone.
LEMMA ShortenedSeq ==
  ASSUME NEW s, IsSeq(s), s # <<>>
  PROVE  /\ IsSeq(Tail(s)) /\ Len(s) \in Nat \ {0} /\ Len(Tail(s)) = Len(s) - 1
         /\ Head(s) = s[1]
         /\ \A i \in 1 .. Len(s) - 1 : Tail(s)[i] = s[i + 1]
<1> DEFINE S == {s[i] : i \in 1 .. Len(s)}
<1>1. s \in Seq(S)
  BY DEF IsSeq
<1>2. Tail(s) \in Seq(S) /\ Len(Tail(s)) = Len(s) - 1 /\ Len(s) \in Nat \ {0} /\ Head(s) = s[1]
  BY <1>1, HeadTailProperties, LenProperties, EmptySeq
<1>3. \A i \in 1 .. Len(Tail(s)) : Tail(s)[i] = s[i + 1]
  BY <1>1, HeadTailProperties
<1>4. \A i \in 1 .. Len(s) - 1 : Tail(s)[i] = s[i + 1]
  BY <1>2, <1>3
<1> QED BY <1>2, <1>4, SeqIsSeq

\* Two sequences, one behind the other.
LEMMA JoinedSeq ==
  ASSUME NEW s, IsSeq(s), NEW u, IsSeq(u)
  PROVE  /\ IsSeq(s \o u)
         /\ s \o <<>> = s /\ <<>> \o u = u
         /\ \A e : s \o Append(u, e) = Append(s \o u, e)
         /\ s # <<>> => s \o u # <<>> /\ Head(s \o u) = Head(s) /\ Tail(s \o u) = Tail(s) \o u
<1> DEFINE S == {s[i] : i \in 1 .. Len(s)} \cup {u[i] : i \in 1 .. Len(u)}
<1>1. s \in Seq(S) /\ u \in Seq(S)
  BY DEF IsSeq
<1>2. s \o u \in Seq(S)
  BY <1>1
<1>3. s \o <<>> = s /\ <<>> \o u = u
  BY <1>1, ConcatEmptySeq
<1>4. ASSUME NEW e PROVE s \o Append(u, e) = Append(s \o u, e)
  <2> DEFINE T == S \cup {e}
  <2>1. s \in Seq(T) /\ u \in Seq(T) /\ e \in T
    BY <1>1
  <2> HIDE DEF T
  <2>2. s \o Append(u, e) \in Seq(T) /\ Append(s \o u, e) \in Seq(T)
    BY <2>1
  <2>3. Len(s \o Append(u, e)) = Len(Append(s \o u, e))
    BY <2>1
  <2>4. \A i \in 1 .. Len(s \o Append(u, e)) : (s \o Append(u, e))[i] = Append(s \o u, e)[i]
    BY <2>1
  <2> QED BY <2>2, <2>3, <2>4, SeqEqual
<1>5. ASSUME s # <<>>
      PROVE  s \o u # <<>> /\ Head(s \o u) = Head(s) /\ Tail(s \o u) = Tail(s) \o u
  <2> HIDE DEF S
  <2>1. Len(s) \in Nat \ {0} /\ Len(u) \in Nat /\ Head(s) = s[1] /\ Tail(s) \in Seq(S)
        /\ Len(Tail(s)) = Len(s) - 1 /\ \A i \in 1 .. Len(Tail(s)) : Tail(s)[i] = s[i + 1]
    BY <1>1, <1>5, HeadTailProperties, LenProperties, EmptySeq
  <2>2. Len(s \o u) = Len(s) + Len(u) /\ (s \o u)[1] = s[1]
    BY <1>1, <2>1
  <2>3. s \o u # <<>> /\ Head(s \o u) = Head(s)
    BY <1>2, <2>1, <2>2, EmptySeq
  <2>4. /\ Tail(s \o u) \in Seq(S) /\ Len(Tail(s \o u)) = Len(s) + Len(u) - 1
        /\ \A i \in 1 .. Len(Tail(s \o u)) : Tail(s \o u)[i] = (s \o u)[i + 1]
    BY <1>2, <2>2, <2>3, HeadTailProperties
  <2>5. Tail(s) \o u \in Seq(S) /\ Len(Tail(s) \o u) = Len(s) + Len(u) - 1
    BY <1>1, <2>1
  <2>6. \A i \in 1 .. Len(Tail(s \o u)) : Tail(s \o u)[i] = (Tail(s) \o u)[i]
    <3> SUFFICES ASSUME NEW i \in 1 .. Len(s) + Len(u) - 1
                 PROVE  Tail(s \o u)[i] = (Tail(s) \o u)[i]
      BY <2>4
    <3>1. Tail(s \o u)[i] = (s \o u)[i + 1]
      BY <2>4
    <3>2. (s \o u)[i + 1] = IF i + 1 <= Len(s) THEN s[i + 1] ELSE u[i + 1 - Len(s)]
      BY <1>1, <2>1
    <3>3. (Tail(s) \o u)[i] = IF i <= Len(s) - 1 THEN Tail(s)[i] ELSE u[i - (Len(s) - 1)]
      BY <1>1, <2>1
    <3>4. i + 1 - Len(s) = i - (Len(s) - 1)
      BY <2>1
    <3> QED BY <2>1, <3>1, <3>2, <3>3, <3>4
  <2> QED BY <2>3, <2>4, <2>5, <2>6, SeqEqual
<1> QED BY <1>2, <1>3, <1>4, <1>5, SeqIsSeq

------------------------------------------------------------------------------
(* Frames in the pipe *)

\* Sending anything but a frame.
LEMMA SendQuiet ==
  ASSUME NEW s, IsSeq(s), NEW e, NEW last, NEW t, ~IsFrame(e), Plausible(e, last, t),
         AllPlausible(s, last, t), AtMostOneFrame(s)
  PROVE  /\ AllPlausible(Append(s, e), last, t) /\ AtMostOneFrame(Append(s, e))
         /\ NoFrame(s) => NoFrame(Append(s, e))
<1>1. /\ Len(s) \in Nat /\ Len(Append(s, e)) = Len(s) + 1
      /\ Append(s, e)[Len(s) + 1] = e
      /\ \A i \in 1 .. Len(s) : Append(s, e)[i] = s[i]
  BY AppendedSeq
<1>2. \A i \in 1 .. Len(Append(s, e)) : i \in 1 .. Len(s) \/ i = Len(s) + 1
  BY <1>1
<1>3. AllPlausible(Append(s, e), last, t)
  BY <1>1, <1>2 DEF AllPlausible
<1>4. AtMostOneFrame(Append(s, e))
  BY <1>1, <1>2 DEF AtMostOneFrame
<1>5. NoFrame(s) => NoFrame(Append(s, e))
  BY <1>1, <1>2 DEF NoFrame
<1> QED BY <1>3, <1>4, <1>5

\* Sending a frame where there is none.
LEMMA SendsFrame ==
  ASSUME NEW s, IsSeq(s), NEW e, NEW last, NEW t, Plausible(e, last, t),
         AllPlausible(s, last, t), NoFrame(s)
  PROVE  AllPlausible(Append(s, e), last, t) /\ AtMostOneFrame(Append(s, e))
<1>1. /\ Len(s) \in Nat /\ Len(Append(s, e)) = Len(s) + 1
      /\ Append(s, e)[Len(s) + 1] = e
      /\ \A i \in 1 .. Len(s) : Append(s, e)[i] = s[i]
  BY AppendedSeq
<1>2. \A i \in 1 .. Len(Append(s, e)) : i \in 1 .. Len(s) \/ i = Len(s) + 1
  BY <1>1
<1>3. AllPlausible(Append(s, e), last, t)
  BY <1>1, <1>2 DEF AllPlausible
<1>4. AtMostOneFrame(Append(s, e))
  BY <1>1, <1>2 DEF AtMostOneFrame, NoFrame
<1> QED BY <1>3, <1>4

\* Dispatching the oldest event.
LEMMA DispatchKeeps ==
  ASSUME NEW s, IsSeq(s), s # <<>>, NEW last, NEW t, AllPlausible(s, last, t), AtMostOneFrame(s)
  PROVE  /\ Plausible(Head(s), last, t)
         /\ AllPlausible(Tail(s), last, t) /\ AtMostOneFrame(Tail(s))
         /\ NoFrame(s) => NoFrame(Tail(s)) /\ ~IsFrame(Head(s))
         /\ IsFrame(Head(s)) => NoFrame(Tail(s))
<1>1. /\ Len(s) \in Nat \ {0} /\ Len(Tail(s)) = Len(s) - 1 /\ Head(s) = s[1]
      /\ \A i \in 1 .. Len(s) - 1 : Tail(s)[i] = s[i + 1]
  BY ShortenedSeq
<1>2. \A i \in 1 .. Len(Tail(s)) : i + 1 \in 1 .. Len(s) /\ Tail(s)[i] = s[i + 1] /\ i + 1 # 1
  BY <1>1
<1>3. 1 \in 1 .. Len(s)
  BY <1>1
<1>4. Plausible(Head(s), last, t) /\ AllPlausible(Tail(s), last, t)
  BY <1>1, <1>2, <1>3 DEF AllPlausible
<1>5. AtMostOneFrame(Tail(s))
  <2> SUFFICES ASSUME NEW i \in 1 .. Len(Tail(s)), NEW j \in 1 .. Len(Tail(s)),
                      IsFrame(Tail(s)[i]), IsFrame(Tail(s)[j])
               PROVE  i = j
    BY DEF AtMostOneFrame
  <2>1. i + 1 = j + 1
    BY <1>2 DEF AtMostOneFrame
  <2> QED BY <2>1
<1>6. NoFrame(s) => NoFrame(Tail(s)) /\ ~IsFrame(Head(s))
  BY <1>1, <1>2, <1>3 DEF NoFrame
<1>7. IsFrame(Head(s)) => NoFrame(Tail(s))
  BY <1>1, <1>2, <1>3 DEF NoFrame, AtMostOneFrame
<1> QED BY <1>4, <1>5, <1>6, <1>7

\* What Sends and the handlers do to the pipe.
LEMMA PipeSends ==
  ASSUME Events, NEW e, Sends(e)
  PROVE  /\ IsSeq(wire)' /\ IsSeq(queue)' /\ Pipe' = Append(Pipe, e) /\ IsSeq(Pipe)
         /\ UNCHANGED <<unsent, app, drawn, queue>>
<1>1. wire' = Append(wire, e) /\ UNCHANGED <<unsent, app, drawn, queue>>
  BY DEF Sends
<1>2. IsSeq(wire) /\ IsSeq(queue)
  BY DEF Events
<1>3. IsSeq(wire') /\ IsSeq(Pipe) /\ queue \o wire' = Append(Pipe, e)
  BY <1>1, <1>2, AppendedSeq, JoinedSeq DEF Pipe
<1> QED BY <1>1, <1>2, <1>3 DEF Pipe, IsSeq

\* Dispatching takes the oldest event off the pipe, also when a redraw reads the socket.
LEMMA PipeHandles ==
  ASSUME Events, queue # <<>>,
         \/ queue' = Tail(queue) /\ UNCHANGED wire
         \/ queue' = Tail(queue) \o wire /\ wire' = <<>>
  PROVE  /\ IsSeq(wire)' /\ IsSeq(queue)' /\ IsSeq(Pipe)
         /\ Pipe # <<>> /\ Head(Pipe) = Head(queue) /\ Pipe' = Tail(Pipe)
<1>1. IsSeq(wire) /\ IsSeq(queue)
  BY DEF Events
<1>2. /\ IsSeq(Pipe) /\ Pipe # <<>> /\ Head(Pipe) = Head(queue) /\ Tail(Pipe) = Tail(queue) \o wire
  BY <1>1, JoinedSeq DEF Pipe
<1>3. IsSeq(Tail(queue))
  BY <1>1, ShortenedSeq
<1>4. IsSeq(<<>>)
  BY DEF IsSeq
<1>5. IsSeq(Tail(queue) \o wire) /\ (Tail(queue) \o wire) \o <<>> = Tail(queue) \o wire
  BY <1>1, <1>3, JoinedSeq
<1>6. IsSeq(wire') /\ IsSeq(queue') /\ queue' \o wire' = Tail(queue) \o wire
  BY <1>1, <1>3, <1>4, <1>5
<1> QED BY <1>2, <1>6 DEF Pipe, IsSeq

------------------------------------------------------------------------------
(* The invariant's steps *)

\* No event, and one.
LEMMA ShortSeqs ==
  /\ IsSeq(<<>>) /\ Len(<<>>) = 0
  /\ \A e : IsSeq(<<e>>) /\ Len(<<e>>) = 1 /\ <<e>>[1] = e
<1>1. IsSeq(<<>>) /\ Len(<<>>) = 0
  BY DEF IsSeq
<1>2. ASSUME NEW e PROVE IsSeq(<<e>>) /\ Len(<<e>>) = 1 /\ <<e>>[1] = e
  <2>1. <<e>> \in Seq({e}) /\ Len(<<e>>) = 1 /\ <<e>>[1] = e
    OBVIOUS
  <2> QED BY <2>1, SeqIsSeq
<1> QED BY <1>1, <1>2

\* Nothing has been drawn, and one callback is asked for.
LEMMA ClockInit == Init => ClockInv
<1> SUFFICES ASSUME Init PROVE ClockInv
  OBVIOUS
<1>1. AppShape
  <2>1. ShapedControls(Controls) /\ ShapedStage(NoEvent)
    BY DEF ShapedControls, ShapedStage, HasFields, Controls, NoEvent
  <2>2. HasFields(app, AppFields) /\ app.c = Controls /\ app.ev = NoEvent /\ app.anim = 0
    BY DEF Init, HasFields, AppFields
  <2> QED BY <2>1, <2>2 DEF AppShape, Shaped
<1>2. Times
  BY InputAssumption DEF Init, Times
<1>3. wire = <<>> /\ queue \in {<<>>, <<[kind |-> "ping"]>>}
  BY DEF Init
<1>4. IsSeq(wire) /\ IsSeq(queue)
  BY <1>3, ShortSeqs
<1>5. Pipe = queue
  BY <1>3, <1>4, JoinedSeq DEF Pipe
<1>6. \A i \in 1 .. Len(queue) : i = 1 /\ queue[i].kind = "ping"
  <2>1. CASE queue = <<>>
    BY <2>1, ShortSeqs
  <2>2. CASE queue = <<[kind |-> "ping"]>>
    <3>1. \A r : r = [kind |-> "ping"] => r.kind = "ping"
      OBVIOUS
    <3>2. Len(queue) = 1 /\ queue[1].kind = "ping"
      BY <2>2, <3>1, ShortSeqs
    <3> QED BY <3>2
  <2> QED BY <1>3, <2>1, <2>2
<1>7. AllPlausible(Pipe, drawn, now)
  BY <1>5, <1>6 DEF AllPlausible, Plausible, IsFrame
<1>8. OneFrame
  BY <1>5, <1>6 DEF OneFrame, AtMostOneFrame, NoFrame, IsFrame, Init
<1> QED BY <1>1, <1>2, <1>4, <1>7, <1>8 DEF ClockInv, Events

\* The loop moves the pipe along and hands the request to the compositor.
LEMMA LoopClock ==
  ASSUME ClockInv,
         \/ Top \/ PrepareRead \/ Flush \/ PollReturns \/ PollFails \/ ReadEvents
         \/ DispatchFails \/ AuxHandler \/ Camera \/ UNCHANGED vars
  PROVE  ClockInv'
<1>1. CASE UNCHANGED <<wire, queue, unsent, bound, app, drawn, now>>
  BY <1>1 DEF ClockInv, Events, Times, AppShape, OneFrame, Pipe, IsSeq, HasFields
<1>2. CASE Flush
  <2>1. UNCHANGED <<wire, queue, app, drawn, now>> /\ unsent' = {}
        /\ bound' \subseteq bound \cup unsent
    BY <1>2 DEF Flush
  <2>2. OneFrame'
    BY <2>1 DEF ClockInv, Events, OneFrame, Pipe
  <2> QED BY <2>1, <2>2 DEF ClockInv, Events, Times, AppShape, Pipe, IsSeq, HasFields
<1>3. CASE ReadEvents
  <2>1. UNCHANGED <<unsent, bound, app, drawn, now>>
        /\ \/ queue' = queue \o wire /\ wire' = <<>>
           \/ UNCHANGED <<queue, wire>>
    BY <1>3 DEF ReadEvents, compVars
  <2>2. IsSeq(wire) /\ IsSeq(queue)
    BY DEF ClockInv, Events
  <2>3. IsSeq(queue \o wire) /\ (queue \o wire) \o <<>> = queue \o wire /\ IsSeq(<<>>)
    <3>1. IsSeq(queue \o wire) /\ IsSeq(<<>>)
      BY <2>2, JoinedSeq, ShortSeqs
    <3> QED BY <3>1, JoinedSeq
  <2>4. IsSeq(wire)' /\ IsSeq(queue)' /\ Pipe' = Pipe
    BY <2>1, <2>2, <2>3 DEF Pipe, IsSeq
  <2> QED BY <2>1, <2>4 DEF ClockInv, Events, Times, AppShape, OneFrame, HasFields
<1> QED
  BY <1>1, <1>2, <1>3
     DEF Top, PrepareRead, PollReturns, PollFails, DispatchFails, AuxHandler, Camera,
         Running, vars, compVars

\* Sending anything but a frame: no callback is used up, though one may be lost.
LEMMA SentClock ==
  ASSUME ClockInv, NEW e, Sends(e), ~IsFrame(e), Plausible(e, drawn, now),
         now' = now, "frame" \in bound' => "frame" \in bound
  PROVE  ClockInv'
<1>1. /\ IsSeq(wire)' /\ IsSeq(queue)' /\ Pipe' = Append(Pipe, e) /\ IsSeq(Pipe)
      /\ UNCHANGED <<unsent, app, drawn, queue>>
  BY PipeSends DEF ClockInv
<1>2. /\ AllPlausible(Append(Pipe, e), drawn, now) /\ AtMostOneFrame(Append(Pipe, e))
      /\ NoFrame(Pipe) => NoFrame(Append(Pipe, e))
  BY <1>1, SendQuiet DEF ClockInv, Events, OneFrame
<1>3. Events'
  BY <1>1, <1>2 DEF ClockInv, Events, OneFrame
<1>4. AppShape' /\ Times'
  BY <1>1 DEF ClockInv, AppShape, Times, HasFields
<1> QED BY <1>3, <1>4 DEF ClockInv

\* What a keymap and the modifiers behind it do to the pipe.
LEMMA PipeKeymap ==
  ASSUME Events, SendKeymap
  PROVE  \E v \in {"good", "bad_fd", "no_xkb"} : \E k, m :
           /\ k = [kind |-> "keymap", v |-> v] /\ m = [kind |-> "mods", v |-> user.shift]
           /\ IsSeq(wire)' /\ IsSeq(queue)' /\ IsSeq(Pipe) /\ Pipe' = Append(Append(Pipe, k), m)
           /\ UNCHANGED <<unsent, bound, app, now, drawn, batch>>
           /\ user' = [user EXCEPT !.keymap = v = "good" \/ (v = "bad_fd" /\ @)]
<1>1. PICK v \in {"good", "bad_fd", "no_xkb"} :
        /\ wire' = wire \o <<[kind |-> "keymap", v |-> v], [kind |-> "mods", v |-> user.shift]>>
        /\ user' = [user EXCEPT !.keymap = v = "good" \/ (v = "bad_fd" /\ @)]
  BY Zenon DEF SendKeymap
<1>2. PICK k, m : k = [kind |-> "keymap", v |-> v] /\ m = [kind |-> "mods", v |-> user.shift]
  OBVIOUS
<1>3. UNCHANGED <<queue, unsent, bound, app, now, drawn, batch>>
  BY DEF SendKeymap
<1>4. IsSeq(wire) /\ IsSeq(queue) /\ IsSeq(Pipe)
  BY JoinedSeq DEF Events, Pipe
<1>5. ASSUME NEW s, IsSeq(s) PROVE s \o <<k, m>> = Append(Append(s, k), m)
  <2>1. Append(<<k>>, m) = <<k, m>> /\ IsSeq(<<k>>)
    <3>1. Append(<<k>>, m) = <<k, m>>
      <4> DEFINE S == {k, m}
      <4>1. <<k>> \in Seq(S) /\ m \in S /\ Len(<<k>>) = 1 /\ <<k>>[1] = k
        OBVIOUS
      <4>2. <<k, m>> \in Seq(S) /\ Len(<<k, m>>) = 2 /\ <<k, m>>[1] = k /\ <<k, m>>[2] = m
        OBVIOUS
      <4>3. /\ Append(<<k>>, m) \in Seq(S) /\ Len(Append(<<k>>, m)) = 2
            /\ Append(<<k>>, m)[1] = k /\ Append(<<k>>, m)[2] = m
        BY <4>1
      <4>4. \A i \in 1 .. 2 : Append(<<k>>, m)[i] = <<k, m>>[i]
        BY <4>2, <4>3
      <4> QED BY <4>2, <4>3, <4>4, SeqEqual
    <3> QED BY <3>1, ShortSeqs
  <2>2. s \o <<k>> = Append(s, k)
    <3> DEFINE S == {s[i] : i \in 1 .. Len(s)} \cup {k}
    <3>1. s \in Seq(S) /\ k \in S
      BY <1>5 DEF IsSeq
    <3> QED BY <3>1, AppendIsConcat
  <2>3. s \o Append(<<k>>, m) = Append(s \o <<k>>, m)
    BY <1>5, <2>1, JoinedSeq
  <2> QED BY <2>1, <2>2, <2>3
<1>6. IsSeq(Append(wire, k)) /\ IsSeq(Append(Append(wire, k), m))
  <2>1. IsSeq(Append(wire, k))
    BY <1>4, AppendedSeq
  <2> QED BY <2>1, AppendedSeq
<1>7. wire' = Append(Append(wire, k), m)
  <2>1. wire' = wire \o <<k, m>>
    BY <1>1, <1>2, Zenon
  <2> QED BY <1>4, <1>5, <2>1
<1>8. queue \o wire' = Append(Append(Pipe, k), m)
  <2>1. queue \o Append(Append(wire, k), m) = Append(queue \o Append(wire, k), m)
    <3>1. \A u : IsSeq(u) => \A e : queue \o Append(u, e) = Append(queue \o u, e)
      BY <1>4, JoinedSeq
    <3> QED BY <1>6, <3>1
  <2>2. queue \o Append(wire, k) = Append(queue \o wire, k)
    BY <1>4, JoinedSeq
  <2> QED BY <1>7, <2>1, <2>2 DEF Pipe
<1>9. IsSeq(wire)' /\ IsSeq(queue)' /\ Pipe' = Append(Append(Pipe, k), m)
  BY <1>3, <1>4, <1>6, <1>7, <1>8 DEF Pipe, IsSeq
<1> QED BY <1>1, <1>2, <1>3, <1>4, <1>9, Zenon

\* A keymap and its modifiers are sent at once.
LEMMA KeymapClock == ASSUME ClockInv, SendKeymap PROVE ClockInv'
<1>1. PICK k, m :
        /\ k.kind = "keymap" /\ m.kind = "mods"
        /\ IsSeq(wire)' /\ IsSeq(queue)' /\ IsSeq(Pipe) /\ Pipe' = Append(Append(Pipe, k), m)
        /\ UNCHANGED <<unsent, bound, app, now, drawn>>
  <2>1. \A v, x : [kind |-> x, v |-> v].kind = x
    OBVIOUS
  <2> QED BY <2>1, PipeKeymap DEF ClockInv
<1>2. /\ ~IsFrame(k) /\ ~IsFrame(m) /\ Plausible(k, drawn, now) /\ Plausible(m, drawn, now)
  BY <1>1 DEF IsFrame, Plausible
<1>3. /\ AllPlausible(Append(Pipe, k), drawn, now) /\ AtMostOneFrame(Append(Pipe, k))
      /\ NoFrame(Pipe) => NoFrame(Append(Pipe, k))
      /\ IsSeq(Append(Pipe, k))
  BY <1>1, <1>2, SendQuiet, AppendedSeq DEF ClockInv, Events, OneFrame
<1>4. /\ AllPlausible(Append(Append(Pipe, k), m), drawn, now)
      /\ AtMostOneFrame(Append(Append(Pipe, k), m))
      /\ NoFrame(Pipe) => NoFrame(Append(Append(Pipe, k), m))
  BY <1>2, <1>3, SendQuiet
<1>5. Events'
  BY <1>1, <1>4 DEF ClockInv, Events, OneFrame
<1>6. AppShape' /\ Times'
  BY <1>1 DEF ClockInv, AppShape, Times, HasFields
<1> QED BY <1>5, <1>6 DEF ClockInv

\* A frame is sent for the callback the compositor knows of, with its time of now.
LEMMA FrameSentClock == ASSUME ClockInv, SendFrame PROVE ClockInv'
<1>1. PICK e : Sends(e) /\ e.kind = "frame" /\ e.v = now
  BY DEF SendFrame
<1>2. "frame" \in bound /\ bound' = bound \ {"frame"} /\ now' = now
  BY DEF SendFrame
<1>3. /\ IsSeq(wire)' /\ IsSeq(queue)' /\ Pipe' = Append(Pipe, e) /\ IsSeq(Pipe)
      /\ UNCHANGED <<unsent, app, drawn, queue>>
  BY <1>1, PipeSends DEF ClockInv
<1>4. Plausible(e, drawn, now) /\ NoFrame(Pipe)
  BY <1>1, <1>2 DEF ClockInv, Events, OneFrame, Times, Plausible, IsFrame
<1>5. AllPlausible(Append(Pipe, e), drawn, now) /\ AtMostOneFrame(Append(Pipe, e))
  BY <1>3, <1>4, SendsFrame DEF ClockInv, Events
<1>6. "frame" \notin bound' \cup unsent'
  BY <1>2, <1>3 DEF ClockInv, Events, OneFrame
<1>7. Events'
  BY <1>2, <1>3, <1>5, <1>6 DEF Events, OneFrame
<1>8. AppShape' /\ Times'
  BY <1>2, <1>3 DEF ClockInv, AppShape, Times, HasFields
<1> QED BY <1>7, <1>8 DEF ClockInv

\* Time goes on, less than the timestamps' range from frame to frame.
LEMMA TickClock == ASSUME ClockInv, Tick PROVE ClockInv'
<1>1. /\ UNCHANGED <<wire, queue, unsent, bound, app, drawn>> /\ now' = now + 1
      /\ now - drawn < TimeMod - 1
  BY DEF Tick
<1>2. Times'
  BY <1>1, InputAssumption DEF ClockInv, Times
<1>3. AllPlausible(Pipe, drawn, now + 1)
  <2>1. now \in Nat
    BY DEF ClockInv, Times
  <2>2. \A e : Plausible(e, drawn, now) => Plausible(e, drawn, now + 1)
    <3>1. \A v : v \in Nat /\ v <= now => v <= now + 1
      BY <2>1
    <3> QED BY <3>1 DEF Plausible
  <2> QED BY <2>2 DEF ClockInv, Events, AllPlausible
<1>4. Events' /\ AppShape'
  BY <1>1, <1>3 DEF ClockInv, Events, OneFrame, Pipe, AppShape, IsSeq, HasFields
<1> QED BY <1>2, <1>4 DEF ClockInv

\* The compositor sends one frame for each callback, and time goes on without the client.
LEMMA CompositorClock == ASSUME ClockInv, Compositor PROVE ClockInv'
<1>1. CASE PointerMoves
  <2>1. PICK e : Sends(e) /\ e.kind \in {"enter", "motion"}
    BY <1>1 DEF PointerMoves
  <2>2. UNCHANGED <<bound, now>>
    BY <1>1 DEF PointerMoves
  <2>3. ~IsFrame(e) /\ Plausible(e, drawn, now)
    BY <2>1 DEF IsFrame, Plausible
  <2> QED BY <2>1, <2>2, <2>3, SentClock
<1>2. CASE ButtonOrScroll
  <2>1. PICK e : Sends(e) /\ (e.kind = "button" \/ (e.kind = "axis" /\ e.v \in Int))
    <3>1. \A press : [kind |-> "button", v |-> press, serial |-> left].kind = "button"
      OBVIOUS
    <3>2. \A d \in {-1, 1} : [kind |-> "axis", v |-> d].kind = "axis"
                             /\ [kind |-> "axis", v |-> d].v \in Int
      OBVIOUS
    <3> QED BY <1>2, <3>1, <3>2 DEF ButtonOrScroll
  <2>2. UNCHANGED <<bound, now>>
    BY <1>2 DEF ButtonOrScroll
  <2>3. ~IsFrame(e) /\ Plausible(e, drawn, now)
    BY <2>1 DEF IsFrame, Plausible
  <2> QED BY <2>1, <2>2, <2>3, SentClock
<1>3. CASE EndBatch \/ Pinches \/ Shifts \/ PressesKey \/ SendOther
  <2>1. PICK e : Sends(e)
                 /\ e.kind \in {"pframe", "pbegin", "pupdate", "pend", "mods", "key", "ping", "close"}
    <3>1. \A k : [kind |-> k].kind = k /\ \A v : [kind |-> k, v |-> v].kind = k
      OBVIOUS
    <3>2. CASE EndBatch
      BY <3>1, <3>2 DEF EndBatch
    <3>3. CASE Pinches
      <4>1. \/ Sends([kind |-> "pbegin"])
            \/ \E v : Sends([kind |-> "pupdate", v |-> v])
            \/ \E v : Sends([kind |-> "pend", v |-> v])
        BY <3>3, Zenon DEF Pinches
      <4> QED BY <3>1, <4>1, Zenon
    <3>4. CASE Shifts \/ PressesKey
      BY <3>1, <3>4 DEF Shifts, PressesKey
    <3>5. CASE SendOther
      BY <3>1, <3>5 DEF SendOther
    <3> QED BY <1>3, <3>2, <3>3, <3>4, <3>5
  <2>2. UNCHANGED <<bound, now>>
    BY <1>3 DEF EndBatch, Pinches, Shifts, PressesKey, SendOther
  <2>3. ~IsFrame(e) /\ Plausible(e, drawn, now)
    BY <2>1 DEF IsFrame, Plausible
  <2> QED BY <2>1, <2>2, <2>3, SentClock
<1>4. CASE ChangeCaps
  <2>1. PICK e : /\ Sends(e) /\ e.kind = "caps" /\ e.v \in SUBSET {"pointer", "keyboard"}
                 /\ bound' \subseteq bound
    BY <1>4 DEF ChangeCaps
  <2>2. now' = now
    BY <1>4 DEF ChangeCaps
  <2>3. ~IsFrame(e) /\ Plausible(e, drawn, now)
    BY <2>1 DEF IsFrame, Plausible
  <2> QED BY <2>1, <2>2, <2>3, SentClock
<1>5. CASE SendKeymap
  BY <1>5, KeymapClock
<1>6. CASE SendFrame
  BY <1>6, FrameSentClock
<1>7. CASE Tick
  BY <1>7, TickClock
<1> QED BY <1>1, <1>2, <1>3, <1>4, <1>5, <1>6, <1>7 DEF Compositor

\* The handlers that draw nothing: they take one event off the pipe and leave the clock.
LEMMA QuietClock ==
  ASSUME ClockInv, NEW kind, kind # "frame", Quietly(kind), Shaped(app'),
         app'.last = app.last, "frame" \in unsent' => "frame" \in unsent
  PROVE  ClockInv'
<1>1. /\ queue # <<>> /\ Head(queue).kind = kind /\ queue' = Tail(queue)
      /\ UNCHANGED <<wire, bound, drawn, now>>
  BY DEF Quietly, Handles, compVars
<1>2. /\ IsSeq(wire)' /\ IsSeq(queue)' /\ IsSeq(Pipe)
      /\ Pipe # <<>> /\ Head(Pipe) = Head(queue) /\ Pipe' = Tail(Pipe)
  <2>1. queue' = Tail(queue) /\ UNCHANGED wire
    BY <1>1
  <2> QED BY <1>1, <2>1, PipeHandles DEF ClockInv
<1>3. /\ AllPlausible(Tail(Pipe), drawn, now) /\ AtMostOneFrame(Tail(Pipe))
      /\ NoFrame(Pipe) => NoFrame(Tail(Pipe))
  BY <1>2, DispatchKeeps DEF ClockInv, Events, OneFrame
<1>4. Events'
  BY <1>1, <1>2, <1>3 DEF ClockInv, Events, OneFrame
<1>5. AppShape' /\ Times'
  BY <1>1 DEF ClockInv, AppShape, Times
<1> QED BY <1>4, <1>5 DEF ClockInv

\* The oldest event is plausible too.
LEMMA HeadPlausible ==
  ASSUME ClockInv, queue # <<>>
  PROVE  Plausible(Head(queue), drawn, now) /\ (IsFrame(Head(queue)) => NoFrame(Tail(Pipe)))
<1>1. IsSeq(wire) /\ IsSeq(queue) /\ IsSeq(Pipe) /\ Pipe # <<>> /\ Head(Pipe) = Head(queue)
  BY JoinedSeq DEF ClockInv, Events, Pipe
<1> QED BY <1>1, DispatchKeeps DEF ClockInv, Events, OneFrame

\* Assigning one of struct app's fields.
LEMMA ShapedSet ==
  ASSUME NEW a, Shaped(a), NEW x \in AppFields, NEW v,
         x = "c" => ShapedControls(v), x = "ev" => ShapedStage(v), x = "anim" => v \in Int
  PROVE  /\ Shaped([a EXCEPT ![x] = v])
         /\ \A y \in AppFields : [a EXCEPT ![x] = v][y] = IF y = x THEN v ELSE a[y]
<1>1. /\ HasFields([a EXCEPT ![x] = v], AppFields)
      /\ \A y \in AppFields : [a EXCEPT ![x] = v][y] = IF y = x THEN v ELSE a[y]
  <2>1. HasFields(a, AppFields)
    BY DEF Shaped
  <2> QED BY <2>1 DEF HasFields
<1>2. {"c", "ev", "anim"} \subseteq AppFields
  BY DEF AppFields
<1> DEFINE b == [a EXCEPT ![x] = v]
<1>3. ShapedControls(b["c"]) /\ ShapedStage(b["ev"]) /\ b["anim"] \in Int
  BY <1>1, <1>2 DEF Shaped
<1> QED BY <1>1, <1>3 DEF Shaped

\* Assigning a field that leaves the clock's last time.
LEMMA ShapedKept ==
  ASSUME NEW x \in AppFields \ {"last"}, NEW v,
         x = "c" => ShapedControls(v), x = "ev" => ShapedStage(v), x = "anim" => v \in Int
  PROVE  \A a, b : Shaped(a) /\ b = [a EXCEPT ![x] = v] => Shaped(b) /\ b.last = a.last
<1>1. x \in AppFields /\ x # "last" /\ "last" \in AppFields
  BY DEF AppFields
<1>2. \A a : Shaped(a) => /\ Shaped([a EXCEPT ![x] = v])
                          /\ \A y \in AppFields :
                               [a EXCEPT ![x] = v][y] = IF y = x THEN v ELSE a[y]
  BY <1>1, ShapedSet
<1> QED BY <1>1, <1>2

\* Assigning one of the controls, or of the staged batch's fields.
LEMMA ControlsSet ==
  ASSUME NEW c, ShapedControls(c), NEW x, x = "speed" => FALSE, NEW v
  PROVE  ShapedControls([c EXCEPT ![x] = v])
<1>1. /\ HasFields([c EXCEPT ![x] = v], DOMAIN Controls)
      /\ \A y \in DOMAIN Controls : [c EXCEPT ![x] = v][y] = IF y = x THEN v ELSE c[y]
  <2>1. HasFields(c, DOMAIN Controls)
    BY DEF ShapedControls
  <2> QED BY <2>1 DEF HasFields
<1>2. "speed" \in DOMAIN Controls
  BY DEF Controls
<1> QED BY <1>1, <1>2 DEF ShapedControls

\* What the handlers assign keeps its shape.
LEMMA StagesShaped ==
  ASSUME NEW ev, ShapedStage(ev), NEW e
  PROVE  /\ ShapedStage(StageMotion(ev, e)) /\ ShapedStage(StageButton(ev, e))
         /\ e.v \in Int => ShapedStage(StageAxis(ev, e))
<1>1. HasFields(ev, DOMAIN NoEvent) /\ ev.v \in Int
  BY DEF ShapedStage
<1>2. "v" \in DOMAIN NoEvent
  BY DEF NoEvent
<1>3. /\ HasFields(StageMotion(ev, e), DOMAIN NoEvent) /\ StageMotion(ev, e).v = ev.v
      /\ HasFields(StageButton(ev, e), DOMAIN NoEvent) /\ StageButton(ev, e).v = ev.v
  BY <1>1, <1>2 DEF HasFields, StageMotion, StageButton
<1>4. HasFields(StageAxis(ev, e), DOMAIN NoEvent) /\ StageAxis(ev, e).v = ev.v + e.v
  BY <1>1, <1>2 DEF HasFields, StageAxis
<1> QED BY <1>1, <1>3, <1>4 DEF ShapedStage

\* The end of a batch keeps the shape of the controls and of the stage.
LEMMA FrameShaped ==
  ASSUME NEW c, ShapedControls(c), NEW ev, ShapedStage(ev)
  PROVE  ShapedControls(ApplyFrame(c, ev)) /\ ShapedStage(NoEvent)
<1>1. HasFields(c, DOMAIN Controls) /\ c.speed \in Int /\ ev.v \in Int
  BY DEF ShapedControls, ShapedStage
<1>2. "speed" \in DOMAIN Controls
  BY DEF Controls
<1>3. HasFields(ApplyFrame(c, ev), DOMAIN Controls)
  BY <1>1 DEF HasFields, ApplyFrame
<1>4. ApplyFrame(c, ev).speed \in Int
  <2>1. ApplyFrame(c, ev).speed = IF ev.axis THEN Clamp(c.speed - ev.v, SpeedLimit) ELSE c.speed
    BY <1>1, <1>2 DEF HasFields, ApplyFrame
  <2>2. \A n \in Int : Clamp(n, SpeedLimit) \in Int
    BY InputAssumption DEF Clamp
  <2> QED BY <1>1, <2>1, <2>2
<1>5. ShapedStage(NoEvent)
  BY DEF ShapedStage, HasFields, NoEvent
<1> QED BY <1>3, <1>4, <1>5 DEF ShapedControls

\* A key keeps the shape of struct app, and the clock's last time.
LEMMA KeyShaped ==
  ASSUME NEW a, Shaped(a), NEW e
  PROVE  Shaped(PressKey(a, e)) /\ PressKey(a, e).last = a.last
<1>1. ShapedControls(a.c)
  BY DEF Shaped
<1>2. \/ PressKey(a, e) = a
      \/ PressKey(a, e) = [a EXCEPT !.running = FALSE]
      \/ \E v : \E x \in {"paused", "effect", "mode"} :
           PressKey(a, e) = [a EXCEPT !.c = [a.c EXCEPT ![x] = v]]
  <2>1. CASE a.xkb = "none"
    BY <2>1 DEF PressKey
  <2>2. CASE a.xkb # "none" /\ Quits(e.v, a.xkb = "plain")
    BY <2>2 DEF PressKey, Effects, Quits
  <2>3. CASE a.xkb # "none" /\ e.v = "space"
    <3>1. PressKey(a, e) = [a EXCEPT !.c = [a.c EXCEPT !["paused"] = ~a.c.paused]]
      BY <2>3 DEF PressKey, Effects, Quits
    <3> QED BY <3>1, Zenon
  <2>4. CASE a.xkb # "none" /\ e.v = "e"
    <3>1. PressKey(a, e) = [a EXCEPT !.c = [a.c EXCEPT !["effect"] = {}]]
      BY <2>4 DEF PressKey, Effects, Quits
    <3> QED BY <3>1, Zenon
  <2>5. CASE a.xkb # "none" /\ e.v = "c"
    <3>1. PressKey(a, e) = [a EXCEPT !.c = [a.c EXCEPT !["mode"] = ~a.c.mode]]
      BY <2>5 DEF PressKey, Effects, Quits
    <3> QED BY <3>1, Zenon
  <2>6. CASE a.xkb # "none" /\ e.v \notin {"space", "e", "c"} /\ ~Quits(e.v, a.xkb = "plain")
    <3>1. CASE a.xkb = "plain" /\ e.v \in Effects
      <4>1. PressKey(a, e) = [a EXCEPT !.c = [a.c EXCEPT !["effect"] = SymDiff(@, {e.v})]]
        BY <2>6, <3>1 DEF PressKey, Effects, Quits
      <4> QED BY <4>1, Zenon
    <3>2. CASE ~(a.xkb = "plain" /\ e.v \in Effects)
      BY <2>6, <3>2 DEF PressKey, Effects, Quits
    <3> QED BY <3>1, <3>2
  <2> QED BY <2>1, <2>2, <2>3, <2>4, <2>5, <2>6
<1>3. CASE PressKey(a, e) = a
  BY <1>3
<1>4. CASE PressKey(a, e) = [a EXCEPT !.running = FALSE]
  <2>1. "running" \in AppFields /\ "last" \in AppFields
    BY DEF AppFields
  <2> QED BY <1>4, <2>1, ShapedSet
<1>5. ASSUME NEW x \in {"paused", "effect", "mode"}, NEW v,
             PressKey(a, e) = [a EXCEPT !.c = [a.c EXCEPT ![x] = v]]
      PROVE  Shaped(PressKey(a, e)) /\ PressKey(a, e).last = a.last
  <2>1. "c" \in AppFields /\ "last" \in AppFields
    BY DEF AppFields
  <2>2. PICK c : c = [a.c EXCEPT ![x] = v]
    OBVIOUS
  <2>3. ShapedControls(c)
    BY <1>1, <2>2, ControlsSet
  <2> QED BY <1>5, <2>1, <2>2, <2>3, ShapedSet
<1> QED BY <1>2, <1>3, <1>4, <1>5

\* A quiet handler that assigns one field of struct app and asks for no frame.
LEMMA QuietSetClock ==
  ASSUME ClockInv, NEW kind, kind # "frame", Quietly(kind),
         NEW x \in AppFields \ {"last"}, NEW v, app' = [app EXCEPT ![x] = v],
         x = "c" => ShapedControls(v), x = "ev" => ShapedStage(v), x = "anim" => v \in Int,
         "frame" \in unsent' => "frame" \in unsent
  PROVE  ClockInv'
<1>1. Shaped(app) /\ "last" \in AppFields
  BY DEF ClockInv, AppShape, AppFields
<1>2. \A a, b : Shaped(a) /\ b = [a EXCEPT ![x] = v] => Shaped(b) /\ b.last = a.last
  BY ShapedKept
<1>3. Shaped(app') /\ app'.last = app.last
  BY <1>1, <1>2
<1> QED BY <1>3, QuietClock

\* The frame callback: the only event that is used up for another request.
LEMMA FrameDoneClock == ASSUME ClockInv, OnFrameDone PROVE ClockInv'
<1>1. /\ queue # <<>> /\ Head(queue).kind = "frame"
      /\ \/ queue' = Tail(queue) /\ UNCHANGED wire
         \/ queue' = Tail(queue) \o wire /\ wire' = <<>>
      /\ drawn' = Head(queue).v /\ unsent' = unsent \cup {"frame"} /\ UNCHANGED <<bound, now>>
      /\ app' = AdvanceClock(app, drawn' % TimeMod)
  BY DEF OnFrameDone, Handles, compVars
<1>2. /\ IsSeq(wire)' /\ IsSeq(queue)' /\ IsSeq(Pipe)
      /\ Pipe # <<>> /\ Head(Pipe) = Head(queue) /\ Pipe' = Tail(Pipe)
  BY <1>1, PipeHandles DEF ClockInv
<1>3. IsFrame(Head(queue)) /\ Plausible(Head(queue), drawn, now) /\ NoFrame(Tail(Pipe))
  BY <1>1, HeadPlausible DEF IsFrame
<1>4. drawn' \in Nat /\ drawn <= drawn' /\ drawn' <= now
  BY <1>1, <1>3 DEF Plausible
<1>5. AllPlausible(Tail(Pipe), drawn', now)
  BY <1>2, <1>3, DispatchKeeps
     DEF ClockInv, Events, OneFrame, AllPlausible, Plausible, NoFrame
<1>6. "frame" \notin bound
  <2>1. ~NoFrame(Pipe)
    BY <1>2, <1>3, DispatchKeeps DEF ClockInv, Events, OneFrame
  <2> QED BY <2>1 DEF ClockInv, Events, OneFrame
<1>7. Events'
  BY <1>1, <1>2, <1>3, <1>5, <1>6 DEF Events, OneFrame, AtMostOneFrame, NoFrame
<1>8. PICK n \in Int : app' = [[app EXCEPT !.anim = n] EXCEPT !.last = drawn' % TimeMod]
  <2>1. app.anim \in Int /\ app.c.speed \in Int /\ app.last \in Int
    <3>1. app.anim \in Int /\ app.c.speed \in Int
      BY DEF ClockInv, AppShape, Shaped, ShapedControls
    <3>2. drawn \in Nat => drawn % TimeMod \in Int
      BY ModRange, InputAssumption
    <3> QED BY <3>1, <3>2 DEF ClockInv, Times
  <2>2. PICK t \in Int : t = drawn' % TimeMod
    <3>1. \A m \in Nat : m % TimeMod \in Int
      BY ModRange, InputAssumption
    <3> QED BY <1>4, <3>1
  <2>3. PICK d \in Int : d = (t - app.last) % TimeMod
    <3>1. PICK b \in Int : b = t - app.last
      BY <2>1
    <3> QED BY <3>1, ModRange, InputAssumption
  <2>4. PICK p \in Int : p = d * app.c.speed
    BY <2>1
  <2>5. \/ app' = [[app EXCEPT !.anim = app.anim + p] EXCEPT !.last = t]
        \/ app' = [[app EXCEPT !.anim = app.anim] EXCEPT !.last = t]
    BY <1>1, <2>2, <2>3, <2>4 DEF AdvanceClock
  <2>6. app.anim + p \in Int
    BY <2>1
  <2> QED BY <2>1, <2>2, <2>5, <2>6
<1>9. Shaped(app') /\ app'.last = drawn' % TimeMod
  <2>1. "anim" \in AppFields /\ "last" \in AppFields /\ Shaped(app)
    BY DEF AppFields, ClockInv, AppShape
  <2>2. PICK b : b = [app EXCEPT !.anim = n]
    OBVIOUS
  <2>3. Shaped(b)
    BY <2>1, <2>2, ShapedSet
  <2>4. PICK t : t = drawn' % TimeMod
    OBVIOUS
  <2>5. PICK d : d = [b EXCEPT !.last = t]
    OBVIOUS
  <2>6. Shaped(d) /\ d["last"] = t
    BY <2>1, <2>3, <2>5, ShapedSet
  <2> QED BY <1>8, <2>2, <2>4, <2>5, <2>6
<1>10. AppShape' /\ Times'
  <2>1. now - (IF drawn = -1 THEN 0 ELSE drawn) < TimeMod /\ now \in Nat
        /\ drawn \in Nat \cup {-1}
    BY DEF ClockInv, Times
  <2>2. now - drawn' < TimeMod
    <3>1. \A t, m, d \in Nat : t - m < TimeMod /\ m <= d => t - d < TimeMod
      BY InputAssumption
    <3>2. \A t, d \in Nat : t < TimeMod => t - d < TimeMod
      BY InputAssumption
    <3>3. PICK d \in Nat : d = drawn' /\ drawn <= d
      BY <1>4
    <3>4. drawn = -1 => now < TimeMod
      BY <2>1
    <3>5. drawn \in Nat => now - drawn < TimeMod
      BY <2>1
    <3> QED BY <2>1, <3>1, <3>2, <3>3, <3>4, <3>5
  <2>3. Times'
    BY <1>1, <1>4, <1>9, <2>1, <2>2 DEF Times
  <2> QED BY <1>9, <2>3 DEF AppShape
<1> QED BY <1>7, <1>10 DEF ClockInv

\* Every handler: the quiet ones assign the staged batch, a control or a flag.
LEMMA HandlerClock == ASSUME ClockInv, Handler PROVE ClockInv'
<1>1. Shaped(app) /\ ShapedControls(app.c) /\ ShapedStage(app.ev)
  BY DEF ClockInv, AppShape, Shaped
<1>2. /\ "c" \in AppFields /\ "begin" \in AppFields /\ "ev" \in AppFields /\ "xkb" \in AppFields
      /\ "running" \in AppFields /\ "pointer" \in AppFields /\ "keyboard" \in AppFields
      /\ "last" \in AppFields
  BY DEF AppFields
<1>3. CASE OnPointerEnter
  <2>1. PICK v : v = StageMotion(app.ev, Head(queue))
    OBVIOUS
  <2>2. Quietly("enter") /\ app' = [app EXCEPT !["ev"] = v]
        /\ ("frame" \in unsent' => "frame" \in unsent)
    BY <1>3, <2>1 DEF OnPointerEnter
  <2>3. ShapedStage(v)
    BY <1>1, <2>1, StagesShaped
  <2> QED BY <1>2, <2>2, <2>3, QuietSetClock
<1>4. CASE OnPointerMotion
  <2>1. PICK v : v = StageMotion(app.ev, Head(queue))
    OBVIOUS
  <2>2. Quietly("motion") /\ app' = [app EXCEPT !["ev"] = v] /\ unsent' = unsent
    BY <1>4, <2>1 DEF OnPointerMotion, NoRequest
  <2>3. ShapedStage(v)
    BY <1>1, <2>1, StagesShaped
  <2> QED BY <1>2, <2>2, <2>3, QuietSetClock
<1>5. CASE OnPointerButton
  <2>1. PICK v : v = StageButton(app.ev, Head(queue))
    OBVIOUS
  <2>2. Quietly("button") /\ app' = [app EXCEPT !["ev"] = v] /\ unsent' = unsent
    BY <1>5, <2>1 DEF OnPointerButton, NoRequest
  <2>3. ShapedStage(v)
    BY <1>1, <2>1, StagesShaped
  <2> QED BY <1>2, <2>2, <2>3, QuietSetClock
<1>6. CASE OnPointerAxis
  <2>1. PICK v : v = StageAxis(app.ev, Head(queue))
    OBVIOUS
  <2>2. Quietly("axis") /\ app' = [app EXCEPT !["ev"] = v] /\ unsent' = unsent
    BY <1>6, <2>1 DEF OnPointerAxis, NoRequest
  <2>3. Head(queue).v \in Int
    BY <2>2, HeadPlausible DEF Quietly, Handles, Plausible
  <2>4. ShapedStage(v)
    BY <1>1, <2>1, <2>3, StagesShaped
  <2> QED BY <1>2, <2>2, <2>4, QuietSetClock
<1>7. CASE OnPointerFrame
  <2>1. PICK c : c = ApplyFrame(app.c, app.ev)
    OBVIOUS
  <2>2. Quietly("pframe") /\ app' = [[app EXCEPT !["c"] = c] EXCEPT !["ev"] = NoEvent]
        /\ ("frame" \in unsent' => "frame" \in unsent)
    BY <1>7, <2>1 DEF OnPointerFrame
  <2>3. ShapedControls(c) /\ ShapedStage(NoEvent)
    BY <1>1, <2>1, FrameShaped
  <2>4. PICK a : a = [app EXCEPT !["c"] = c]
    OBVIOUS
  <2>5. Shaped(a) /\ a.last = app.last
    <3>1. \A r, b : Shaped(r) /\ b = [r EXCEPT !["c"] = c] => Shaped(b) /\ b.last = r.last
      BY <1>2, <2>3, ShapedKept
    <3> QED BY <1>1, <2>4, <3>1
  <2>6. PICK b : b = [a EXCEPT !["ev"] = NoEvent]
    OBVIOUS
  <2>7. Shaped(b) /\ b.last = a.last
    <3>1. \A r, d : Shaped(r) /\ d = [r EXCEPT !["ev"] = NoEvent] => Shaped(d) /\ d.last = r.last
      BY <1>2, <2>3, ShapedKept
    <3> QED BY <2>5, <2>6, <3>1
  <2>8. Shaped(app') /\ app'.last = app.last
    BY <2>2, <2>4, <2>5, <2>6, <2>7
  <2> QED BY <2>2, <2>8, QuietClock
<1>8. CASE OnPinchBegin
  <2>1. Quietly("pbegin") /\ app' = [app EXCEPT !["begin"] = app.c.zoom] /\ unsent' = unsent
    BY <1>8 DEF OnPinchBegin, NoRequest
  <2> QED BY <1>2, <2>1, QuietSetClock
<1>9. CASE OnPinchUpdate
  <2>1. PICK z : z = Zoomed(app, Head(queue))
    OBVIOUS
  <2>2. PICK c : c = [app.c EXCEPT !["zoom"] = z]
    OBVIOUS
  <2>3. Quietly("pupdate") /\ app' = [app EXCEPT !["c"] = c] /\ unsent' = unsent
    BY <1>9, <2>1, <2>2 DEF OnPinchUpdate, NoRequest
  <2>4. ShapedControls(c)
    BY <1>1, <2>2, ControlsSet
  <2> QED BY <1>2, <2>3, <2>4, QuietSetClock
<1>10. CASE OnPinchEnd
  <2>1. Quietly("pend") /\ unsent' = unsent
    BY <1>10 DEF OnPinchEnd, NoRequest
  <2>2. PICK c : c = [app.c EXCEPT !["zoom"] = app.begin]
    OBVIOUS
  <2>3. ShapedControls(c)
    BY <1>1, <2>2, ControlsSet
  <2>4. CASE app' = [app EXCEPT !["c"] = c]
    BY <1>2, <2>1, <2>3, <2>4, QuietSetClock
  <2>5. CASE app' = app
    BY <1>1, <2>1, <2>5, QuietClock
  <2> QED BY <1>10, <2>2, <2>4, <2>5 DEF OnPinchEnd
<1>11. CASE OnKeyboardKeymap
  <2>1. PICK v : app' = [app EXCEPT !["xkb"] = v]
    BY <1>11 DEF OnKeyboardKeymap
  <2>2. Quietly("keymap") /\ unsent' = unsent
    BY <1>11 DEF OnKeyboardKeymap, NoRequest
  <2> QED BY <1>2, <2>1, <2>2, QuietSetClock
<1>12. CASE OnKeyboardModifiers
  <2>1. Quietly("mods") /\ unsent' = unsent
    BY <1>12 DEF OnKeyboardModifiers, NoRequest
  <2>2. app' = app \/ \E v : app' = [app EXCEPT !["xkb"] = v]
    BY <1>12 DEF OnKeyboardModifiers
  <2>3. CASE app' = app
    BY <1>1, <2>1, <2>3, QuietClock
  <2>4. ASSUME NEW v, app' = [app EXCEPT !["xkb"] = v] PROVE ClockInv'
    BY <1>2, <2>1, <2>4, QuietSetClock
  <2> QED BY <2>2, <2>3, <2>4
<1>13. CASE OnKeyboardKey
  <2>1. Quietly("key") /\ unsent' = unsent /\ app' = PressKey(app, Head(queue))
    BY <1>13 DEF OnKeyboardKey, NoRequest
  <2>2. Shaped(app') /\ app'.last = app.last
    BY <1>1, <2>1, KeyShaped
  <2> QED BY <2>1, <2>2, QuietClock
<1>14. CASE OnSeatCapabilities
  <2>1. PICK p, k : app' = [[app EXCEPT !["pointer"] = p] EXCEPT !["keyboard"] = k]
    BY <1>14 DEF OnSeatCapabilities
  <2>2. Quietly("caps") /\ unsent' \subseteq unsent \cup Head(queue).v
    BY <1>14 DEF OnSeatCapabilities
  <2>3. "frame" \notin Head(queue).v
    BY <2>2, HeadPlausible DEF Quietly, Handles, Plausible
  <2>4. PICK a : a = [app EXCEPT !["pointer"] = p]
    OBVIOUS
  <2>5. Shaped(a) /\ a.last = app.last
    <3>1. \A r, b : Shaped(r) /\ b = [r EXCEPT !["pointer"] = p] => Shaped(b) /\ b.last = r.last
      BY <1>2, ShapedKept
    <3> QED BY <1>1, <2>4, <3>1
  <2>6. PICK b : b = [a EXCEPT !["keyboard"] = k]
    OBVIOUS
  <2>7. Shaped(b) /\ b.last = a.last
    <3>1. \A r, d : Shaped(r) /\ d = [r EXCEPT !["keyboard"] = k] => Shaped(d) /\ d.last = r.last
      BY <1>2, ShapedKept
    <3> QED BY <2>5, <2>6, <3>1
  <2>8. Shaped(app') /\ app'.last = app.last
    BY <2>1, <2>4, <2>5, <2>6, <2>7
  <2> QED BY <2>2, <2>3, <2>8, QuietClock
<1>15. CASE OnToplevelClose
  <2>1. Quietly("close") /\ app' = [app EXCEPT !["running"] = FALSE] /\ unsent' = unsent
    BY <1>15 DEF OnToplevelClose, NoRequest
  <2> QED BY <1>2, <2>1, QuietSetClock
<1>16. CASE OnWmBasePing
  <2>1. Quietly("ping") /\ app' = app /\ ("frame" \in unsent' => "frame" \in unsent)
    BY <1>16 DEF OnWmBasePing
  <2> QED BY <1>1, <2>1, QuietClock
<1>17. CASE OnFrameDone
  BY <1>17, FrameDoneClock
<1> QED
  BY <1>3, <1>4, <1>5, <1>6, <1>7, <1>8, <1>9, <1>10, <1>11, <1>12, <1>13, <1>14, <1>15, <1>16,
     <1>17 DEF Handler

\* Every step keeps ClockInv.
LEMMA ClockStep == ClockInv /\ [Next]_vars => ClockInv'
<1> SUFFICES ASSUME ClockInv, [Next]_vars PROVE ClockInv'
  OBVIOUS
<1>1. CASE Handler
  BY <1>1, HandlerClock
<1>2. CASE Compositor
  BY <1>2, CompositorClock
<1>3. CASE \/ Top \/ PrepareRead \/ Flush \/ PollReturns \/ PollFails \/ ReadEvents
           \/ DispatchFails \/ AuxHandler \/ Camera \/ UNCHANGED vars
  BY <1>3, LoopClock
<1> QED BY <1>1, <1>2, <1>3 DEF Next

------------------------------------------------------------------------------
(* The animation *)

\* app_anim_time's fmod, with its correction of negative clocks, is the remainder.
LEMMA AnimTimeMod == ASSUME NEW a \in Int PROVE AnimTime(a) = a % Period
<1>1. Period \in Nat \ {0}
  BY InputAssumption
<1>2. CASE a >= 0
  <2>1. a % Period \in 0 .. Period - 1
    BY <1>1, ModRange
  <2> QED BY <1>1, <1>2, <2>1 DEF AnimTime
<1>3. CASE a < 0
  <2>1. PICK b \in Int : b = -a
    OBVIOUS
  <2>2. PICK q \in Int, r \in 0 .. Period - 1 : b = Period * q + r /\ r = b % Period
    BY <1>1, ModRange
  <2>3. PICK p \in Int : p = -q
    OBVIOUS
  <2>4. PICK A \in Int, B \in Int : A = Period * q /\ B = Period * p /\ B = -A
    <3>1. Period * p = -(Period * q) /\ Period * p \in Int /\ Period * q \in Int
      BY <1>1, <2>3
    <3> QED BY <3>1
  <2>5. a = B - r
    BY <2>1, <2>2, <2>4
  <2>6. AnimTime(a) = IF -r < 0 THEN -r + Period ELSE -r
    <3>1. (-a) % Period = r /\ ~(a >= 0)
      <4>1. r = b % Period
        BY <2>2
      <4>2. (-a) % Period = b % Period
        BY <2>1
      <4>3. ~(a >= 0)
        BY <1>3
      <4> QED BY <4>1, <4>2, <4>3
    <3>2. PICK w : w = IF a >= 0 THEN a % Period ELSE -((-a) % Period)
      OBVIOUS
    <3>3. AnimTime(a) = IF w < 0 THEN w + Period ELSE w
      BY <3>2, Zenon DEF AnimTime
    <3>4. w = -r
      BY <3>1, <3>2
    <3> QED BY <3>3, <3>4
  <2>7. CASE r = 0
    <3>1. a = Period * p + 0 /\ 0 \in 0 .. Period - 1
      BY <1>1, <2>4, <2>5, <2>7
    <3>2. (Period * p + 0) % Period = 0
      BY <1>1, <3>1, ModUnique
    <3> QED BY <2>6, <2>7, <3>1, <3>2
  <2>8. CASE r # 0
    <3>1. PICK s \in 0 .. Period - 1 : s = Period - r
      BY <1>1, <2>8
    <3>2. PICK m \in Int : m = p - 1
      OBVIOUS
    <3>3. Period * m = B - Period
      BY <1>1, <2>4, <3>2
    <3>4. a = Period * m + s
      BY <1>1, <2>4, <2>5, <3>1, <3>3
    <3>5. (Period * m + s) % Period = s
      BY <1>1, ModUnique
    <3>6. AnimTime(a) = s
      BY <1>1, <2>6, <2>8, <3>1
    <3> QED BY <3>4, <3>5, <3>6
  <2> QED BY <2>7, <2>8
<1> QED BY <1>2, <1>3

\* Only the frame callback draws.
LEMMA DrawsOnlyFrames == [Next]_vars /\ drawn' # drawn => OnFrameDone
<1> SUFFICES ASSUME [Next]_vars, drawn' # drawn PROVE OnFrameDone
  OBVIOUS
<1>1. CASE Handler
  BY <1>1 DEF Handler, Quietly, OnPointerEnter, OnPointerMotion, OnPointerButton,
         OnPointerAxis, OnPointerFrame, OnPinchBegin, OnPinchUpdate, OnPinchEnd,
         OnKeyboardKeymap, OnKeyboardModifiers, OnKeyboardKey, OnSeatCapabilities,
         OnToplevelClose, OnWmBasePing
<1>2. CASE Compositor
  <2>1. ASSUME NEW e, Sends(e) PROVE drawn' = drawn
    BY <2>1 DEF Sends
  <2>2. PICK e : Sends(e)
    <3>1. CASE PointerMoves \/ ButtonOrScroll \/ EndBatch
      BY <3>1 DEF PointerMoves, ButtonOrScroll, EndBatch
    <3>2. CASE Pinches
      BY <3>2, Zenon DEF Pinches
    <3>3. CASE Shifts \/ PressesKey \/ ChangeCaps \/ SendFrame \/ SendOther
      BY <3>3 DEF Shifts, PressesKey, ChangeCaps, SendFrame, SendOther
    <3>4. CASE SendKeymap \/ Tick
      BY <3>4 DEF SendKeymap, Tick
    <3> QED BY <1>2, <3>1, <3>2, <3>3, <3>4 DEF Compositor
  <2> QED BY <2>1, <2>2
<1>3. CASE \/ Top \/ PrepareRead \/ Flush \/ PollReturns \/ PollFails \/ ReadEvents
           \/ DispatchFails \/ AuxHandler \/ Camera \/ UNCHANGED vars
  BY <1>3 DEF Top, PrepareRead, Flush, PollReturns, PollFails, ReadEvents, DispatchFails,
              AuxHandler, Camera, Running, vars
<1> QED BY <1>1, <1>2, <1>3 DEF Next

\* The clock's step: the wrapped difference of the wrapped times is the time that passed.
LEMMA FrameMovesClock ==
  ASSUME ClockInv, OnFrameDone
  PROVE  LET moved == IF app.c.paused \/ drawn = -1 \/ drawn % TimeMod = 0 THEN 0
                      ELSE app.c.speed * (drawn' - drawn)
         IN  /\ app'.anim = app.anim + moved
             /\ AnimTime(app'.anim) = (AnimTime(app.anim) + moved) % Period
<1> DEFINE moved == IF app.c.paused \/ drawn = -1 \/ drawn % TimeMod = 0 THEN 0
                    ELSE app.c.speed * (drawn' - drawn)
<1>1. /\ queue # <<>> /\ Head(queue).kind = "frame" /\ drawn' = Head(queue).v
      /\ app' = AdvanceClock(app, drawn' % TimeMod)
  BY DEF OnFrameDone, Handles
<1>2. drawn' \in Nat /\ drawn <= drawn' /\ drawn' <= now
  BY <1>1, HeadPlausible DEF IsFrame, Plausible
<1>3. /\ app.anim \in Int /\ app.c.speed \in Int
      /\ HasFields(app, AppFields) /\ "anim" \in AppFields /\ "last" \in AppFields
  BY DEF ClockInv, AppShape, Shaped, ShapedControls, AppFields
<1>4. app'.anim = IF app.last # 0 /\ ~app.c.paused
                  THEN app.anim + (((drawn' % TimeMod) - app.last) % TimeMod) * app.c.speed
                  ELSE app.anim
  BY <1>1, <1>3 DEF AdvanceClock, HasFields
<1>5. app.last # 0 <=> drawn # -1 /\ drawn % TimeMod # 0
  BY DEF ClockInv, Times
<1>6. app'.anim = app.anim + moved /\ moved \in Int
  <2>1. CASE app.last # 0 /\ ~app.c.paused
    <3>1. PICK b \in Nat : b = drawn'
      BY <1>2
    <3>2. PICK a \in Nat : a = drawn
      BY <1>5, <2>1 DEF ClockInv, Times
    <3>3. TimeMod \in Nat \ {0} /\ b - a \in 0 .. TimeMod - 1
      <4>1. now \in Nat /\ now - a < TimeMod /\ a <= b /\ b <= now
        BY <1>2, <3>1, <3>2 DEF ClockInv, Times
      <4> QED BY <4>1, InputAssumption
    <3>4. ((b % TimeMod) - (a % TimeMod)) % TimeMod = b - a
      <4>1. \A x, y \in Int : y - x \in 0 .. TimeMod - 1
                             => ((y % TimeMod) - (x % TimeMod)) % TimeMod = y - x
        BY <3>3, ModDifference
      <4>2. a \in Int /\ b \in Int
        OBVIOUS
      <4> QED BY <3>3, <4>1, <4>2
    <3>5. app.last = a % TimeMod
      BY <3>2 DEF ClockInv, Times
    <3>6. app'.anim = app.anim + (b - a) * app.c.speed
      BY <1>4, <2>1, <3>1, <3>4, <3>5
    <3>7. moved = app.c.speed * (b - a)
      BY <1>5, <2>1, <3>1, <3>2
    <3>8. (b - a) * app.c.speed = app.c.speed * (b - a) /\ moved \in Int
      BY <1>3, <3>7
    <3> QED BY <3>6, <3>7, <3>8
  <2>2. CASE ~(app.last # 0 /\ ~app.c.paused)
    BY <1>3, <1>4, <1>5, <2>2
  <2> QED BY <2>1, <2>2
<1>7. AnimTime(app'.anim) = (AnimTime(app.anim) + moved) % Period
  <2> HIDE DEF moved
  <2>1. PICK n \in Int, m \in Int : n = app.anim /\ m = moved
    BY <1>3, <1>6
  <2>2. PICK k \in Int : k = n + m
    OBVIOUS
  <2>3. AnimTime(n) = n % Period /\ AnimTime(k) = k % Period
    BY AnimTimeMod
  <2>4. ((n % Period) + m) % Period = (n + m) % Period
    BY ModPlus, InputAssumption
  <2> QED BY <1>6, <2>1, <2>2, <2>3, <2>4
<1> QED BY <1>6, <1>7

\* ClockTrue: the clock neither jumps nor drifts, for any timestamps' range, period,
\* speed limit and order of events: at most one frame callback is under way, and its time
\* is less than the timestamps' range after the last frame's.
THEOREM ClockTrueAlways == Spec => ClockTrue
<1>1. ClockInv /\ [Next]_vars =>
        [drawn' # drawn =>
          LET moved == IF app.c.paused \/ drawn = -1 \/ drawn % TimeMod = 0 THEN 0
                       ELSE app.c.speed * (drawn' - drawn)
          IN  /\ app'.anim = app.anim + moved
              /\ AnimTime(app'.anim) = (AnimTime(app.anim) + moved) % Period]_vars
  BY DrawsOnlyFrames, FrameMovesClock
<1> QED BY <1>1, ClockInit, ClockStep, PTL DEF Spec, ClockTrue

------------------------------------------------------------------------------
(* The controls and the user *)

\* What the handlers make of the staged batch, the keymap and the controls.
Staged(ev, e) ==
  CASE e.kind \in {"enter", "motion"} -> StageMotion(ev, e)
    [] e.kind = "button" -> StageButton(ev, e)
    [] e.kind = "axis"   -> StageAxis(ev, e)
    [] e.kind = "pframe" -> NoEvent
    [] OTHER             -> ev

Keyboard(xkb, e) ==
  CASE e.kind = "keymap" /\ e.v = "good"   -> "plain"
    [] e.kind = "keymap" /\ e.v = "no_xkb" -> "none"
    [] e.kind = "mods" /\ xkb # "none"     -> IF e.v THEN "shift" ELSE "plain"
    [] OTHER                               -> xkb

Keyed(c, xkb, k) ==
  CASE xkb # "none" /\ k = "space"      -> [c EXCEPT !.paused = ~@]
    [] xkb # "none" /\ k = "e"          -> [c EXCEPT !.effect = {}]
    [] xkb # "none" /\ k = "c"          -> [c EXCEPT !.mode = ~@]
    [] xkb = "plain" /\ k \in Effects   -> [c EXCEPT !.effect = SymDiff(@, {k})]
    [] OTHER                            -> c

Controlled(a, e) ==
  CASE e.kind = "pframe"           -> ApplyFrame(a.c, a.ev)
    [] e.kind = "pupdate"          -> [a.c EXCEPT !.zoom = Zoomed(a, e)]
    [] e.kind = "pend" /\ e.v      -> [a.c EXCEPT !.zoom = a.begin]
    [] e.kind = "key"              -> Keyed(a.c, a.xkb, e.v)
    [] OTHER                       -> a.c

\* What of struct app the controls depend on, before and after event e.
Same(a, b) == a.c = b.c /\ a.ev = b.ev /\ a.begin = b.begin /\ a.xkb = b.xkb
After(a, e) ==
  [c |-> Controlled(a, e), ev |-> Staged(a.ev, e), xkb |-> Keyboard(a.xkb, e),
   begin |-> IF e.kind = "pbegin" THEN a.c.zoom ELSE a.begin]

\* The batch staged is what the user did in it.
StagedIs(ev) ==
  /\ HasFields(ev, DOMAIN NoEvent)
  /\ ev.motion = (batch.at # 0) /\ (batch.at # 0 => ev.x = batch.at)
  /\ ev.press = (batch.press # 0) /\ (batch.press # 0 => ev.serial = batch.press)
  /\ ev.v = batch.scrolled /\ ev.axis \in BOOLEAN /\ (batch.scrolled # 0 => ev.axis)

KeymapIs(xkb) ==
  /\ xkb \in {"none", "plain", "shift"} /\ (user.keymap <=> xkb # "none")
  /\ xkb # "none" => (xkb = "shift" <=> user.shift)

\* With everything under way dispatched, struct app would be what the user expects.
Mirrors(a) ==
  /\ a.c = user.c /\ StagedIs(a.ev) /\ KeymapIs(a.xkb)
  /\ user.pinching => a.begin = user.begin

\* The sender's state.
UserFields == {"c", "shift", "keymap", "quit", "pinching", "begin"}
UserShape ==
  /\ HasFields(user, UserFields) /\ HasFields(user.c, DOMAIN Controls)
  /\ user.c.speed \in -SpeedLimit .. SpeedLimit
  /\ user.shift \in BOOLEAN /\ user.keymap \in BOOLEAN /\ user.pinching \in BOOLEAN
  /\ HasFields(batch, DOMAIN NoBatch) /\ batch.scrolled \in Int
  /\ batch.open \/ batch = NoBatch
  /\ batch.button \/ batch.press = 0

\* A run of the handlers over the events s, from h[1] on.
Trace(h, s) == \A i \in 1 .. Len(s) : Same(h[i + 1], After(h[i], s[i]))
Leads(h) == Same(h[1], app) /\ Trace(h, Pipe) /\ Mirrors(h[Len(Pipe) + 1])

UserInv == UserShape /\ \E h : Leads(h)

\* What an event does depends on the parts that Same compares.
LEMMA SameAfter ==
  ASSUME NEW a, NEW b, Same(a, b), NEW e
  PROVE  After(a, e) = After(b, e)
BY DEF Same, After, Controlled, Zoomed

\* One event more at the end of the pipe: the run takes one step more.
LEMMA TraceAppend ==
  ASSUME NEW s, IsSeq(s), NEW h, Trace(h, s), NEW e
  PROVE  \E g : g[1] = h[1] /\ Trace(g, Append(s, e))
                /\ g[Len(Append(s, e)) + 1] = After(h[Len(s) + 1], e)
<1>1. /\ Len(s) \in Nat /\ Len(Append(s, e)) = Len(s) + 1
      /\ Append(s, e)[Len(s) + 1] = e
      /\ \A i \in 1 .. Len(s) : Append(s, e)[i] = s[i]
  BY AppendedSeq
<1>2. PICK n \in Nat : n = Len(s)
  BY <1>1
<1>3. PICK b : b = After(h[n + 1], e)
  OBVIOUS
<1>4. PICK g : g = [i \in 1 .. n + 2 |-> IF i <= n + 1 THEN h[i] ELSE b]
  OBVIOUS
<1>5. g[1] = h[1] /\ g[n + 2] = b /\ \A i \in 1 .. n + 1 : g[i] = h[i]
  BY <1>4
<1>6. ASSUME NEW i \in 1 .. n + 1 PROVE Same(g[i + 1], After(g[i], Append(s, e)[i]))
  <2>1. CASE i = n + 1
    <3>1. g[i + 1] = b /\ g[i] = h[n + 1] /\ Append(s, e)[i] = e
      BY <1>1, <1>2, <1>5, <2>1
    <3> QED BY <1>3, <3>1 DEF Same
  <2>2. CASE i # n + 1
    <3>1. i \in 1 .. n /\ i + 1 \in 1 .. n + 1
      BY <2>2
    <3>2. g[i + 1] = h[i + 1] /\ g[i] = h[i] /\ Append(s, e)[i] = s[i]
      BY <1>1, <1>2, <1>5, <3>1
    <3>3. Same(h[i + 1], After(h[i], s[i]))
      BY <1>2, <3>1 DEF Trace
    <3> QED BY <3>2, <3>3
  <2> QED BY <2>1, <2>2
<1>7. Trace(g, Append(s, e))
  BY <1>1, <1>2, <1>6 DEF Trace
<1>8. g[Len(Append(s, e)) + 1] = After(h[Len(s) + 1], e)
  <2>1. Len(Append(s, e)) + 1 = n + 2
    BY <1>1, <1>2
  <2> QED BY <1>2, <1>3, <1>5, <2>1
<1>9. g[1] = h[1]
  BY <1>5
<1> QED BY <1>7, <1>8, <1>9, Zenon

\* The oldest event is dispatched: the run has begun with it.
LEMMA TraceTail ==
  ASSUME NEW s, IsSeq(s), s # <<>>, NEW h, Trace(h, s)
  PROVE  \E g : Same(g[1], After(h[1], Head(s))) /\ Trace(g, Tail(s))
                /\ g[Len(Tail(s)) + 1] = h[Len(s) + 1]
<1>1. /\ Len(s) \in Nat \ {0} /\ Len(Tail(s)) = Len(s) - 1 /\ Head(s) = s[1]
      /\ \A i \in 1 .. Len(s) - 1 : Tail(s)[i] = s[i + 1]
  BY ShortenedSeq
<1>2. PICK n \in Nat : n = Len(s) - 1
  <2>1. \A k \in Nat \ {0} : k - 1 \in Nat
    OBVIOUS
  <2> QED BY <1>1, <2>1
<1>3. PICK g : g = [i \in 1 .. n + 1 |-> h[i + 1]]
  OBVIOUS
<1>4. \A i \in 1 .. n + 1 : g[i] = h[i + 1]
  BY <1>3
<1>5. Len(s) = n + 1 /\ Len(Tail(s)) = n
  BY <1>1, <1>2
<1>6. Same(g[1], After(h[1], Head(s)))
  <2>1. 1 \in 1 .. Len(s) /\ g[1] = h[1 + 1]
    BY <1>4, <1>5
  <2>2. Same(h[1 + 1], After(h[1], s[1]))
    BY <2>1 DEF Trace
  <2> QED BY <1>1, <2>1, <2>2
<1>7. ASSUME NEW i \in 1 .. n PROVE Same(g[i + 1], After(g[i], Tail(s)[i]))
  <2>1. PICK j : j = i + 1
    OBVIOUS
  <2>2. j \in 1 .. Len(s) /\ g[i] = h[j] /\ g[i + 1] = h[j + 1] /\ Tail(s)[i] = s[j]
    BY <1>1, <1>4, <1>5, <2>1
  <2>3. Same(h[j + 1], After(h[j], s[j]))
    BY <2>2 DEF Trace
  <2> QED BY <2>2, <2>3
<1>8. Trace(g, Tail(s))
  BY <1>5, <1>7 DEF Trace
<1>9. g[n + 1] = h[n + 1 + 1]
  BY <1>4
<1>10. g[Len(Tail(s)) + 1] = h[Len(s) + 1]
  BY <1>5, <1>9
<1> QED BY <1>6, <1>8, <1>10

------------------------------------------------------------------------------
(* The sender *)

\* An event is sent: the runs go on to what it makes of the last state.
LEMMA SentUser ==
  ASSUME Events, UserInv, UserShape', NEW e, Sends(e),
         \A a : Mirrors(a) => Mirrors(After(a, e))'
  PROVE  UserInv'
<1>1. PICK h : Leads(h)
  BY DEF UserInv
<1>2. Pipe' = Append(Pipe, e) /\ IsSeq(Pipe) /\ app' = app
  BY PipeSends
<1>3. Same(h[1], app) /\ Trace(h, Pipe) /\ Mirrors(h[Len(Pipe) + 1])
  BY <1>1 DEF Leads
<1>4. PICK g : g[1] = h[1] /\ Trace(g, Append(Pipe, e))
               /\ g[Len(Append(Pipe, e)) + 1] = After(h[Len(Pipe) + 1], e)
  BY <1>2, <1>3, TraceAppend
<1>5. PICK a : a = h[Len(Pipe) + 1]
  OBVIOUS
<1>6. Mirrors(After(a, e))'
  BY <1>3, <1>5
<1>7. PICK p : p = Append(Pipe, e)
  OBVIOUS
<1>8. Pipe' = p /\ g[Len(p) + 1] = After(a, e)
  BY <1>2, <1>4, <1>5, <1>7
<1>9. Mirrors(g[Len(p) + 1])'
  BY <1>6, <1>8
<1>10. Same(g[1], app') /\ Trace(g, p)
  BY <1>2, <1>3, <1>4, <1>7
<1>11. Leads(g)'
  BY <1>8, <1>9, <1>10 DEF Leads
<1> QED BY <1>11 DEF UserInv

\* A step of which neither the user nor the handlers know.
LEMMA OtherUser ==
  ASSUME UserInv, UNCHANGED <<user, batch>>, Pipe' = Pipe, Same(app, app')
  PROVE  UserInv'
<1>1. PICK h : Leads(h)
  BY DEF UserInv
<1>2. UserShape'
  BY DEF UserInv, UserShape, HasFields
<1>3. PICK p : p = Pipe
  OBVIOUS
<1>4. Same(h[1], app') /\ Trace(h, p) /\ Mirrors(h[Len(p) + 1])
  BY <1>1, <1>3 DEF Leads, Same
<1>5. PICK a : a = h[Len(p) + 1]
  OBVIOUS
<1>6. Mirrors(a)'
  BY <1>4, <1>5 DEF Mirrors, StagedIs, KeymapIs, HasFields
<1>7. Pipe' = p
  BY <1>3
<1>8. Leads(h)'
  BY <1>4, <1>5, <1>6, <1>7 DEF Leads
<1> QED BY <1>2, <1>8 DEF UserInv

\* A handler does what After says of the oldest event.
LEMMA HandledUser ==
  ASSUME Events, UserInv, UNCHANGED <<user, batch>>, queue # <<>>,
         \/ queue' = Tail(queue) /\ UNCHANGED wire
         \/ queue' = Tail(queue) \o wire /\ wire' = <<>>,
         Same(app', After(app, Head(queue)))
  PROVE  UserInv'
<1>1. PICK h : Leads(h)
  BY DEF UserInv
<1>2. UserShape'
  BY DEF UserInv, UserShape, HasFields
<1>3. IsSeq(Pipe) /\ Pipe # <<>> /\ Head(Pipe) = Head(queue) /\ Pipe' = Tail(Pipe)
  BY PipeHandles
<1>4. Same(h[1], app) /\ Trace(h, Pipe) /\ Mirrors(h[Len(Pipe) + 1])
  BY <1>1 DEF Leads
<1>5. PICK g : Same(g[1], After(h[1], Head(Pipe))) /\ Trace(g, Tail(Pipe))
               /\ g[Len(Tail(Pipe)) + 1] = h[Len(Pipe) + 1]
  BY <1>3, <1>4, TraceTail
<1>6. After(h[1], Head(queue)) = After(app, Head(queue))
  BY <1>4, SameAfter
<1>7. Same(g[1], app')
  <2>1. PICK b : b = After(app, Head(queue))
    OBVIOUS
  <2>2. Same(g[1], b) /\ Same(app', b)
    BY <1>3, <1>5, <1>6, <2>1
  <2> QED BY <2>2 DEF Same
<1>8. PICK a : a = h[Len(Pipe) + 1]
  OBVIOUS
<1>9. Mirrors(a)'
  BY <1>4, <1>8 DEF Mirrors, StagedIs, KeymapIs, HasFields
<1>10. PICK p : p = Tail(Pipe)
  OBVIOUS
<1>11. Pipe' = p /\ g[Len(p) + 1] = a /\ Trace(g, p)
  BY <1>3, <1>5, <1>8, <1>10
<1>12. Leads(g)'
  BY <1>7, <1>9, <1>11 DEF Leads
<1> QED BY <1>2, <1>12 DEF UserInv

\* Once everything has been dispatched, the controls are the user's.
LEMMA UserFollows == ASSUME ClockInv, UserInv PROVE ControlsFollowUser
<1> SUFFICES ASSUME wire = <<>>, queue = <<>> PROVE app.c = user.c
  BY DEF ControlsFollowUser
<1>1. Pipe = <<>>
  BY DEF Pipe
<1>2. PICK h : Leads(h)
  BY DEF UserInv
<1>3. Len(Pipe) = 0
  BY <1>1
<1>4. Same(h[1], app) /\ Mirrors(h[0 + 1])
  BY <1>2, <1>3 DEF Leads
<1>5. Mirrors(h[1])
  BY <1>4
<1> QED BY <1>4, <1>5 DEF Same, Mirrors

\* Nothing done, nothing dispatched.
LEMMA UserInit == Init => UserInv
<1> SUFFICES ASSUME Init PROVE UserInv
  OBVIOUS
<1>1. wire = <<>> /\ queue \in {<<>>, <<[kind |-> "ping"]>>} /\ batch = NoBatch
  BY DEF Init
<1>2. UserShape
  <2>1. user.c = Controls /\ HasFields(user, UserFields) /\ user.shift = FALSE /\ user.keymap = FALSE
        /\ user.pinching = FALSE
    BY DEF Init, UserFields, HasFields
  <2>2. HasFields(Controls, DOMAIN Controls) /\ Controls.speed = 1
    BY DEF Controls, HasFields
  <2>3. 1 \in -SpeedLimit .. SpeedLimit
    BY InputAssumption
  <2>4. HasFields(NoBatch, DOMAIN NoBatch) /\ NoBatch.scrolled = 0 /\ NoBatch.press = 0
    BY DEF NoBatch, HasFields
  <2>5. HasFields(user.c, DOMAIN Controls) /\ user.c.speed = 1
    BY <2>1, <2>2
  <2>6. HasFields(batch, DOMAIN NoBatch) /\ batch.scrolled = 0 /\ batch.press = 0
    BY <1>1, <2>4
  <2>7. user.c.speed \in -SpeedLimit .. SpeedLimit /\ batch.scrolled \in Int
    BY <2>3, <2>5, <2>6
  <2>8. user.shift \in BOOLEAN /\ user.keymap \in BOOLEAN /\ user.pinching \in BOOLEAN
    BY <2>1
  <2> QED BY <1>1, <2>1, <2>5, <2>6, <2>7, <2>8, Zenon DEF UserShape
<1>3. Mirrors(app)
  <2>1. app.c = Controls /\ app.ev = NoEvent /\ app.xkb = "none"
    BY DEF Init
  <2>2. user.c = Controls /\ user.keymap = FALSE /\ user.pinching = FALSE
    BY DEF Init
  <2>3. StagedIs(NoEvent)
    <3>1. batch.at = 0 /\ batch.press = 0 /\ batch.scrolled = 0
      BY <1>1 DEF NoBatch
    <3>2. HasFields(NoEvent, DOMAIN NoEvent) /\ NoEvent.motion = FALSE /\ NoEvent.press = FALSE
          /\ NoEvent.v = 0 /\ NoEvent.axis = FALSE
      BY DEF NoEvent, HasFields
    <3> QED BY <3>1, <3>2 DEF StagedIs
  <2> QED BY <2>1, <2>2, <2>3 DEF Mirrors, KeymapIs
<1>4. Same(app, app)
  BY DEF Same
<1>5. PICK h : h = [i \in 1 .. 2 |-> app]
  OBVIOUS
<1>6. h[1] = app /\ h[2] = app
  BY <1>5
<1>7. CASE queue = <<>>
  <2>1. Pipe = <<>> /\ Len(Pipe) = 0
    BY <1>1, <1>7 DEF Pipe
  <2>2. Trace(h, Pipe)
    BY <2>1 DEF Trace
  <2>3. Mirrors(h[Len(Pipe) + 1])
    BY <1>3, <1>6, <2>1
  <2> QED BY <1>2, <1>4, <1>6, <2>2, <2>3 DEF UserInv, Leads
<1>8. CASE queue = <<[kind |-> "ping"]>>
  <2>1. PICK e : e = [kind |-> "ping"]
    OBVIOUS
  <2>2. e.kind = "ping"
    BY <2>1
  <2>3. Pipe = <<e>> /\ Len(Pipe) = 1 /\ Pipe[1] = e
    <3>1. IsSeq(queue) /\ queue \o <<>> = queue
      BY <1>8, ShortSeqs, JoinedSeq
    <3>2. Pipe = queue /\ queue = <<e>>
      BY <1>1, <1>8, <2>1, <3>1 DEF Pipe
    <3> QED BY <3>2, ShortSeqs
  <2>4. Same(app, After(app, e))
    <3>1. Controlled(app, e) = app.c /\ Staged(app.ev, e) = app.ev /\ Keyboard(app.xkb, e) = app.xkb
      BY <2>2 DEF Controlled, Staged, Keyboard
    <3> QED BY <2>2, <3>1 DEF Same, After
  <2>5. Trace(h, Pipe)
    BY <1>6, <2>3, <2>4 DEF Trace
  <2>6. Mirrors(h[Len(Pipe) + 1])
    BY <1>3, <1>6, <2>3
  <2> QED BY <1>2, <1>4, <1>6, <2>5, <2>6 DEF UserInv, Leads
<1> QED BY <1>1, <1>7, <1>8

\* The parts of Mirrors, one by one, after an event.
LEMMA MirrorsAfter ==
  ASSUME NEW a, NEW e, Controlled(a, e) = user'.c, StagedIs(Staged(a.ev, e))',
         KeymapIs(Keyboard(a.xkb, e))',
         user'.pinching => (IF e.kind = "pbegin" THEN a.c.zoom ELSE a.begin) = user'.begin
  PROVE  Mirrors(After(a, e))'
<1>1. PICK c, ev, xkb, b : c = Controlled(a, e) /\ ev = Staged(a.ev, e) /\ xkb = Keyboard(a.xkb, e)
                           /\ b = IF e.kind = "pbegin" THEN a.c.zoom ELSE a.begin
  OBVIOUS
<1>2. After(a, e) = [c |-> c, ev |-> ev, xkb |-> xkb, begin |-> b]
  BY <1>1, Zenon DEF After
<1>3. PICK r : r = After(a, e)
  OBVIOUS
<1>4. r.c = c /\ r.ev = ev /\ r.xkb = xkb /\ r.begin = b
  BY <1>2, <1>3
<1>5. c = user'.c /\ StagedIs(ev)' /\ KeymapIs(xkb)' /\ (user'.pinching => b = user'.begin)
  BY <1>1
<1>6. Mirrors(r)'
  BY <1>4, <1>5 DEF Mirrors
<1> QED BY <1>3, <1>6

\* What an event leaves to the parts of struct app that it is not about.
LEMMA EventParts ==
  ASSUME NEW a, NEW e
  PROVE  /\ e.kind \notin {"pframe", "pupdate", "pend", "key"} => Controlled(a, e) = a.c
         /\ e.kind \notin {"enter", "motion", "button", "axis", "pframe"} => Staged(a.ev, e) = a.ev
         /\ e.kind \notin {"keymap", "mods"} => Keyboard(a.xkb, e) = a.xkb
<1>1. e.kind \notin {"pframe", "pupdate", "pend", "key"} => Controlled(a, e) = a.c
  BY DEF Controlled
<1>2. e.kind \notin {"enter", "motion", "button", "axis", "pframe"} => Staged(a.ev, e) = a.ev
  BY DEF Staged
<1>3. e.kind \notin {"keymap", "mods"} => Keyboard(a.xkb, e) = a.xkb
  BY DEF Keyboard
<1> QED BY <1>1, <1>2, <1>3

\* The user and the batch as they were.
LEMMA UserKept ==
  ASSUME UserShape, UNCHANGED <<user, batch>>
  PROVE  /\ UserShape'
         /\ \A ev : StagedIs(ev) => StagedIs(ev)'
         /\ \A xkb : KeymapIs(xkb) => KeymapIs(xkb)'
<1>1. UserShape'
  BY DEF UserShape, HasFields
<1>2. ASSUME NEW ev, StagedIs(ev) PROVE StagedIs(ev)'
  BY <1>2 DEF StagedIs, HasFields
<1>3. ASSUME NEW xkb, KeymapIs(xkb) PROVE KeymapIs(xkb)'
  BY <1>3 DEF KeymapIs
<1> QED BY <1>1, <1>2, <1>3

\* Events that are not about the controls.
LEMMA QuietSentUser ==
  ASSUME Events, UserInv, NEW e, Sends(e), e.kind \in {"caps", "ping", "close", "frame"},
         UNCHANGED <<user, batch>>
  PROVE  UserInv'
<1>1. UserShape'
  BY UserKept DEF UserInv
<1>2. ASSUME NEW a, Mirrors(a) PROVE Mirrors(After(a, e))'
  <2>1. a.c = user.c /\ StagedIs(a.ev) /\ KeymapIs(a.xkb) /\ (user.pinching => a.begin = user.begin)
    BY <1>2 DEF Mirrors
  <2>2. Controlled(a, e) = a.c /\ Staged(a.ev, e) = a.ev /\ Keyboard(a.xkb, e) = a.xkb
    BY EventParts
  <2>3. StagedIs(a.ev)' /\ KeymapIs(a.xkb)'
    BY <2>1, UserKept DEF UserInv
  <2>4. StagedIs(Staged(a.ev, e))' /\ KeymapIs(Keyboard(a.xkb, e))'
    BY <2>2, <2>3
  <2> QED BY <2>1, <2>2, <2>4, MirrorsAfter
<1> QED BY <1>1, <1>2, SentUser

\* A change of the pointer batch, and what its event stages.
LEMMA StagedUser ==
  ASSUME Events, UserInv, NEW e, Sends(e), e.kind \in {"enter", "motion", "button", "axis"},
         UserShape', UNCHANGED user,
         \A ev : StagedIs(ev) => StagedIs(Staged(ev, e))'
  PROVE  UserInv'
<1>1. ASSUME NEW a, Mirrors(a) PROVE Mirrors(After(a, e))'
  <2>1. a.c = user.c /\ StagedIs(a.ev) /\ KeymapIs(a.xkb) /\ (user.pinching => a.begin = user.begin)
    BY <1>1 DEF Mirrors
  <2>2. Controlled(a, e) = a.c /\ Keyboard(a.xkb, e) = a.xkb
    BY EventParts
  <2>3. KeymapIs(a.xkb)'
    BY <2>1 DEF KeymapIs
  <2>4. StagedIs(Staged(a.ev, e))' /\ KeymapIs(Keyboard(a.xkb, e))'
    BY <2>1, <2>2, <2>3
  <2> QED BY <2>1, <2>2, <2>4, MirrorsAfter
<1> QED BY <1>1, SentUser

\* Moving: the batch and the stage have the last place.
LEMMA PointerMovesUser == ASSUME Events, UserInv, PointerMoves PROVE UserInv'
<1>0. PICK kind \in {"enter", "motion"}, x \in Places :
        /\ Sends([kind |-> kind, v |-> x]) /\ batch' = [batch EXCEPT !.open = TRUE, !.at = x]
  BY DEF PointerMoves
<1>1. PICK e : /\ e = [kind |-> kind, v |-> x] /\ Sends(e)
               /\ batch' = [batch EXCEPT !.open = TRUE, !.at = x]
  BY <1>0
<1>2. UNCHANGED user /\ e.kind \in {"enter", "motion"} /\ e.v = x /\ x # 0
  BY <1>1 DEF PointerMoves, Places
<1>3. HasFields(batch, DOMAIN NoBatch) /\ UserShape
  BY DEF UserInv, UserShape
<1>4. /\ HasFields(batch', DOMAIN NoBatch) /\ batch'.open = TRUE /\ batch'.at = x
      /\ batch'.press = batch.press /\ batch'.scrolled = batch.scrolled /\ batch'.button = batch.button
  BY <1>1, <1>3 DEF HasFields, NoBatch
<1>5. UserShape'
  BY <1>2, <1>3, <1>4 DEF UserShape, HasFields
<1>6. ASSUME NEW ev, StagedIs(ev) PROVE StagedIs(Staged(ev, e))'
  <2>1. Staged(ev, e) = [ev EXCEPT !.motion = TRUE, !.x = x]
    BY <1>2 DEF Staged, StageMotion
  <2>2. HasFields(ev, DOMAIN NoEvent)
    BY <1>6 DEF StagedIs
  <2>3. PICK n : n = Staged(ev, e)
    OBVIOUS
  <2>4. /\ HasFields(n, DOMAIN NoEvent) /\ n.motion = TRUE /\ n.x = x /\ n.press = ev.press
        /\ n.serial = ev.serial /\ n.v = ev.v /\ n.axis = ev.axis
    BY <2>1, <2>2, <2>3 DEF HasFields, NoEvent
  <2>5. StagedIs(n)'
    BY <1>2, <1>4, <1>6, <2>4 DEF StagedIs
  <2> QED BY <2>3, <2>5
<1> QED BY <1>1, <1>2, <1>5, <1>6, StagedUser

\* The batch's one button: pressed with its serial, or released.
LEMMA ButtonUser ==
  ASSUME Events, UserInv, NEW press \in BOOLEAN, NEW e, e = [kind |-> "button", v |-> press, serial |-> left],
         ~batch.button, Sends(e), UNCHANGED user,
         batch' = [batch EXCEPT !.open = TRUE, !.button = TRUE, !.press = IF press THEN left ELSE @]
  PROVE  UserInv'
<1>1. e.kind = "button" /\ e.v = press /\ e.serial = left /\ left # 0
  BY DEF Sends
<1>2. HasFields(batch, DOMAIN NoBatch) /\ UserShape /\ batch.press = 0
  BY DEF UserInv, UserShape
<1>3. /\ HasFields(batch', DOMAIN NoBatch) /\ batch'.open = TRUE /\ batch'.at = batch.at
      /\ batch'.press = (IF press THEN left ELSE 0) /\ batch'.scrolled = batch.scrolled
      /\ batch'.button = TRUE
  BY <1>2 DEF HasFields, NoBatch
<1>4. UserShape'
  BY <1>2, <1>3 DEF UserShape, HasFields
<1>5. ASSUME NEW ev, StagedIs(ev) PROVE StagedIs(Staged(ev, e))'
  <2>1. Staged(ev, e) = [ev EXCEPT !.press = press, !.serial = left]
    BY <1>1 DEF Staged, StageButton
  <2>2. HasFields(ev, DOMAIN NoEvent)
    BY <1>5 DEF StagedIs
  <2>3. PICK n : n = Staged(ev, e)
    OBVIOUS
  <2>4. /\ HasFields(n, DOMAIN NoEvent) /\ n.press = press /\ n.serial = left /\ n.motion = ev.motion
        /\ n.x = ev.x /\ n.v = ev.v /\ n.axis = ev.axis
    BY <2>1, <2>2, <2>3 DEF HasFields, NoEvent
  <2>5. StagedIs(n)'
    BY <1>1, <1>3, <1>5, <2>4 DEF StagedIs
  <2> QED BY <2>3, <2>5
<1> QED BY <1>1, <1>4, <1>5, StagedUser

\* Scrolling adds up in the batch, and on the stage.
LEMMA ScrollUser ==
  ASSUME Events, UserInv, NEW d \in {-1, 1}, NEW e, e = [kind |-> "axis", v |-> d], Sends(e),
         UNCHANGED user, batch' = [batch EXCEPT !.open = TRUE, !.scrolled = @ + d]
  PROVE  UserInv'
<1>1. e.kind = "axis" /\ e.v = d /\ d \in Int
  OBVIOUS
<1>2. HasFields(batch, DOMAIN NoBatch) /\ UserShape /\ batch.scrolled \in Int
  BY DEF UserInv, UserShape
<1>3. /\ HasFields(batch', DOMAIN NoBatch) /\ batch'.open = TRUE /\ batch'.at = batch.at
      /\ batch'.press = batch.press /\ batch'.scrolled = batch.scrolled + d
      /\ batch'.button = batch.button
  BY <1>2 DEF HasFields, NoBatch
<1>4. UserShape'
  <2>1. batch'.scrolled \in Int
    BY <1>1, <1>2, <1>3
  <2> QED BY <1>2, <1>3, <2>1 DEF UserShape, HasFields
<1>5. ASSUME NEW ev, StagedIs(ev) PROVE StagedIs(Staged(ev, e))'
  <2>1. Staged(ev, e) = [ev EXCEPT !.axis = TRUE, !.v = @ + d]
    BY <1>1 DEF Staged, StageAxis
  <2>2. HasFields(ev, DOMAIN NoEvent)
    BY <1>5 DEF StagedIs
  <2>3. PICK n : n = Staged(ev, e)
    OBVIOUS
  <2>4. /\ HasFields(n, DOMAIN NoEvent) /\ n.axis = TRUE /\ n.v = ev.v + d /\ n.motion = ev.motion
        /\ n.x = ev.x /\ n.press = ev.press /\ n.serial = ev.serial
    BY <2>1, <2>2, <2>3 DEF HasFields, NoEvent
  <2>5. StagedIs(n)'
    BY <1>1, <1>3, <1>5, <2>4 DEF StagedIs
  <2> QED BY <2>3, <2>5
<1> QED BY <1>1, <1>4, <1>5, StagedUser

\* Either of them.
LEMMA ButtonOrScrollUser == ASSUME Events, UserInv, ButtonOrScroll PROVE UserInv'
<1>1. UNCHANGED user
  BY DEF ButtonOrScroll
<1>2. CASE \E press \in BOOLEAN :
             LET e == [kind |-> "button", v |-> press, serial |-> left]
             IN  /\ ~batch.button /\ Sends(e)
                 /\ batch' = [batch EXCEPT !.open = TRUE, !.button = TRUE,
                                           !.press = IF press THEN left ELSE @]
  <2>1. PICK press \in BOOLEAN :
          /\ ~batch.button /\ Sends([kind |-> "button", v |-> press, serial |-> left])
          /\ batch' = [batch EXCEPT !.open = TRUE, !.button = TRUE, !.press = IF press THEN left ELSE @]
    BY <1>2, Zenon
  <2>2. PICK e : e = [kind |-> "button", v |-> press, serial |-> left]
    OBVIOUS
  <2> QED BY <1>1, <2>1, <2>2, ButtonUser
<1>3. CASE \E d \in {-1, 1} :
             /\ Sends([kind |-> "axis", v |-> d])
             /\ batch' = [batch EXCEPT !.open = TRUE, !.scrolled = @ + d]
  <2>1. PICK d \in {-1, 1} :
          /\ Sends([kind |-> "axis", v |-> d])
          /\ batch' = [batch EXCEPT !.open = TRUE, !.scrolled = @ + d]
    BY <1>3, Zenon
  <2>2. PICK e : e = [kind |-> "axis", v |-> d]
    OBVIOUS
  <2> QED BY <1>1, <2>1, <2>2, ScrollUser
<1> QED BY <1>2, <1>3, Zenon DEF ButtonOrScroll

\* Clamp leaves what is within the limit, and brings the rest there.
LEMMA Clamped ==
  ASSUME NEW limit \in Nat, NEW n \in Int
  PROVE  /\ Clamp(n, limit) \in -limit .. limit
         /\ n \in -limit .. limit => Clamp(n, limit) = n
BY DEF Clamp

\* A batch is applied as one: position, press and the sum of the scrolling.
LEMMA EndBatchUser == ASSUME Events, UserInv, EndBatch PROVE UserInv'
<1>1. PICK e : e = [kind |-> "pframe"] /\ Sends(e)
  BY DEF EndBatch
<1>2. e.kind = "pframe"
  BY <1>1
<1> DEFINE x == IF batch.at # 0 THEN batch.at ELSE user.c.x
           moved == IF batch.press # 0 THEN batch.press ELSE user.c.moved
           speed == Clamp(user.c.speed - batch.scrolled, SpeedLimit)
<1>3. UserShape /\ HasFields(user, UserFields) /\ HasFields(user.c, DOMAIN Controls)
  BY DEF UserInv, UserShape
<1>4. /\ batch' = NoBatch
      /\ user' = [user EXCEPT !.c = [[[user.c EXCEPT !.x = x] EXCEPT !.moved = moved] EXCEPT !.speed = speed]]
  <2>1. user' = [user EXCEPT !.c.x = x, !.c.moved = moved, !.c.speed = speed]
    BY DEF EndBatch
  <2> HIDE DEF x, moved, speed
  <2> QED BY <1>3, <2>1 DEF EndBatch, HasFields, UserFields
<1>5. speed \in -SpeedLimit .. SpeedLimit
  <2>1. user.c.speed - batch.scrolled \in Int
    BY DEF UserInv, UserShape
  <2> QED BY <2>1, Clamped, InputAssumption
<1>6. PICK c : c = [[[user.c EXCEPT !.x = x] EXCEPT !.moved = moved] EXCEPT !.speed = speed]
  OBVIOUS
<1>7. c = [f \in DOMAIN Controls |-> CASE f = "x" -> x [] f = "moved" -> moved [] f = "speed" -> speed
                                       [] OTHER -> user.c[f]]
  <2> HIDE DEF x, moved, speed
  <2> QED BY <1>3, <1>6 DEF HasFields, Controls
<1>8. HasFields(c, DOMAIN Controls) /\ c.speed = speed
  <2> HIDE DEF x, moved, speed
  <2> QED BY <1>7 DEF HasFields, Controls
<1>9. /\ user'.c = c /\ HasFields(user', UserFields) /\ user'.pinching = user.pinching
      /\ user'.begin = user.begin /\ user'.keymap = user.keymap /\ user'.shift = user.shift
  BY <1>3, <1>4, <1>6 DEF HasFields, UserFields
<1>10. /\ HasFields(NoBatch, DOMAIN NoBatch) /\ NoBatch.scrolled = 0 /\ NoBatch.press = 0
       /\ NoBatch.at = 0
  BY DEF HasFields, NoBatch
<1>11. UserShape'
  <2>1. HasFields(user'.c, DOMAIN Controls) /\ user'.c.speed \in -SpeedLimit .. SpeedLimit
    BY <1>5, <1>8, <1>9
  <2>2. HasFields(batch', DOMAIN NoBatch) /\ batch'.scrolled \in Int /\ batch'.press = 0
    BY <1>4, <1>10
  <2>3. user'.shift \in BOOLEAN /\ user'.keymap \in BOOLEAN /\ user'.pinching \in BOOLEAN
    BY <1>3, <1>9 DEF UserShape
  <2>4. HasFields(user', UserFields) /\ batch' = NoBatch
    BY <1>4, <1>9
  <2> QED BY <2>1, <2>2, <2>3, <2>4, Zenon DEF UserShape, HasFields
<1>12. ASSUME NEW a, Mirrors(a) PROVE Mirrors(After(a, e))'
  <2>1. a.c = user.c /\ StagedIs(a.ev) /\ KeymapIs(a.xkb) /\ (user.pinching => a.begin = user.begin)
    BY <1>12 DEF Mirrors
  <2>2. Controlled(a, e) = ApplyFrame(user.c, a.ev) /\ Staged(a.ev, e) = NoEvent
        /\ Keyboard(a.xkb, e) = a.xkb
    BY <1>2, <2>1 DEF Controlled, Staged, Keyboard
  <2>3. ApplyFrame(user.c, a.ev) = c
    <3>1. (IF a.ev.motion THEN a.ev.x ELSE user.c.x) = x
      BY <2>1 DEF StagedIs
    <3>2. (IF a.ev.press THEN a.ev.serial ELSE user.c.moved) = moved
      BY <2>1 DEF StagedIs
    <3>3. (IF a.ev.axis THEN Clamp(user.c.speed - a.ev.v, SpeedLimit) ELSE user.c.speed) = speed
      <4>1. CASE a.ev.axis
        BY <2>1, <4>1 DEF StagedIs
      <4>2. CASE ~a.ev.axis
        <5>1. batch.scrolled = 0 /\ user.c.speed \in -SpeedLimit .. SpeedLimit
          BY <1>3, <2>1, <4>2 DEF StagedIs, UserShape
        <5>2. user.c.speed - batch.scrolled = user.c.speed /\ user.c.speed \in Int
          BY <5>1, InputAssumption
        <5>3. Clamp(user.c.speed, SpeedLimit) = user.c.speed
          BY <5>1, <5>2, Clamped, InputAssumption
        <5> QED BY <4>2, <5>2, <5>3
      <4> QED BY <4>1, <4>2
    <3> HIDE DEF x, moved, speed
    <3>4. ApplyFrame(user.c, a.ev) = [user.c EXCEPT !.x = x, !.moved = moved, !.speed = speed]
      <4>1. user.c = [f \in DOMAIN Controls |-> user.c[f]]
        BY <1>3 DEF HasFields
      <4>2. ApplyFrame(user.c, a.ev) =
              [user.c EXCEPT !.x = IF a.ev.motion THEN a.ev.x ELSE user.c.x,
                             !.moved = IF a.ev.press THEN a.ev.serial ELSE user.c.moved,
                             !.speed = IF a.ev.axis THEN Clamp(user.c.speed - a.ev.v, SpeedLimit)
                                       ELSE user.c.speed]
        BY <4>1 DEF ApplyFrame, Controls
      <4> QED BY <3>1, <3>2, <3>3, <4>2, Zenon
    <3> QED BY <1>3, <1>6, <3>4 DEF HasFields, Controls
  <2>4. StagedIs(NoEvent)'
    <3>1. HasFields(NoEvent, DOMAIN NoEvent) /\ NoEvent.motion = FALSE /\ NoEvent.press = FALSE
          /\ NoEvent.v = 0 /\ NoEvent.axis = FALSE
      BY DEF NoEvent, HasFields
    <3>2. batch'.at = 0 /\ batch'.press = 0 /\ batch'.scrolled = 0
      BY <1>4, <1>10
    <3> QED BY <3>1, <3>2 DEF StagedIs
  <2>5. KeymapIs(a.xkb)'
    BY <1>9, <2>1 DEF KeymapIs
  <2>6. Controlled(a, e) = user'.c /\ StagedIs(Staged(a.ev, e))' /\ KeymapIs(Keyboard(a.xkb, e))'
    BY <1>9, <2>2, <2>3, <2>4, <2>5
  <2> QED BY <1>2, <1>9, <2>1, <2>6, MirrorsAfter
<1> QED BY <1>1, <1>11, <1>12, SentUser

\* The rest of the user's state stays in shape when a control, the pinch or the keyboard changes.
LEMMA UserShaped ==
  ASSUME UserShape, UNCHANGED batch, HasFields(user', UserFields),
         HasFields(user'.c, DOMAIN Controls), user'.c.speed = user.c.speed,
         user'.shift \in BOOLEAN, user'.keymap \in BOOLEAN, user'.pinching \in BOOLEAN
  PROVE  UserShape'
<1>1. HasFields(batch, DOMAIN NoBatch) /\ batch.scrolled \in Int
      /\ (batch.open \/ batch = NoBatch) /\ (batch.button \/ batch.press = 0)
      /\ user'.c.speed \in -SpeedLimit .. SpeedLimit
  BY DEF UserShape
<1>2. HasFields(batch', DOMAIN NoBatch) /\ batch'.scrolled \in Int
      /\ (batch'.open \/ batch' = NoBatch) /\ (batch'.button \/ batch'.press = 0)
  BY <1>1
<1> QED BY <1>1, <1>2, Zenon DEF UserShape, HasFields

\* A pinch or a key changes the user's controls as it will change struct app's.
LEMMA ControlUser ==
  ASSUME Events, UserInv, NEW e, Sends(e), e.kind \in {"pbegin", "pupdate", "pend", "key"},
         UNCHANGED batch, HasFields(user', UserFields), HasFields(user'.c, DOMAIN Controls),
         user'.c.speed = user.c.speed, user'.shift = user.shift, user'.keymap = user.keymap,
         user'.pinching \in BOOLEAN,
         \A a : Mirrors(a) => Controlled(a, e) = user'.c,
         \A a : Mirrors(a) /\ user'.pinching
                  => (IF e.kind = "pbegin" THEN a.c.zoom ELSE a.begin) = user'.begin
  PROVE  UserInv'
<1>1. UserShape'
  <2>1. UserShape /\ user'.shift \in BOOLEAN /\ user'.keymap \in BOOLEAN
    BY DEF UserInv, UserShape
  <2> QED BY <2>1, UserShaped
<1>2. ASSUME NEW a, Mirrors(a) PROVE Mirrors(After(a, e))'
  <2>1. StagedIs(a.ev) /\ KeymapIs(a.xkb)
    BY <1>2 DEF Mirrors
  <2>2. Staged(a.ev, e) = a.ev /\ Keyboard(a.xkb, e) = a.xkb
    BY EventParts
  <2>3. StagedIs(a.ev)'
    BY <2>1 DEF StagedIs, HasFields
  <2>4. KeymapIs(a.xkb)'
    BY <2>1 DEF KeymapIs
  <2>5. StagedIs(Staged(a.ev, e))' /\ KeymapIs(Keyboard(a.xkb, e))'
    BY <2>2, <2>3, <2>4
  <2> QED BY <1>2, <2>5, MirrorsAfter
<1> QED BY <1>1, <1>2, SentUser

\* A pinch: begun at the zoom of then, updated from there, ended or undone.
LEMMA PinchesUser == ASSUME Events, UserInv, Pinches PROVE UserInv'
<1>1. UNCHANGED batch /\ HasFields(user, UserFields) /\ HasFields(user.c, DOMAIN Controls)
      /\ user.pinching \in BOOLEAN
  BY DEF Pinches, UserInv, UserShape
<1>2. ASSUME NEW z, NEW c, c = [user.c EXCEPT !.zoom = z]
      PROVE  HasFields(c, DOMAIN Controls) /\ c.speed = user.c.speed
  BY <1>1, <1>2 DEF HasFields, Controls
<1>3. CASE ~user.pinching /\ Sends([kind |-> "pbegin"])
           /\ user' = [user EXCEPT !.pinching = TRUE, !.begin = user.c.zoom]
  <2>1. PICK e : e = [kind |-> "pbegin"] /\ Sends(e)
    BY <1>3
  <2>2. e.kind = "pbegin"
    BY <2>1
  <2>3. /\ HasFields(user', UserFields) /\ user'.c = user.c /\ user'.shift = user.shift
        /\ user'.keymap = user.keymap /\ user'.begin = user.c.zoom /\ user'.pinching = TRUE
    BY <1>1, <1>3 DEF HasFields, UserFields
  <2>4. \A a : Mirrors(a) => Controlled(a, e) = user'.c /\ a.c.zoom = user'.begin
    BY <2>2, <2>3, EventParts DEF Mirrors
  <2>5. HasFields(user'.c, DOMAIN Controls) /\ user'.c.speed = user.c.speed
    BY <1>1, <2>3
  <2> QED BY <1>1, <2>1, <2>2, <2>3, <2>4, <2>5, ControlUser
<1>4. ASSUME NEW d \in {-1, 1, 2}, user.pinching, Sends([kind |-> "pupdate", v |-> d]),
             user' = [user EXCEPT !.c.zoom = Clamp(user.begin + d, ZoomLimit)]
      PROVE  UserInv'
  <2>1. PICK e : e = [kind |-> "pupdate", v |-> d] /\ Sends(e)
    BY <1>4
  <2>2. e.kind = "pupdate" /\ e.v = d
    BY <2>1
  <2>3. PICK z : z = Clamp(user.begin + d, ZoomLimit)
    OBVIOUS
  <2>4. PICK c : c = [user.c EXCEPT !.zoom = z]
    OBVIOUS
  <2>5. /\ HasFields(user', UserFields) /\ user'.c = c /\ user'.shift = user.shift
        /\ user'.keymap = user.keymap /\ user'.begin = user.begin /\ user'.pinching = user.pinching
    BY <1>1, <1>4, <2>3, <2>4 DEF HasFields, UserFields
  <2>6. \A a : Mirrors(a) => Controlled(a, e) = user'.c /\ a.begin = user'.begin
    <3> SUFFICES ASSUME NEW a, Mirrors(a)
                 PROVE  Controlled(a, e) = user'.c /\ a.begin = user'.begin
      OBVIOUS
    <3>1. a.c = user.c /\ a.begin = user.begin
      BY <1>4 DEF Mirrors
    <3>2. Controlled(a, e) = [a.c EXCEPT !.zoom = Zoomed(a, e)]
      BY <2>2 DEF Controlled
    <3>3. Zoomed(a, e) = z
      BY <2>2, <2>3, <3>1 DEF Zoomed
    <3> QED BY <2>4, <2>5, <3>1, <3>2, <3>3
  <2>7. HasFields(user'.c, DOMAIN Controls) /\ user'.c.speed = user.c.speed
    BY <1>2, <2>4, <2>5
  <2> QED BY <1>1, <2>1, <2>2, <2>5, <2>6, <2>7, ControlUser
<1>5. ASSUME NEW cancelled \in BOOLEAN, user.pinching, Sends([kind |-> "pend", v |-> cancelled]),
             user' = [user EXCEPT !.pinching = FALSE,
                                  !.c.zoom = IF cancelled THEN user.begin ELSE @]
      PROVE  UserInv'
  <2>1. PICK e : e = [kind |-> "pend", v |-> cancelled] /\ Sends(e)
    BY <1>5
  <2>2. e.kind = "pend" /\ e.v = cancelled
    BY <2>1
  <2>3. PICK z : z = IF cancelled THEN user.begin ELSE user.c.zoom
    OBVIOUS
  <2>4. PICK c : c = [user.c EXCEPT !.zoom = z]
    OBVIOUS
  <2>5. /\ HasFields(user', UserFields) /\ user'.c = c /\ user'.shift = user.shift
        /\ user'.keymap = user.keymap /\ user'.pinching = FALSE
    <3>1. user' = [user EXCEPT !.pinching = FALSE, !.c = c]
      BY <1>1, <1>5, <2>3, <2>4 DEF HasFields, UserFields
    <3> QED BY <1>1, <3>1 DEF HasFields, UserFields
  <2>6. \A a : Mirrors(a) => Controlled(a, e) = user'.c
    <3> SUFFICES ASSUME NEW a, Mirrors(a) PROVE Controlled(a, e) = user'.c
      OBVIOUS
    <3>1. a.c = user.c /\ a.begin = user.begin
      BY <1>5 DEF Mirrors
    <3>2. CASE cancelled
      BY <2>2, <2>3, <2>4, <2>5, <3>1, <3>2 DEF Controlled
    <3>3. CASE ~cancelled
      <4>1. Controlled(a, e) = user.c
        BY <2>2, <3>1, <3>3 DEF Controlled
      <4>2. c = user.c
        <5>1. z = user.c.zoom
          BY <2>3, <3>3
        <5> QED BY <1>1, <2>4, <5>1 DEF HasFields, Controls
      <4> QED BY <2>5, <4>1, <4>2
    <3> QED BY <3>2, <3>3
  <2>7. HasFields(user'.c, DOMAIN Controls) /\ user'.c.speed = user.c.speed
    BY <1>2, <2>4, <2>5
  <2> QED BY <1>1, <2>1, <2>2, <2>5, <2>6, <2>7, ControlUser
<1> QED BY <1>3, <1>4, <1>5, Zenon DEF Pinches

\* A key means to the handler, under the mirrored keymap, what it means to the user.
LEMMA KeyMeant ==
  ASSUME UserShape, NEW a, Mirrors(a), NEW k
  PROVE  Keyed(a.c, a.xkb, k) = Meant(k).c
<1>1. /\ a.c = user.c /\ HasFields(user, UserFields) /\ HasFields(user.c, DOMAIN Controls)
      /\ KeymapIs(a.xkb)
  BY DEF Mirrors, UserShape
<1>2. CASE ~user.keymap
  BY <1>1, <1>2 DEF KeymapIs, Keyed, Meant
<1>3. CASE user.keymap
  <2> DEFINE paused == IF k = "space" THEN ~user.c.paused ELSE user.c.paused
             mode == IF k = "c" THEN ~user.c.mode ELSE user.c.mode
             effect == IF k = "e" THEN {}
                       ELSE IF k \in Effects /\ ~user.shift THEN SymDiff(user.c.effect, {k})
                       ELSE user.c.effect
  <2>1. Meant(k).c = [[[user.c EXCEPT !.paused = paused] EXCEPT !.mode = mode] EXCEPT !.effect = effect]
    <3>1. Meant(k) = [user EXCEPT !.quit = @ \/ Quits(k, ~user.shift), !.c.paused = paused,
                                  !.c.mode = mode, !.c.effect = effect]
      <4>1. user.c.paused = user.c["paused"] /\ user.c.mode = user.c["mode"]
            /\ user.c.effect = user.c["effect"]
        OBVIOUS
      <4> QED BY <1>1, <1>3 DEF Meant, HasFields, UserFields, Controls
    <3> HIDE DEF paused, mode, effect
    <3> QED BY <1>1, <3>1 DEF HasFields, UserFields, Controls
  <2>2. a.xkb # "none" /\ (a.xkb = "plain" <=> ~user.shift)
    BY <1>1, <1>3 DEF KeymapIs
  <2>3. CASE k = "space"
    <3>1. paused = ~user.c.paused /\ mode = user.c.mode /\ effect = user.c.effect
      BY <2>3 DEF Effects
    <3>2. Keyed(a.c, a.xkb, k) = [user.c EXCEPT !.paused = ~user.c.paused]
      BY <1>1, <2>2, <2>3 DEF Keyed, Effects
    <3> HIDE DEF paused, mode, effect
    <3>3. Keyed(a.c, a.xkb, k) = [user.c EXCEPT !.paused = paused]
      BY <3>1, <3>2, Zenon
    <3>4. mode = user.c.mode /\ effect = user.c.effect
      BY <3>1
    <3>5. PICK p, m, f : p = paused /\ m = mode /\ f = effect
      OBVIOUS
    <3>6. Meant(k).c = [[[user.c EXCEPT !.paused = p] EXCEPT !.mode = m] EXCEPT !.effect = f]
          /\ Keyed(a.c, a.xkb, k) = [user.c EXCEPT !.paused = p]
          /\ m = user.c.mode /\ f = user.c.effect
      BY <2>1, <3>3, <3>4, <3>5, Zenon
    <3>7. [[[user.c EXCEPT !.paused = p] EXCEPT !.mode = m] EXCEPT !.effect = f]
          = [user.c EXCEPT !.paused = p]
      BY <1>1, <3>6 DEF HasFields, Controls
    <3> QED BY <3>6, <3>7
  <2>4. CASE k = "e"
    <3>1. paused = user.c.paused /\ mode = user.c.mode /\ effect = {}
      BY <2>4
    <3>2. Keyed(a.c, a.xkb, k) = [user.c EXCEPT !.effect = {}]
      BY <1>1, <2>2, <2>4 DEF Keyed, Effects
    <3> HIDE DEF paused, mode, effect
    <3> QED BY <1>1, <2>1, <3>1, <3>2 DEF HasFields, Controls
  <2>5. CASE k = "c"
    <3>1. paused = user.c.paused /\ mode = ~user.c.mode /\ effect = user.c.effect
      BY <2>5 DEF Effects
    <3>2. Keyed(a.c, a.xkb, k) = [user.c EXCEPT !.mode = ~user.c.mode]
      BY <1>1, <2>2, <2>5 DEF Keyed, Effects
    <3> HIDE DEF paused, mode, effect
    <3>3. Keyed(a.c, a.xkb, k) = [user.c EXCEPT !.mode = mode]
      BY <3>1, <3>2, Zenon
    <3>4. paused = user.c.paused /\ effect = user.c.effect
      BY <3>1
    <3>5. PICK p, m, f : p = paused /\ m = mode /\ f = effect
      OBVIOUS
    <3>6. Meant(k).c = [[[user.c EXCEPT !.paused = p] EXCEPT !.mode = m] EXCEPT !.effect = f]
          /\ Keyed(a.c, a.xkb, k) = [user.c EXCEPT !.mode = m]
          /\ p = user.c.paused /\ f = user.c.effect
      BY <2>1, <3>3, <3>4, <3>5, Zenon
    <3>7. [[[user.c EXCEPT !.paused = p] EXCEPT !.mode = m] EXCEPT !.effect = f]
          = [user.c EXCEPT !.mode = m]
      BY <1>1, <3>6 DEF HasFields, Controls
    <3> QED BY <3>6, <3>7
  <2>6. CASE k \notin {"space", "e", "c"} /\ k \in Effects /\ ~user.shift
    <3>1. paused = user.c.paused /\ mode = user.c.mode /\ effect = SymDiff(user.c.effect, {k})
      BY <2>6
    <3>2. Keyed(a.c, a.xkb, k) = [user.c EXCEPT !.effect = SymDiff(user.c.effect, {k})]
      BY <1>1, <2>2, <2>6 DEF Keyed
    <3> HIDE DEF paused, mode, effect
    <3> QED BY <1>1, <2>1, <3>1, <3>2 DEF HasFields, Controls
  <2>7. CASE k \notin {"space", "e", "c"} /\ ~(k \in Effects /\ ~user.shift)
    <3>1. paused = user.c.paused /\ mode = user.c.mode /\ effect = user.c.effect
      BY <2>7
    <3>2. Keyed(a.c, a.xkb, k) = user.c
      BY <1>1, <2>2, <2>7 DEF Keyed
    <3> HIDE DEF paused, mode, effect
    <3> QED BY <1>1, <2>1, <3>1, <3>2 DEF HasFields, Controls
  <2> QED BY <2>3, <2>4, <2>5, <2>6, <2>7
<1> QED BY <1>2, <1>3

\* ... and a key leaves the rest of what the user knows.
LEMMA KeyKeeps ==
  ASSUME UserShape, NEW k, NEW u, u = Meant(k)
  PROVE  /\ HasFields(u, UserFields) /\ HasFields(u.c, DOMAIN Controls)
         /\ u.c.speed = user.c.speed /\ u.shift = user.shift /\ u.keymap = user.keymap
         /\ u.pinching = user.pinching /\ u.begin = user.begin
<1>1. HasFields(user, UserFields) /\ HasFields(user.c, DOMAIN Controls)
  BY DEF UserShape
<1>2. CASE ~user.keymap
  BY <1>1, <1>2 DEF Meant
<1>3. CASE user.keymap
  <2>1. PICK q, p : \E m : \E e :
          u = [user EXCEPT !.quit = q, !.c.paused = p, !.c.mode = m, !.c.effect = e]
    BY <1>3 DEF Meant
  <2>2. PICK m : \E e :
          u = [user EXCEPT !.quit = q, !.c.paused = p, !.c.mode = m, !.c.effect = e]
    BY <2>1
  <2>3. PICK e : u = [user EXCEPT !.quit = q, !.c.paused = p, !.c.mode = m, !.c.effect = e]
    BY <2>2
  <2>4. PICK c : c = [[[user.c EXCEPT !.paused = p] EXCEPT !.mode = m] EXCEPT !.effect = e]
    OBVIOUS
  <2>5. u = [[user EXCEPT !.quit = q] EXCEPT !.c = c]
    BY <1>1, <2>3, <2>4 DEF HasFields, UserFields, Controls
  <2>6. HasFields(c, DOMAIN Controls) /\ c.speed = user.c.speed
    BY <1>1, <2>4 DEF HasFields, Controls
  <2> QED BY <1>1, <2>5, <2>6 DEF HasFields, UserFields
<1> QED BY <1>2, <1>3

\* A key, under the keymap and the modifiers of when it is pressed.
LEMMA PressesKeyUser == ASSUME Events, UserInv, PressesKey PROVE UserInv'
<1>1. PICK k : Sends([kind |-> "key", v |-> k]) /\ user' = Meant(k)
  BY DEF PressesKey
<1>2. PICK e : e = [kind |-> "key", v |-> k] /\ Sends(e)
  BY <1>1
<1>3. e.kind = "key" /\ e.v = k
  BY <1>2
<1>4. UNCHANGED batch /\ UserShape
  BY DEF PressesKey, UserInv
<1>5. /\ HasFields(user', UserFields) /\ HasFields(user'.c, DOMAIN Controls)
      /\ user'.c.speed = user.c.speed /\ user'.shift = user.shift /\ user'.keymap = user.keymap
      /\ user'.pinching = user.pinching /\ user'.begin = user.begin
  BY <1>1, <1>4, KeyKeeps
<1>8. user'.pinching \in BOOLEAN
  BY <1>4, <1>5 DEF UserShape
<1>6. \A a : Mirrors(a) => Controlled(a, e) = user'.c
  BY <1>1, <1>3, <1>4, KeyMeant DEF Controlled
<1>7. \A a : Mirrors(a) /\ user'.pinching => a.begin = user'.begin
  BY <1>5 DEF Mirrors
<1> QED BY <1>2, <1>3, <1>4, <1>5, <1>6, <1>7, <1>8, ControlUser

\* A keymap counts for what it is worth, and leaves the modifiers those the user holds.
LEMMA SendKeymapUser == ASSUME Events, UserInv, SendKeymap PROVE UserInv'
<1>1. PICK v \in {"good", "bad_fd", "no_xkb"} : \E k : \E m :
        /\ k = [kind |-> "keymap", v |-> v] /\ m = [kind |-> "mods", v |-> user.shift]
        /\ IsSeq(Pipe) /\ Pipe' = Append(Append(Pipe, k), m) /\ UNCHANGED <<app, batch>>
        /\ user' = [user EXCEPT !.keymap = v = "good" \/ (v = "bad_fd" /\ @)]
  BY PipeKeymap, Zenon
<1>2. PICK k, m :
        /\ k = [kind |-> "keymap", v |-> v] /\ m = [kind |-> "mods", v |-> user.shift]
        /\ IsSeq(Pipe) /\ Pipe' = Append(Append(Pipe, k), m) /\ UNCHANGED <<app, batch>>
        /\ user' = [user EXCEPT !.keymap = v = "good" \/ (v = "bad_fd" /\ @)]
  BY <1>1, Zenon
<1>3. k.kind = "keymap" /\ k.v = v /\ m.kind = "mods" /\ m.v = user.shift
  BY <1>2
<1>4. UserShape /\ HasFields(user, UserFields) /\ user.shift \in BOOLEAN /\ user.keymap \in BOOLEAN
      /\ HasFields(user.c, DOMAIN Controls)
  BY DEF UserInv, UserShape
<1>5. /\ HasFields(user', UserFields) /\ user'.c = user.c /\ user'.shift = user.shift
      /\ user'.pinching = user.pinching /\ user'.begin = user.begin
  <2>1. PICK b : user' = [user EXCEPT !.keymap = b]
    BY <1>2
  <2> QED BY <1>4, <2>1 DEF HasFields, UserFields
<1>6. user'.keymap \in BOOLEAN /\ (user'.keymap <=> (v = "good" \/ (v = "bad_fd" /\ user.keymap)))
  <2>1. PICK b \in BOOLEAN : b = (v = "good" \/ (v = "bad_fd" /\ user.keymap))
    OBVIOUS
  <2>2. user' = [user EXCEPT !.keymap = b]
    BY <1>2, <2>1
  <2>3. user'.keymap = b
    BY <1>4, <2>2 DEF HasFields, UserFields
  <2> QED BY <2>1, <2>3
<1>7. UserShape'
  <2>1. HasFields(user'.c, DOMAIN Controls) /\ user'.c.speed = user.c.speed
        /\ user'.shift \in BOOLEAN /\ user'.pinching \in BOOLEAN /\ UNCHANGED batch
    BY <1>2, <1>4, <1>5 DEF UserShape
  <2> QED BY <1>4, <1>5, <1>6, <2>1, UserShaped
<1>8. ASSUME NEW a, Mirrors(a) PROVE Mirrors(After(After(a, k), m))'
  <2>1. a.c = user.c /\ StagedIs(a.ev) /\ KeymapIs(a.xkb) /\ (user.pinching => a.begin = user.begin)
    BY <1>8 DEF Mirrors
  <2>2. PICK b : b = After(a, k)
    OBVIOUS
  <2>3. b.c = a.c /\ b.ev = a.ev /\ b.begin = a.begin /\ b.xkb = Keyboard(a.xkb, k)
    <3>1. Controlled(a, k) = a.c /\ Staged(a.ev, k) = a.ev
      BY <1>3, EventParts
    <3> QED BY <1>3, <2>2, <3>1 DEF After
  <2>4. Controlled(b, m) = b.c /\ Staged(b.ev, m) = b.ev
    BY <1>3, EventParts
  <2>5. StagedIs(b.ev)'
    BY <1>2, <2>1, <2>3 DEF StagedIs, HasFields
  <2>6. KeymapIs(Keyboard(b.xkb, m))'
    <3>1. b.xkb = IF v = "good" THEN "plain" ELSE IF v = "no_xkb" THEN "none" ELSE a.xkb
      BY <1>3, <2>3 DEF Keyboard
    <3>2. Keyboard(b.xkb, m) = IF b.xkb = "none" THEN "none"
                               ELSE IF user.shift THEN "shift" ELSE "plain"
      BY <1>3 DEF Keyboard
    <3>3. a.xkb \in {"none", "plain", "shift"} /\ (user.keymap <=> a.xkb # "none")
      BY <2>1 DEF KeymapIs
    <3>4. user'.keymap <=> b.xkb # "none"
      BY <1>6, <3>1, <3>3
    <3>5. PICK x : x = Keyboard(b.xkb, m)
      OBVIOUS
    <3>6. x \in {"none", "plain", "shift"} /\ (user'.keymap <=> x # "none")
          /\ (x # "none" => (x = "shift" <=> user'.shift))
      BY <1>5, <3>2, <3>4, <3>5
    <3>7. KeymapIs(x)'
      BY <3>6 DEF KeymapIs
    <3> QED BY <3>5, <3>7
  <2>7. Controlled(b, m) = user'.c /\ StagedIs(Staged(b.ev, m))'
    BY <1>5, <2>1, <2>3, <2>4, <2>5
  <2>8. user'.pinching => (IF m.kind = "pbegin" THEN b.c.zoom ELSE b.begin) = user'.begin
    BY <1>3, <1>5, <2>1, <2>3
  <2>9. Mirrors(After(b, m))'
    BY <2>6, <2>7, <2>8, MirrorsAfter
  <2> QED BY <2>2, <2>9
<1>9. PICK h : Leads(h)
  BY DEF UserInv
<1>10. Same(h[1], app) /\ Trace(h, Pipe) /\ Mirrors(h[Len(Pipe) + 1])
  BY <1>9 DEF Leads
<1>11. PICK g : g[1] = h[1] /\ Trace(g, Append(Pipe, k))
                /\ g[Len(Append(Pipe, k)) + 1] = After(h[Len(Pipe) + 1], k)
  BY <1>2, <1>10, TraceAppend
<1>12. PICK p : p = Append(Pipe, k) /\ IsSeq(p) /\ Trace(g, p)
  BY <1>2, <1>11, AppendedSeq
<1>13. PICK f : f[1] = g[1] /\ Trace(f, Append(p, m))
                /\ f[Len(Append(p, m)) + 1] = After(g[Len(p) + 1], m)
  <2>1. IsSeq(p) /\ Trace(g, p)
    BY <1>12
  <2> QED BY <2>1, TraceAppend, Zenon
<1>14. PICK a, q : a = h[Len(Pipe) + 1] /\ q = Append(p, m)
  OBVIOUS
<1>15. Pipe' = q /\ f[Len(q) + 1] = After(After(a, k), m) /\ Trace(f, q) /\ Same(f[1], app')
  BY <1>2, <1>10, <1>11, <1>12, <1>13, <1>14
<1>16. Mirrors(f[Len(q) + 1])'
  BY <1>8, <1>10, <1>14, <1>15
<1>17. Leads(f)'
  BY <1>15, <1>16 DEF Leads
<1> QED BY <1>7, <1>17 DEF UserInv

\* The modifiers are told as they change.
LEMMA ShiftsUser == ASSUME Events, UserInv, Shifts PROVE UserInv'
<1>1. PICK e : e = [kind |-> "mods", v |-> ~user.shift] /\ Sends(e)
  BY DEF Shifts
<1>2. UNCHANGED batch /\ UserShape /\ HasFields(user, UserFields) /\ user.shift \in BOOLEAN
      /\ user.keymap \in BOOLEAN /\ HasFields(user.c, DOMAIN Controls)
  BY DEF Shifts, UserInv, UserShape
<1>3. PICK b \in BOOLEAN : b = ~user.shift
  OBVIOUS
<1>4. e.kind = "mods" /\ e.v = b
  BY <1>1, <1>3
<1>5. /\ HasFields(user', UserFields) /\ user'.c = user.c /\ user'.shift = b
      /\ user'.keymap = user.keymap /\ user'.pinching = user.pinching /\ user'.begin = user.begin
  <2>1. user' = [user EXCEPT !.shift = b]
    BY <1>3, Zenon DEF Shifts
  <2> QED BY <1>2, <2>1 DEF HasFields, UserFields
<1>6. UserShape'
  <2>1. HasFields(user'.c, DOMAIN Controls) /\ user'.c.speed = user.c.speed
        /\ user'.shift \in BOOLEAN /\ user'.keymap \in BOOLEAN /\ user'.pinching \in BOOLEAN
    BY <1>2, <1>3, <1>5 DEF UserShape
  <2> QED BY <1>2, <1>5, <2>1, UserShaped
<1>7. ASSUME NEW a, Mirrors(a) PROVE Mirrors(After(a, e))'
  <2>1. a.c = user.c /\ StagedIs(a.ev) /\ KeymapIs(a.xkb) /\ (user.pinching => a.begin = user.begin)
    BY <1>7 DEF Mirrors
  <2>2. Controlled(a, e) = a.c /\ Staged(a.ev, e) = a.ev
    BY <1>4, EventParts
  <2>3. StagedIs(a.ev)'
    BY <1>2, <2>1 DEF StagedIs, HasFields
  <2>4. KeymapIs(Keyboard(a.xkb, e))'
    <3>1. Keyboard(a.xkb, e) = IF a.xkb = "none" THEN "none" ELSE IF b THEN "shift" ELSE "plain"
      BY <1>4 DEF Keyboard
    <3>2. PICK x : x = Keyboard(a.xkb, e)
      OBVIOUS
    <3>3. x \in {"none", "plain", "shift"} /\ (user'.keymap <=> x # "none")
          /\ (x # "none" => (x = "shift" <=> user'.shift))
      BY <1>5, <2>1, <3>1, <3>2 DEF KeymapIs
    <3>4. KeymapIs(x)'
      BY <3>3 DEF KeymapIs
    <3> QED BY <3>2, <3>4
  <2>5. Controlled(a, e) = user'.c /\ StagedIs(Staged(a.ev, e))'
    BY <1>5, <2>1, <2>2, <2>3
  <2>6. user'.pinching => (IF e.kind = "pbegin" THEN a.c.zoom ELSE a.begin) = user'.begin
    BY <1>4, <1>5, <2>1
  <2> QED BY <2>4, <2>5, <2>6, MirrorsAfter
<1> QED BY <1>1, <1>6, <1>7, SentUser

\* A change of capabilities between two batches, and no pinch under way, changes no control.
LEMMA ChangeCapsUser ==
  ASSUME ~SplitBatches, Events, UserInv, ChangeCaps
  PROVE  UserInv'
<1>1. PICK e : Sends(e) /\ e.kind = "caps"
  <2>1. \A c : [kind |-> "caps", v |-> c].kind = "caps"
    OBVIOUS
  <2> QED BY <2>1 DEF ChangeCaps
<1>2. ~batch.open /\ ~user.pinching /\ batch' = NoBatch /\ user' = [user EXCEPT !.pinching = FALSE]
  BY DEF ChangeCaps
<1>3. /\ HasFields(user, UserFields) /\ user.pinching \in BOOLEAN
      /\ (batch.open \/ batch = NoBatch)
  BY DEF UserInv, UserShape
<1>4. UNCHANGED <<user, batch>>
  <2>1. user' = user
    BY <1>2, <1>3 DEF HasFields, UserFields
  <2> QED BY <1>2, <1>3, <2>1
<1> QED BY <1>1, <1>2, <1>3, <1>4, QuietSentUser

\* Whatever is sent, its handling has been foreseen.
LEMMA CompositorUser == ASSUME ~SplitBatches, Events, UserInv, Compositor PROVE UserInv'
<1>1. CASE PointerMoves \/ ButtonOrScroll \/ EndBatch
  BY <1>1, PointerMovesUser, ButtonOrScrollUser, EndBatchUser
<1>2. CASE Pinches \/ SendKeymap \/ Shifts \/ PressesKey
  BY <1>2, PinchesUser, SendKeymapUser, ShiftsUser, PressesKeyUser
<1>3. CASE ChangeCaps
  BY <1>3, ChangeCapsUser
<1>4. CASE SendFrame
  <2>1. PICK e : Sends(e) /\ e.kind = "frame"
    BY <1>4 DEF SendFrame
  <2>2. UNCHANGED <<user, batch>>
    BY <1>4 DEF SendFrame
  <2> QED BY <2>1, <2>2, QuietSentUser
<1>5. CASE SendOther
  <2>1. PICK e : Sends(e) /\ e.kind \in {"ping", "close"}
    <3>1. \A k : [kind |-> k].kind = k
      OBVIOUS
    <3> QED BY <1>5, <3>1 DEF SendOther
  <2>2. UNCHANGED <<user, batch>>
    BY <1>5 DEF SendOther
  <2> QED BY <2>1, <2>2, QuietSentUser
<1>6. CASE Tick
  <2>1. UNCHANGED <<wire, queue, app, user, batch>>
    BY <1>6 DEF Tick
  <2>2. Pipe' = Pipe /\ Same(app, app')
    BY <2>1 DEF Pipe, Same
  <2> QED BY <2>1, <2>2, OtherUser
<1> QED BY <1>1, <1>2, <1>3, <1>4, <1>5, <1>6 DEF Compositor

------------------------------------------------------------------------------
(* The handlers and the user *)

\* One of struct app's fields is assigned.
LEMMA SetParts ==
  ASSUME NEW a, HasFields(a, AppFields), NEW x, NEW v, NEW b, b = [a EXCEPT ![x] = v]
  PROVE  /\ HasFields(b, AppFields)
         /\ b.c = IF x = "c" THEN v ELSE a.c
         /\ b.ev = IF x = "ev" THEN v ELSE a.ev
         /\ b.xkb = IF x = "xkb" THEN v ELSE a.xkb
         /\ b.begin = IF x = "begin" THEN v ELSE a.begin
<1>1. HasFields(b, AppFields) /\ \A y \in AppFields : b[y] = IF y = x THEN v ELSE a[y]
  BY DEF HasFields
<1>2. "c" \in AppFields /\ "ev" \in AppFields /\ "xkb" \in AppFields /\ "begin" \in AppFields
  BY DEF AppFields
<1> QED BY <1>1, <1>2

\* A handler that draws nothing and does to each part what After says.
LEMMA QuietUser ==
  ASSUME Events, UserInv, NEW kind, Quietly(kind), NEW e, e = Head(queue),
         app'.c = Controlled(app, e), app'.ev = Staged(app.ev, e),
         app'.xkb = Keyboard(app.xkb, e),
         app'.begin = IF kind = "pbegin" THEN app.c.zoom ELSE app.begin
  PROVE  UserInv'
<1>1. /\ queue # <<>> /\ queue' = Tail(queue) /\ UNCHANGED <<wire, user, batch>>
      /\ e.kind = kind
  BY DEF Quietly, Handles, compVars
<1>2. Same(app', After(app, e))
  BY <1>1 DEF Same, After
<1> QED BY <1>1, <1>2, HandledUser

\* What the pointer's handlers stage, and what the batch's end makes of it.
LEMMA PointerUser ==
  ASSUME ClockInv, UserInv,
         \/ OnPointerEnter \/ OnPointerMotion \/ OnPointerButton \/ OnPointerAxis \/ OnPointerFrame
  PROVE  UserInv'
<1>1. HasFields(app, AppFields) /\ Events
  BY DEF ClockInv, AppShape, Shaped
<1>2. PICK e : e = Head(queue)
  OBVIOUS
<1>3. ASSUME NEW kind \in {"enter", "motion", "button", "axis"}, Quietly(kind), NEW v,
             v = Staged(app.ev, e), app' = [app EXCEPT !["ev"] = v]
      PROVE  UserInv'
  <2>1. e.kind = kind
    BY <1>2, <1>3 DEF Quietly, Handles
  <2>2. Controlled(app, e) = app.c /\ Keyboard(app.xkb, e) = app.xkb
    BY <2>1, EventParts
  <2>3. app'.c = app.c /\ app'.ev = v /\ app'.xkb = app.xkb /\ app'.begin = app.begin
    BY <1>1, <1>3, SetParts
  <2> QED BY <1>1, <1>2, <1>3, <2>2, <2>3, QuietUser
<1>4. CASE OnPointerEnter
  <2>1. Quietly("enter") /\ app' = [app EXCEPT !["ev"] = StageMotion(app.ev, e)]
    BY <1>2, <1>4 DEF OnPointerEnter
  <2>2. Staged(app.ev, e) = StageMotion(app.ev, e)
    BY <1>2, <2>1 DEF Quietly, Handles, Staged
  <2> QED BY <1>3, <2>1, <2>2
<1>5. CASE OnPointerMotion
  <2>1. Quietly("motion") /\ app' = [app EXCEPT !["ev"] = StageMotion(app.ev, e)]
    BY <1>2, <1>5 DEF OnPointerMotion
  <2>2. Staged(app.ev, e) = StageMotion(app.ev, e)
    BY <1>2, <2>1 DEF Quietly, Handles, Staged
  <2> QED BY <1>3, <2>1, <2>2
<1>6. CASE OnPointerButton
  <2>1. Quietly("button") /\ app' = [app EXCEPT !["ev"] = StageButton(app.ev, e)]
    BY <1>2, <1>6 DEF OnPointerButton
  <2>2. Staged(app.ev, e) = StageButton(app.ev, e)
    BY <1>2, <2>1 DEF Quietly, Handles, Staged
  <2> QED BY <1>3, <2>1, <2>2
<1>7. CASE OnPointerAxis
  <2>1. Quietly("axis") /\ app' = [app EXCEPT !["ev"] = StageAxis(app.ev, e)]
    BY <1>2, <1>7 DEF OnPointerAxis
  <2>2. Staged(app.ev, e) = StageAxis(app.ev, e)
    BY <1>2, <2>1 DEF Quietly, Handles, Staged
  <2> QED BY <1>3, <2>1, <2>2
<1>8. CASE OnPointerFrame
  <2>1. PICK c : c = ApplyFrame(app.c, app.ev)
    OBVIOUS
  <2>2. PICK a : a = [app EXCEPT !["c"] = c]
    OBVIOUS
  <2>3. Quietly("pframe") /\ app' = [a EXCEPT !["ev"] = NoEvent]
    <3>1. app' = [[app EXCEPT !["c"] = c] EXCEPT !["ev"] = NoEvent]
      BY <1>8, <2>1 DEF OnPointerFrame
    <3> QED BY <1>8, <2>2, <3>1 DEF OnPointerFrame
  <2>4. e.kind = "pframe"
    BY <1>2, <2>3 DEF Quietly, Handles
  <2>5. HasFields(a, AppFields) /\ a.c = c /\ a.xkb = app.xkb /\ a.begin = app.begin
    <3>1. HasFields(a, AppFields)
      BY <1>1, <2>2 DEF HasFields
    <3>2. a.c = c /\ a.xkb = app.xkb /\ a.begin = app.begin
      BY <1>1, <2>2 DEF HasFields, AppFields
    <3> QED BY <3>1, <3>2
  <2>6. app'.c = c /\ app'.ev = NoEvent /\ app'.xkb = app.xkb /\ app'.begin = app.begin
    BY <2>3, <2>5, SetParts
  <2>7. Controlled(app, e) = c /\ Staged(app.ev, e) = NoEvent /\ Keyboard(app.xkb, e) = app.xkb
    BY <2>1, <2>4 DEF Controlled, Staged, Keyboard
  <2> QED BY <1>1, <1>2, <2>3, <2>6, <2>7, QuietUser
<1> QED BY <1>4, <1>5, <1>6, <1>7, <1>8

\* The pinch, anchored where it began.
LEMMA PinchUser ==
  ASSUME ClockInv, UserInv, OnPinchBegin \/ OnPinchUpdate \/ OnPinchEnd
  PROVE  UserInv'
<1>1. HasFields(app, AppFields) /\ Events
  BY DEF ClockInv, AppShape, Shaped
<1>2. PICK e : e = Head(queue)
  OBVIOUS
<1>3. CASE OnPinchBegin
  <2>1. Quietly("pbegin") /\ app' = [app EXCEPT !["begin"] = app.c.zoom]
    BY <1>3 DEF OnPinchBegin
  <2>2. Controlled(app, e) = app.c /\ Staged(app.ev, e) = app.ev /\ Keyboard(app.xkb, e) = app.xkb
    BY <1>2, <2>1, EventParts DEF Quietly, Handles
  <2>3. PICK v : v = app.c.zoom
    OBVIOUS
  <2>4. app'.c = app.c /\ app'.ev = app.ev /\ app'.xkb = app.xkb /\ app'.begin = v
    <3>1. app' = [app EXCEPT !["begin"] = v]
      BY <2>1, <2>3
    <3> QED BY <1>1, <3>1, SetParts
  <2> QED BY <1>1, <1>2, <2>1, <2>2, <2>3, <2>4, QuietUser
<1>4. ASSUME NEW kind \in {"pupdate", "pend"}, Quietly(kind), NEW c,
             c = Controlled(app, e), app' = [app EXCEPT !["c"] = c] \/ (app' = app /\ c = app.c)
      PROVE  UserInv'
  <2>1. Staged(app.ev, e) = app.ev /\ Keyboard(app.xkb, e) = app.xkb
    BY <1>2, <1>4, EventParts DEF Quietly, Handles
  <2>2. app'.c = c /\ app'.ev = app.ev /\ app'.xkb = app.xkb /\ app'.begin = app.begin
    BY <1>1, <1>4, SetParts
  <2> QED BY <1>1, <1>2, <1>4, <2>1, <2>2, QuietUser
<1>5. CASE OnPinchUpdate
  <2>1. Quietly("pupdate")
    BY <1>5 DEF OnPinchUpdate
  <2>2. PICK c : c = [app.c EXCEPT !.zoom = Zoomed(app, e)]
    OBVIOUS
  <2>3. app' = [app EXCEPT !["c"] = c]
    BY <1>2, <1>5, <2>2 DEF OnPinchUpdate
  <2>4. Controlled(app, e) = c
    BY <1>2, <2>1, <2>2 DEF Quietly, Handles, Controlled
  <2> QED BY <1>4, <2>1, <2>3, <2>4
<1>6. CASE OnPinchEnd
  <2>1. Quietly("pend") /\ e.kind = "pend"
    BY <1>2, <1>6 DEF OnPinchEnd, Quietly, Handles
  <2>2. CASE e.v
    <3>1. PICK c : c = [app.c EXCEPT !.zoom = app.begin]
      OBVIOUS
    <3>2. app' = [app EXCEPT !["c"] = c]
      BY <1>2, <1>6, <2>2, <3>1 DEF OnPinchEnd
    <3>3. Controlled(app, e) = c
      BY <2>1, <2>2, <3>1 DEF Controlled
    <3> QED BY <1>4, <2>1, <3>2, <3>3
  <2>3. CASE ~e.v
    <3>1. app' = app
      BY <1>2, <1>6, <2>3 DEF OnPinchEnd
    <3>2. Controlled(app, e) = app.c
      BY <2>1, <2>3 DEF Controlled
    <3> QED BY <1>4, <2>1, <3>1, <3>2
  <2> QED BY <2>2, <2>3
<1> QED BY <1>3, <1>5, <1>6

\* A key changes the controls and nothing else that counts here.
LEMMA PressedParts ==
  ASSUME NEW a, Shaped(a), NEW e, NEW b, b = PressKey(a, e)
  PROVE  b.c = Keyed(a.c, a.xkb, e.v) /\ b.ev = a.ev /\ b.xkb = a.xkb /\ b.begin = a.begin
<1>1. HasFields(a, AppFields)
  BY DEF Shaped
<1>2. CASE /\ a.xkb = "none" \/ ~Quits(e.v, a.xkb = "plain")
           /\ \/ a.xkb = "none" \/ e.v \notin {"space", "e", "c"} \cup Effects
              \/ e.v \in Effects /\ a.xkb # "plain"
  <2>1. PressKey(a, e) = a
    BY <1>2 DEF PressKey, Effects, Quits
  <2>2. Keyed(a.c, a.xkb, e.v) = a.c
    BY <1>2 DEF Keyed, Effects
  <2> QED BY <2>1, <2>2
<1>3. CASE a.xkb # "none" /\ Quits(e.v, a.xkb = "plain")
  <2>1. b = [a EXCEPT !["running"] = FALSE]
    BY <1>3 DEF PressKey, Effects, Quits
  <2>2. Keyed(a.c, a.xkb, e.v) = a.c
    BY <1>3 DEF Keyed, Effects, Quits
  <2> QED BY <1>1, <2>1, <2>2, SetParts
<1>4. CASE \/ a.xkb # "none" /\ e.v \in {"space", "e", "c"}
           \/ a.xkb = "plain" /\ e.v \in Effects
  <2>1. PICK c : c = Keyed(a.c, a.xkb, e.v)
    OBVIOUS
  <2>2. b = [a EXCEPT !["c"] = c]
    <3>1. CASE a.xkb # "none" /\ e.v = "space"
      <4>1. b = [a EXCEPT !.c = [a.c EXCEPT !.paused = ~a.c.paused]]
        BY <3>1 DEF PressKey, Effects, Quits
      <4>2. c = [a.c EXCEPT !.paused = ~a.c.paused]
        BY <2>1, <3>1 DEF Keyed, Effects
      <4> QED BY <4>1, <4>2, Zenon
    <3>2. CASE a.xkb # "none" /\ e.v = "e"
      <4>1. b = [a EXCEPT !.c = [a.c EXCEPT !.effect = {}]]
        BY <3>2 DEF PressKey, Effects, Quits
      <4>2. c = [a.c EXCEPT !.effect = {}]
        BY <2>1, <3>2 DEF Keyed, Effects
      <4> QED BY <4>1, <4>2, Zenon
    <3>3. CASE a.xkb # "none" /\ e.v = "c"
      <4>1. b = [a EXCEPT !.c = [a.c EXCEPT !.mode = ~a.c.mode]]
        BY <3>3 DEF PressKey, Effects, Quits
      <4>2. c = [a.c EXCEPT !.mode = ~a.c.mode]
        BY <2>1, <3>3 DEF Keyed, Effects
      <4> QED BY <4>1, <4>2, Zenon
    <3>4. CASE a.xkb = "plain" /\ e.v \in Effects
      <4>1. b = [a EXCEPT !.c = [a.c EXCEPT !.effect = SymDiff(a.c.effect, {e.v})]]
        BY <3>4 DEF PressKey, Effects, Quits
      <4>2. c = [a.c EXCEPT !.effect = SymDiff(a.c.effect, {e.v})]
        BY <2>1, <3>4 DEF Keyed, Effects
      <4> QED BY <4>1, <4>2, Zenon
    <3> QED BY <1>4, <3>1, <3>2, <3>3, <3>4
  <2> QED BY <1>1, <2>1, <2>2, SetParts
<1> QED BY <1>2, <1>3, <1>4 DEF Effects

\* The keymap, the modifiers and the keys.
LEMMA KeyboardUser ==
  ASSUME ClockInv, UserInv, OnKeyboardKeymap \/ OnKeyboardModifiers \/ OnKeyboardKey
  PROVE  UserInv'
<1>1. HasFields(app, AppFields) /\ Shaped(app) /\ Events
  BY DEF ClockInv, AppShape, Shaped
<1>2. PICK e : e = Head(queue)
  OBVIOUS
<1>3. ASSUME NEW kind \in {"keymap", "mods"}, Quietly(kind), NEW x,
             x = Keyboard(app.xkb, e), app' = [app EXCEPT !["xkb"] = x] \/ (app' = app /\ x = app.xkb)
      PROVE  UserInv'
  <2>1. Staged(app.ev, e) = app.ev /\ Controlled(app, e) = app.c
    BY <1>2, <1>3, EventParts DEF Quietly, Handles
  <2>2. app'.c = app.c /\ app'.ev = app.ev /\ app'.xkb = x /\ app'.begin = app.begin
    BY <1>1, <1>3, SetParts
  <2> QED BY <1>1, <1>2, <1>3, <2>1, <2>2, QuietUser
<1>4. CASE OnKeyboardKeymap
  <2>1. Quietly("keymap") /\ e.kind = "keymap"
    BY <1>2, <1>4 DEF OnKeyboardKeymap, Quietly, Handles
  <2>2. PICK x : x = CASE e.v = "good" -> "plain" [] e.v = "no_xkb" -> "none" [] OTHER -> app.xkb
    OBVIOUS
  <2>3. app' = [app EXCEPT !["xkb"] = x]
    BY <1>2, <1>4, <2>2 DEF OnKeyboardKeymap
  <2>4. x = Keyboard(app.xkb, e)
    BY <2>1, <2>2 DEF Keyboard
  <2> QED BY <1>3, <2>1, <2>3, <2>4
<1>5. CASE OnKeyboardModifiers
  <2>1. Quietly("mods") /\ e.kind = "mods"
    BY <1>2, <1>5 DEF OnKeyboardModifiers, Quietly, Handles
  <2>2. CASE app.xkb = "none"
    <3>1. app' = app /\ Keyboard(app.xkb, e) = app.xkb
      BY <1>5, <2>1, <2>2 DEF OnKeyboardModifiers, Keyboard
    <3> QED BY <1>3, <2>1, <3>1
  <2>3. CASE app.xkb # "none"
    <3>1. PICK x : x = IF e.v THEN "shift" ELSE "plain"
      OBVIOUS
    <3>2. app' = [app EXCEPT !["xkb"] = x]
      BY <1>2, <1>5, <2>3, <3>1 DEF OnKeyboardModifiers
    <3>3. x = Keyboard(app.xkb, e)
      BY <2>1, <2>3, <3>1 DEF Keyboard
    <3> QED BY <1>3, <2>1, <3>2, <3>3
  <2> QED BY <2>2, <2>3
<1>6. CASE OnKeyboardKey
  <2>1. Quietly("key") /\ app' = PressKey(app, e) /\ e.kind = "key"
    BY <1>2, <1>6 DEF OnKeyboardKey, Quietly, Handles
  <2>2. Staged(app.ev, e) = app.ev /\ Keyboard(app.xkb, e) = app.xkb
    BY <2>1, EventParts
  <2>3. Controlled(app, e) = Keyed(app.c, app.xkb, e.v)
    BY <2>1 DEF Controlled
  <2>4. /\ app'.c = Keyed(app.c, app.xkb, e.v) /\ app'.ev = app.ev /\ app'.xkb = app.xkb
        /\ app'.begin = app.begin
    BY <1>1, <2>1, PressedParts
  <2> QED BY <1>1, <1>2, <2>1, <2>2, <2>3, <2>4, QuietUser
<1> QED BY <1>4, <1>5, <1>6

\* What has nothing to do with the controls.
LEMMA OtherHandlerUser ==
  ASSUME ClockInv, UserInv, OnSeatCapabilities \/ OnToplevelClose \/ OnWmBasePing \/ OnFrameDone
  PROVE  UserInv'
<1>1. HasFields(app, AppFields) /\ Events
  BY DEF ClockInv, AppShape, Shaped
<1>2. PICK e : e = Head(queue)
  OBVIOUS
<1>3. e.kind \in {"caps", "close", "ping", "frame"}
  BY <1>2 DEF OnSeatCapabilities, OnToplevelClose, OnWmBasePing, OnFrameDone, Quietly, Handles
<1>4. Controlled(app, e) = app.c /\ Staged(app.ev, e) = app.ev /\ Keyboard(app.xkb, e) = app.xkb
  BY <1>3, EventParts
<1>5. ASSUME NEW x \in {"pointer", "anim"}, NEW y \in {"keyboard", "last"}, NEW v, NEW w,
             app' = [[app EXCEPT ![x] = v] EXCEPT ![y] = w]
      PROVE  app'.c = app.c /\ app'.ev = app.ev /\ app'.xkb = app.xkb /\ app'.begin = app.begin
  <2>1. PICK a : a = [app EXCEPT ![x] = v]
    OBVIOUS
  <2>2. /\ HasFields(a, AppFields) /\ a.c = app.c /\ a.ev = app.ev /\ a.xkb = app.xkb
        /\ a.begin = app.begin
    <3>1. HasFields(a, AppFields)
      BY <1>1, <2>1 DEF HasFields
    <3> QED BY <1>1, <2>1, <3>1, SetParts
  <2>3. app' = [a EXCEPT ![y] = w]
    BY <1>5, <2>1
  <2> QED BY <2>2, <2>3, SetParts
<1>6. app'.c = app.c /\ app'.ev = app.ev /\ app'.xkb = app.xkb /\ app'.begin = app.begin
  <2>1. CASE OnSeatCapabilities
    <3>1. PICK p, k : app' = [[app EXCEPT !["pointer"] = p] EXCEPT !["keyboard"] = k]
      BY <2>1 DEF OnSeatCapabilities
    <3> QED BY <1>5, <3>1
  <2>2. CASE OnToplevelClose
    <3>1. app' = [app EXCEPT !["running"] = FALSE]
      BY <2>2 DEF OnToplevelClose
    <3> QED BY <1>1, <3>1, SetParts
  <2>3. CASE OnWmBasePing
    BY <2>3 DEF OnWmBasePing
  <2>4. CASE OnFrameDone
    <3>1. PICK t : app' = AdvanceClock(app, t)
      BY <2>4 DEF OnFrameDone
    <3>2. PICK n : app' = [[app EXCEPT !["anim"] = n] EXCEPT !["last"] = t]
      <4>1. PICK n : n = IF app.last # 0 /\ ~app.c.paused
                         THEN app.anim + ((t - app.last) % TimeMod) * app.c.speed ELSE app.anim
        OBVIOUS
      <4>2. AdvanceClock(app, t) = [[app EXCEPT !["anim"] = n] EXCEPT !["last"] = t]
        BY <4>1 DEF AdvanceClock
      <4> QED BY <3>1, <4>2
    <3> QED BY <1>5, <3>2
  <2> QED BY <2>1, <2>2, <2>3, <2>4
<1>7. Same(app', After(app, Head(queue)))
  BY <1>2, <1>3, <1>4, <1>6 DEF Same, After
<1>8. /\ queue # <<>> /\ UNCHANGED <<user, batch>>
      /\ \/ queue' = Tail(queue) /\ UNCHANGED wire
         \/ queue' = Tail(queue) \o wire /\ wire' = <<>>
  BY DEF OnSeatCapabilities, OnToplevelClose, OnWmBasePing, OnFrameDone, Quietly, Handles, compVars
<1> QED BY <1>1, <1>7, <1>8, HandledUser

\* Every step keeps UserInv.
LEMMA UserStep == ASSUME ~SplitBatches, ClockInv, UserInv, [Next]_vars PROVE UserInv'
<1>1. CASE Handler
  BY <1>1, PointerUser, PinchUser, KeyboardUser, OtherHandlerUser DEF Handler
<1>2. CASE Compositor
  BY <1>2, CompositorUser DEF ClockInv
<1>3. CASE ReadEvents
  <2>1. UNCHANGED <<app, user, batch>>
        /\ \/ queue' = queue \o wire /\ wire' = <<>>
           \/ UNCHANGED <<queue, wire>>
    BY <1>3 DEF ReadEvents, compVars
  <2>2. IsSeq(queue \o wire)
    BY JoinedSeq DEF ClockInv, Events
  <2>3. (queue \o wire) \o <<>> = queue \o wire
    BY <2>2, ShortSeqs, JoinedSeq
  <2>4. Pipe' = Pipe /\ Same(app, app')
    BY <2>1, <2>3 DEF Pipe, Same
  <2> QED BY <2>1, <2>4, OtherUser
<1>4. CASE \/ Top \/ PrepareRead \/ Flush \/ PollReturns \/ PollFails
           \/ DispatchFails \/ AuxHandler \/ Camera \/ UNCHANGED vars
  <2>1. UNCHANGED <<wire, queue, app, user, batch>>
    BY <1>4 DEF Top, PrepareRead, Flush, PollReturns, PollFails, DispatchFails, AuxHandler,
                Camera, Running, vars, compVars
  <2>2. Pipe' = Pipe /\ Same(app, app')
    BY <2>1 DEF Pipe, Same
  <2> QED BY <2>1, <2>2, OtherUser
<1> QED BY <1>1, <1>2, <1>3, <1>4 DEF Next

\* ControlsFollowUser: whatever is under way, and however it is read (by the loop, or by
\* Mesa during a redraw), once it has been dispatched the controls are the user's: for
\* any number and order of events and any limits.  The compositor must keep a pointer
\* batch and a pinch whole when it removes a device; common.c discards neither.
THEOREM ControlsFollowUserAlways == ASSUME ~SplitBatches PROVE Spec => []ControlsFollowUser
<1>1. Init => ClockInv /\ UserInv
  BY ClockInit, UserInit
<1>2. ClockInv /\ UserInv /\ [Next]_vars => (ClockInv /\ UserInv)'
  BY ClockStep, UserStep
<1>3. ClockInv /\ UserInv => ControlsFollowUser
  BY UserFollows
<1> QED BY <1>1, <1>2, <1>3, PTL DEF Spec
===============================================================================
