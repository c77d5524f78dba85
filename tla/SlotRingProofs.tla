---------------------------- MODULE SlotRingProofs ----------------------------
(***************************************************************************)
(* Proofs about SlotRing, for any number of slots, any sizes, any bounds   *)
(* on generations and configures, both ways of learning about releases.    *)
(***************************************************************************)
EXTENDS SlotRing, TLAPS, FiniteSetTheorems, SequenceTheorems,
        WellFoundedInduction

------------------------------------------------------------------------------
(* Buffers and slots *)

\* A wl_buffer is a slot and a generation, and NoBuffer is none.
LEMMA BufferParts ==
  /\ NoBuffer \notin Buffers
  /\ \A b \in Buffers : SlotOf(b) \in Slots /\ b[2] \in 1 .. MaxGens /\ b = <<SlotOf(b), b[2]>>
  /\ \A i \in Slots, g \in 1 .. MaxGens : <<i, g>> \in Buffers /\ SlotOf(<<i, g>>) = i
  BY RingAssumption DEF NoBuffer, Buffers, Slots, SlotOf

\* The slots are numbers, at least one of them.
LEMMA SlotNumbers == Slots \subseteq Nat /\ 1 \in Slots
  BY RingAssumption DEF Slots

\* Least finds a member.
LEMMA LeastIsIn ==
  ASSUME NEW S \in SUBSET Nat, S # {}
  PROVE  Least(S) \in S
<1> DEFINE Upto(m) == 1 .. m
           T == {Upto(m) : m \in S}
<1>1. ASSUME NEW m \in S PROVE Upto(m) \in FiniteSubsetsOf(Nat)
  BY <1>1, FS_Interval DEF FiniteSubsetsOf
<1>2. T \subseteq FiniteSubsetsOf(Nat) /\ T # {}
  BY <1>1
<1>3. PICK t \in T : \A u \in T : <<u, t>> \notin StrictSubsetOrdering(Nat)
  BY <1>2, FS_StrictSubsetOrderingWellFounded, WFMin
<1>4. PICK m \in S : t = Upto(m)
  BY <1>3
<1>5. ASSUME NEW n \in S, ~ (m <= n) PROVE FALSE
  <2>1. m \in Nat /\ n \in Nat /\ n < m
    BY <1>5
  <2>2. Upto(n) \subseteq Upto(m) /\ m \in Upto(m) /\ m \notin Upto(n)
    BY <2>1
  <2>3. Upto(n) \in SUBSET Nat /\ Upto(m) \in SUBSET Nat
    BY <2>1
  <2>4. Upto(n) # Upto(m)
    BY <2>2
  <2> HIDE DEF Upto
  <2>5. <<Upto(n), Upto(m)>> \in StrictSubsetOrdering(Nat)
    BY <2>2, <2>3, <2>4 DEF StrictSubsetOrdering
  <2> QED BY <2>5, <1>3, <1>4
<1> QED BY <1>5 DEF Least

------------------------------------------------------------------------------
(* The wire *)

\* One event more on the wire.
LEMMA SentOne ==
  ASSUME inbox \in Seq(Events), NEW e \in Events, Send(<<e>>)
  PROVE  /\ inbox' \in Seq(Events)
         /\ Len(inbox) \in Nat /\ Len(inbox') = Len(inbox) + 1
         /\ \A j \in 1 .. Len(inbox) : inbox'[j] = inbox[j]
         /\ inbox'[Len(inbox) + 1] = e
         /\ \A k : Pending(k)' = IF e.kind = k THEN Pending(k) \cup {Len(inbox) + 1} ELSE Pending(k)
         /\ \A b : ReleaseSent(b)' <=> ReleaseSent(b) \/ (e.kind = "release" /\ e.arg = b)
<1>1. <<e>> \in Seq(Events) /\ Len(<<e>>) = 1 /\ <<e>>[1] = e
  OBVIOUS
<1>2. /\ inbox' \in Seq(Events) /\ Len(inbox) \in Nat /\ Len(inbox') = Len(inbox) + 1
      /\ \A j \in 1 .. Len(inbox) : inbox'[j] = inbox[j]
      /\ inbox'[Len(inbox) + 1] = e
  BY <1>1, ConcatProperties, LenProperties DEF Send
<1>3. ASSUME NEW k
      PROVE  Pending(k)' = IF e.kind = k THEN Pending(k) \cup {Len(inbox) + 1} ELSE Pending(k)
  BY <1>2 DEF Pending
<1>4. ASSUME NEW b
      PROVE  ReleaseSent(b)' <=> ReleaseSent(b) \/ (e.kind = "release" /\ e.arg = b)
  BY <1>2, <1>3 DEF ReleaseSent, Pending
<1> QED BY <1>2, <1>3, <1>4

\* A proposed size goes on the wire as two events.
LEMMA SentTwo ==
  ASSUME inbox \in Seq(Events), NEW e \in Events, NEW f \in Events, Send(<<e, f>>),
         e.kind # "release", f.kind # "release"
  PROVE  /\ inbox' \in Seq(Events)
         /\ Len(inbox) \in Nat /\ Len(inbox') = Len(inbox) + 2
         /\ \A j \in 1 .. Len(inbox) : inbox'[j] = inbox[j]
         /\ inbox'[Len(inbox) + 1] = e /\ inbox'[Len(inbox) + 2] = f
         /\ \A k : k # e.kind /\ k # f.kind => Pending(k)' = Pending(k)
         /\ f.kind # e.kind => Pending(f.kind)' = Pending(f.kind) \cup {Len(inbox) + 2}
         /\ \A b : ReleaseSent(b)' <=> ReleaseSent(b)
<1>1. <<e, f>> \in Seq(Events) /\ Len(<<e, f>>) = 2 /\ <<e, f>>[1] = e /\ <<e, f>>[2] = f
  OBVIOUS
<1>2. /\ inbox' \in Seq(Events) /\ Len(inbox) \in Nat /\ Len(inbox') = Len(inbox) + 2
      /\ \A j \in 1 .. Len(inbox) : inbox'[j] = inbox[j]
      /\ inbox'[Len(inbox) + 1] = e /\ inbox'[Len(inbox) + 2] = f
  BY <1>1, ConcatProperties, LenProperties DEF Send
<1>3. ASSUME NEW k, k # e.kind, k # f.kind PROVE Pending(k)' = Pending(k)
  BY <1>2, <1>3 DEF Pending
<1>4. ASSUME f.kind # e.kind PROVE Pending(f.kind)' = Pending(f.kind) \cup {Len(inbox) + 2}
  BY <1>2, <1>4 DEF Pending
<1>5. ASSUME NEW b PROVE ReleaseSent(b)' <=> ReleaseSent(b)
  BY <1>2, <1>3 DEF ReleaseSent, Pending
<1> QED BY <1>2, <1>3, <1>4, <1>5

\* The event loop takes the oldest event off the wire.
LEMMA Taken ==
  ASSUME inbox \in Seq(Events), NEW kind, Dispatch(kind)
  PROVE  /\ inbox' \in Seq(Events) /\ Head(inbox) \in Events /\ Head(inbox).kind = kind
         /\ Len(inbox) \in Nat /\ Len(inbox) >= 1 /\ Len(inbox') = Len(inbox) - 1
         /\ inbox[1] = Head(inbox)
         /\ \A j \in 1 .. Len(inbox') : inbox'[j] = inbox[j + 1]
         /\ \A k : /\ Pending(k)' = {j \in 1 .. Len(inbox') : j + 1 \in Pending(k)}
                   /\ 1 \in Pending(k) <=> k = kind
         /\ \A b : ReleaseSent(b) <=> ReleaseSent(b)' \/ (kind = "release" /\ Head(inbox).arg = b)
<1>1. /\ inbox' \in Seq(Events) /\ Head(inbox) \in Events /\ Head(inbox).kind = kind
      /\ Len(inbox) \in Nat /\ Len(inbox) >= 1 /\ Len(inbox') = Len(inbox) - 1
      /\ inbox[1] = Head(inbox)
      /\ \A j \in 1 .. Len(inbox') : inbox'[j] = inbox[j + 1]
  BY HeadTailProperties, LenProperties, EmptySeq DEF Dispatch
<1>2. ASSUME NEW k
      PROVE  /\ Pending(k)' = {j \in 1 .. Len(inbox') : j + 1 \in Pending(k)}
             /\ 1 \in Pending(k) <=> k = kind
  BY <1>1 DEF Pending
<1>3. ASSUME NEW b
      PROVE  ReleaseSent(b) <=> ReleaseSent(b)' \/ (kind = "release" /\ Head(inbox).arg = b)
  <2>1. ASSUME ReleaseSent(b)' PROVE ReleaseSent(b)
    BY <1>1, <2>1 DEF ReleaseSent, Pending
  <2>2. ASSUME kind = "release", Head(inbox).arg = b PROVE ReleaseSent(b)
    BY <1>1, <2>2 DEF ReleaseSent, Pending
  <2>3. ASSUME ReleaseSent(b), ~ReleaseSent(b)' PROVE kind = "release" /\ Head(inbox).arg = b
    <3>1. PICK j \in Pending("release") : inbox[j].arg = b
      BY <2>3 DEF ReleaseSent
    <3>2. j \in 1 .. Len(inbox) /\ inbox[j].kind = "release"
      BY <3>1 DEF Pending
    <3>3. CASE j > 1
      <4>1. j - 1 \in 1 .. Len(inbox') /\ inbox'[j - 1] = inbox[j]
        BY <1>1, <3>2, <3>3
      <4> QED BY <4>1, <3>1, <3>2, <2>3 DEF ReleaseSent, Pending
    <3>4. CASE j = 1
      BY <3>4, <3>1, <3>2, <1>1
    <3> QED BY <3>2, <3>3, <3>4
  <2> QED BY <2>1, <2>2, <2>3
<1> QED BY <1>1, <1>2, <1>3

\* What is on the wire, and what is unused, can be counted.
CanCount ==
  /\ inbox \in Seq(Events) => \A k : IsFiniteSet(Pending(k)) /\ Cardinality(Pending(k)) \in Nat
  /\ \A i \in Slots : IsFiniteSet(Unused(i)) /\ Cardinality(Unused(i)) \in Nat

\* Both are subsets of an interval, in every state.
LEMMA Countable == CanCount
<1>1. ASSUME inbox \in Seq(Events), NEW k
      PROVE  IsFiniteSet(Pending(k)) /\ Cardinality(Pending(k)) \in Nat
  <2>1. Len(inbox) \in Nat /\ Pending(k) \in SUBSET (1 .. Len(inbox))
    BY <1>1, LenProperties DEF Pending
  <2>2. IsFiniteSet(1 .. Len(inbox))
    BY <2>1, FS_Interval
  <2>3. IsFiniteSet(Pending(k))
    BY <2>1, <2>2, FS_Subset
  <2> QED BY <2>3, FS_CardinalityType
<1>2. ASSUME NEW i \in Slots PROVE IsFiniteSet(Unused(i)) /\ Cardinality(Unused(i)) \in Nat
  <2>1. Unused(i) \in SUBSET (1 .. MaxGens) /\ MaxGens \in Int
    BY RingAssumption DEF Unused
  <2>2. IsFiniteSet(1 .. MaxGens)
    BY <2>1, FS_Interval
  <2>3. IsFiniteSet(Unused(i))
    BY <2>1, <2>2, FS_Subset
  <2> QED BY <2>3, FS_CardinalityType
<1> QED BY <1>1, <1>2 DEF CanCount

\* And after the step.
LEMMA CountableNext == CanCount'
  BY Countable, PTL

------------------------------------------------------------------------------
(* Drawing *)

\* A redraw finds every slot on loan and does nothing, or commits a free one.
LEMMA Drawing ==
  ASSUME NEW buf, NEW bz, NEW sched, Redraw(buf, bz, sched)
  PROVE  \/ /\ \A i \in Slots : ~IsFree(buf, bz, i)
            /\ busy' = bz /\ scheduled' = sched
            /\ UNCHANGED <<armed, held, current, syncVars>>
         \/ \E i \in Slots : /\ IsFree(buf, bz, i)
                             /\ busy' = [bz EXCEPT ![i] = TRUE]
                             /\ Commit(buf[i], sched)
<1> DEFINE F == FreeSlots(buf, bz)
<1>1. CASE F = {}
  BY <1>1 DEF Redraw, FreeSlots
<1>2. CASE F # {}
  <2>1. Least(F) \in F
    <3>1. F \in SUBSET Nat
      BY SlotNumbers DEF FreeSlots
    <3> QED BY <3>1, <1>2, LeastIsIn
  <2>2. Least(F) \in Slots /\ IsFree(buf, bz, Least(F))
    BY <2>1 DEF FreeSlots
  <2>3. busy' = [bz EXCEPT ![Least(F)] = TRUE] /\ Commit(buf[Least(F)], sched)
    BY <1>2 DEF Redraw
  <2> QED BY <2>2, <2>3
<1> QED BY <1>1, <1>2

\* What a commit does to the loans and to the points.
LEMMA Committed ==
  ASSUME TypeOK, NEW b \in Buffers, NEW sched, Commit(b, sched)
  PROVE  /\ held' = held \cup {b} /\ current' = b
         /\ armed' = armed + sched /\ scheduled' = 0
         /\ mode # "explicit" => UNCHANGED syncVars
         /\ mode = "explicit" => returned' = OfSlots(returned \ {b})
         /\ mode = "explicit" => 
              \/ rendering' = Append(rendering, b) /\ reached' = OfSlots(reached \ {b})
              \/ /\ rendering' = <<>> /\ reached' \subseteq Buffers
                 /\ \A x \in reached' : InSlot(x)'
<1>1. OfSlots(reached \cup {x \in Buffers : Rendering(x)} \cup {b}) \subseteq Buffers
  BY DEF OfSlots, TypeOK
<1>2. \A x \in OfSlots(reached \cup {x \in Buffers : Rendering(x)} \cup {b}) : InSlot(x)'
  BY DEF OfSlots, InSlot
<1>3. CASE mode = "explicit"
  BY <1>1, <1>2, <1>3 DEF Commit, SetPoints, NewPoint
<1>4. CASE mode # "explicit"
  BY <1>4 DEF Commit
<1> QED BY <1>3, <1>4

\* After a commit the GPU draws into no more than it did, and the new buffer.
LEMMA DrawnInto ==
  ASSUME TypeOK, NEW b \in Buffers, NEW sched, Commit(b, sched)
  PROVE  /\ rendering' \in Seq(Buffers)
         /\ \A x : Rendering(x)' => Rendering(x) \/ x = b
<1>1. rendering \in Seq(Buffers)
  BY DEF TypeOK
<1>2. \/ rendering' = rendering \/ rendering' = Append(rendering, b) \/ rendering' = <<>>
  BY Committed DEF syncVars
<1>3. CASE rendering' = rendering
  BY <1>1, <1>3 DEF Rendering
<1>4. CASE rendering' = Append(rendering, b)
  <2>1. /\ Append(rendering, b) \in Seq(Buffers) /\ Len(rendering) \in Nat
        /\ Len(Append(rendering, b)) = Len(rendering) + 1
        /\ \A j \in 1 .. Len(rendering) : Append(rendering, b)[j] = rendering[j]
        /\ Append(rendering, b)[Len(rendering) + 1] = b
    BY <1>1
  <2> QED BY <2>1, <1>4 DEF Rendering
<1>5. CASE rendering' = <<>>
  BY <1>5, EmptySeq DEF Rendering
<1> QED BY <1>2, <1>3, <1>4, <1>5

------------------------------------------------------------------------------
(* Resizing *)

\* A buffer in a slot is alive as long as the presenter is.
LEMMA InSlotAlive ==
  ASSUME TypeOK, Slotted, NEW b \in Buffers, InSlot(b)
  PROVE  /\ bufSize # None
         /\ running # "gone" => sizeOf[b] = size /\ Alive(b)
<1>1. SlotOf(b) \in Slots /\ buffer[SlotOf(b)] = b /\ b # NoBuffer
  BY BufferParts DEF InSlot
<1> QED BY <1>1 DEF Slotted, Alive

\* The ring after a reallocation: of buffers nothing mentions, the old ones
\* destroyed or, on loan, left as orphans.
NewRing ==
  /\ buffer' \in [Slots -> Buffers]
  /\ \A i \in Slots :
       /\ SlotOf(buffer'[i]) = i
       /\ ~Alive(buffer'[i]) /\ buffer'[i] \notin held
       /\ ~ReleaseSent(buffer'[i]) /\ ~Rendering(buffer'[i])
  /\ sizeOf' \in [Buffers -> Nat]
  /\ \A b \in Buffers :
       sizeOf'[b] = IF InSlot(b)' THEN size'
                    ELSE IF InSlot(b) /\ (~busy[SlotOf(b)] \/ mode = "explicit") THEN None
                    ELSE sizeOf[b]

\* Where a configure is on the wire, a reallocation finds its buffers.
LEMMA Reallocated ==
  ASSUME TypeOK, Slotted, Room, Dispatch("xdg"), Reallocate, size' \in Nat
  PROVE  NewRing
<1>1. ASSUME NEW i \in Slots PROVE Unused(i) # {}
  <2>1. 1 \in Pending("xdg") /\ inbox \in Seq(Events)
    BY Taken DEF TypeOK
  <2>2. Cardinality(Pending("xdg")) \in Nat /\ Cardinality(Pending("xdg")) # 0
    BY <2>1, Countable, FS_EmptySet DEF CanCount
  <2>3. Cardinality(Unused(i)) # 0
    BY <2>2, Countable DEF CanCount, Room, Dispatch
  <2> QED BY <2>3, FS_EmptySet
<1>2. ASSUME NEW i \in Slots
      PROVE  /\ NewBuffer(i) \in Buffers /\ SlotOf(NewBuffer(i)) = i
             /\ ~Alive(NewBuffer(i)) /\ NewBuffer(i) \notin held
             /\ ~ReleaseSent(NewBuffer(i)) /\ ~Rendering(NewBuffer(i))
  <2>1. Unused(i) \in SUBSET Nat
    BY RingAssumption DEF Unused
  <2>2. Least(Unused(i)) \in Unused(i)
    BY <1>1, <2>1, LeastIsIn
  <2> QED BY <2>2, BufferParts DEF NewBuffer, Unused
<1>3. buffer' = [i \in Slots |-> NewBuffer(i)]
  BY DEF Reallocate
<1>4. ASSUME NEW b \in Buffers
      PROVE  Destroyed(b) <=> InSlot(b) /\ (~busy[SlotOf(b)] \/ mode = "explicit")
  BY BufferParts DEF Destroyed, InSlot, Slotted
<1>5. ASSUME NEW b \in Buffers
      PROVE  sizeOf'[b] = IF InSlot(b)' THEN size'
                          ELSE IF InSlot(b) /\ (~busy[SlotOf(b)] \/ mode = "explicit") THEN None
                          ELSE sizeOf[b]
  <2>1. InSlot(b)' <=> b = NewBuffer(SlotOf(b))
    BY <1>3, BufferParts DEF InSlot
  <2> QED BY <2>1, <1>4 DEF Reallocate
<1>6. sizeOf' \in [Buffers -> Nat]
  BY DEF Reallocate, TypeOK, None
<1> QED BY <1>2, <1>3, <1>5, <1>6 DEF NewRing

\* A configure keeps the ring and draws as a frame does, or makes a new ring,
\* all of it free, and commits one of its buffers.
LEMMA Configured ==
  ASSUME TypeOK, Slotted, Room, OnXdgSurfaceConfigure
  PROVE  /\ Dispatch("xdg") /\ running # "gone"
         /\ size' = pending /\ bufSize' = pending /\ animating' = TRUE
         /\ UNCHANGED <<fixedVars, pending, running>>
         /\ \/ /\ bufSize = pending /\ UNCHANGED <<buffer, sizeOf>>
               /\ Redraw(buffer, busy, FirstSchedule)
            \/ /\ NewRing
               /\ \E i \in Slots : /\ busy' = [j \in Slots |-> j = i]
                                   /\ Commit(buffer'[i], FirstSchedule)
<1>1. Dispatch("xdg") /\ running # "gone" /\ size' = pending /\ size' \in Nat
  BY DEF OnXdgSurfaceConfigure, Dispatch, TypeOK
<1>2. animating' = TRUE /\ UNCHANGED <<fixedVars, pending, running>>
  BY DEF OnXdgSurfaceConfigure, Dispatch
<1>3. CASE bufSize = size'
  BY <1>1, <1>2, <1>3 DEF OnXdgSurfaceConfigure
<1>4. CASE bufSize # size'
  <2> DEFINE Bz == [i \in Slots |-> FreshBusy(i)]
  <2>1. Reallocate /\ bufSize' = pending /\ Redraw(buffer', Bz, FirstSchedule)
    BY <1>1, <1>4 DEF OnXdgSurfaceConfigure, Reallocate
  <2>2. NewRing
    BY <1>1, <2>1, Reallocated
  <2>3. \A i \in Slots : IsFree(buffer', Bz, i)
    BY DEF IsFree, FreshBusy
  <2>4. PICK i \in Slots : busy' = [Bz EXCEPT ![i] = TRUE] /\ Commit(buffer'[i], FirstSchedule)
    <3> HIDE DEF Bz
    <3> QED BY <2>1, <2>3, Drawing, SlotNumbers
  <2>5. busy' = [j \in Slots |-> j = i]
    BY <2>4 DEF FreshBusy
  <2> QED BY <1>1, <1>2, <2>1, <2>2, <2>4, <2>5
<1> QED BY <1>3, <1>4

------------------------------------------------------------------------------
(* Types *)

\* What the client and the compositor send are events.
LEMMA EventTypes ==
  /\ \A s \in Nat : Event("toplevel", s) \in Events
  /\ Event("xdg", 0) \in Events /\ Event("close", 0) \in Events /\ Event("frame", 0) \in Events
  /\ \A b \in Buffers : Event("release", b) \in Events
  /\ \A k, a : Event(k, a).kind = k /\ Event(k, a).arg = a
  /\ \A e \in Events : /\ e.kind \in {"toplevel", "xdg", "close", "frame", "release"}
                       /\ e.kind = "release" => e.arg \in Buffers
                       /\ e.kind # "release" => e.arg \in Nat
  BY DEF Event, Events

\* The buffer a free slot offers is one, as soon as there is a ring.
LEMMA FreeIsBuffer ==
  ASSUME TypeOK, Slotted, bufSize # None, NEW i \in Slots
  PROVE  buffer[i] \in Buffers /\ SlotOf(buffer[i]) = i /\ InSlot(buffer[i])
  BY DEF Slotted, InSlot

\* There is a frame event only once there is a ring.
LEMMA FrameMeansRing ==
  ASSUME TypeOK, Callbacks, Slotted, Dispatch("frame")
  PROVE  animating /\ bufSize # None
<1>1. 1 \in Pending("frame")
  BY Taken DEF TypeOK
<1> QED BY <1>1 DEF Callbacks, Slotted

\* Types survive a commit.
LEMMA CommitTypes ==
  ASSUME TypeOK, NEW b \in Buffers, NEW sched \in Nat, Commit(b, sched)
  PROVE  /\ scheduled' \in Nat /\ armed' \in Nat
         /\ held' \subseteq Buffers /\ current' \in Buffers \cup {NoBuffer}
         /\ rendering' \in Seq(Buffers) /\ reached' \subseteq Buffers
         /\ returned' \subseteq Buffers
<1>1. rendering' \in Seq(Buffers)
  BY DrawnInto
<1>2. returned' \subseteq Buffers /\ reached' \subseteq Buffers
  BY Committed DEF OfSlots, TypeOK, syncVars
<1>3. held' = held \cup {b} /\ current' = b /\ armed' = armed + sched /\ scheduled' = 0
  BY Committed
<1>4. armed \in Nat /\ held \subseteq Buffers
  BY DEF TypeOK
<1> QED BY <1>1, <1>2, <1>3, <1>4

\* Every handler, and every step of the compositor and the GPU, keeps the types.
LEMMA TypeStep ==
  ASSUME RingInv, [Next]_vars
  PROVE  TypeOK'
<1> USE DEF RingInv, fixedVars, appVars, ringVars, surfVars, syncVars
<1>1. inbox \in Seq(Events)
  BY DEF TypeOK
<1>2. CASE OnToplevelConfigure
  <2>1. inbox' \in Seq(Events) /\ Head(inbox).arg \in Nat
    BY <1>1, <1>2, Taken, EventTypes DEF OnToplevelConfigure
  <2>2. pending' \in Nat \ {0}
    BY <1>2, <2>1, RingAssumption DEF OnToplevelConfigure, Stage
  <2> QED BY <1>2, <2>1, <2>2 DEF OnToplevelConfigure, Dispatch, TypeOK
<1>3. CASE OnXdgSurfaceConfigure
  <2>1. inbox' \in Seq(Events)
    BY <1>1, <1>3, Taken DEF OnXdgSurfaceConfigure
  <2>2. FirstSchedule \in Nat
    BY DEF FirstSchedule, TypeOK
  <2>3. /\ size' \in Nat /\ bufSize' \in Nat /\ animating' \in BOOLEAN
        /\ UNCHANGED <<fixedVars, pending, running>>
    BY <1>3, Configured DEF TypeOK
  <2>4. CASE bufSize = pending /\ UNCHANGED <<buffer, sizeOf>>
             /\ Redraw(buffer, busy, FirstSchedule)
    <3>1. bufSize # None
      BY <2>4 DEF TypeOK, None
    <3>2. CASE busy' = busy /\ scheduled' = FirstSchedule
               /\ UNCHANGED <<armed, held, current, syncVars>>
      BY <2>1, <2>2, <2>3, <2>4, <3>2 DEF TypeOK
    <3>3. ASSUME NEW i \in Slots, busy' = [busy EXCEPT ![i] = TRUE],
                 Commit(buffer[i], FirstSchedule)
          PROVE  TypeOK'
      <4>1. buffer[i] \in Buffers
        BY <3>1, FreeIsBuffer
      <4> QED BY <2>1, <2>2, <2>3, <2>4, <3>3, <4>1, CommitTypes DEF TypeOK
    <3> QED BY <2>4, <3>2, <3>3, Drawing
  <2>5. ASSUME NewRing, NEW i \in Slots, busy' = [j \in Slots |-> j = i],
               Commit(buffer'[i], FirstSchedule)
        PROVE  TypeOK'
    <3>1. buffer'[i] \in Buffers
      BY <2>5 DEF NewRing
    <3> QED BY <2>1, <2>2, <2>3, <2>5, <3>1, CommitTypes DEF TypeOK, NewRing
  <2> QED BY <1>3, <2>4, <2>5, Configured
<1>4. CASE OnFrameDone
  <2>1. inbox' \in Seq(Events)
    BY <1>1, <1>4, Taken DEF OnFrameDone
  <2>2. NextSchedule \in Nat
    BY DEF NextSchedule, TypeOK
  <2>3. bufSize # None /\ Redraw(buffer, busy, NextSchedule)
        /\ UNCHANGED <<fixedVars, appVars, buffer, bufSize, sizeOf>>
    BY <1>4, FrameMeansRing DEF OnFrameDone, Dispatch
  <2>4. CASE busy' = busy /\ scheduled' = NextSchedule
             /\ UNCHANGED <<armed, held, current, syncVars>>
    BY <2>1, <2>2, <2>3, <2>4 DEF TypeOK
  <2>5. ASSUME NEW i \in Slots, busy' = [busy EXCEPT ![i] = TRUE],
               Commit(buffer[i], NextSchedule)
        PROVE  TypeOK'
    <3>1. buffer[i] \in Buffers
      BY <2>3, FreeIsBuffer
    <3> QED BY <2>1, <2>2, <2>3, <2>5, <3>1, CommitTypes DEF TypeOK
  <2> QED BY <2>3, <2>4, <2>5, Drawing
<1>5. CASE OnBufferRelease
  <2>1. inbox' \in Seq(Events) /\ Head(inbox).arg \in Buffers
    BY <1>1, <1>5, Taken, EventTypes DEF OnBufferRelease
  <2>2. busy' \in [Slots -> BOOLEAN] /\ sizeOf' \in [Buffers -> Nat]
    <3> DEFINE b == Head(inbox).arg
    <3>1. busy \in [Slots -> BOOLEAN] /\ sizeOf \in [Buffers -> Nat] /\ 0 \in Nat
      BY DEF TypeOK
    <3>2. \/ busy' = [busy EXCEPT ![SlotOf(b)] = FALSE] /\ sizeOf' = sizeOf
          \/ sizeOf' = [sizeOf EXCEPT ![b] = 0] /\ busy' = busy
      BY <1>5 DEF OnBufferRelease, HandBack, None
    <3> HIDE DEF b
    <3> QED BY <3>1, <3>2
  <2> QED BY <1>5, <2>1, <2>2 DEF OnBufferRelease, Dispatch, TypeOK
<1>6. CASE OnToplevelClose
  <2>1. inbox' \in Seq(Events)
    BY <1>1, <1>6, Taken DEF OnToplevelClose
  <2> QED BY <1>6, <2>1 DEF OnToplevelClose, Dispatch, TypeOK
<1>7. ASSUME NEW s \in Sizes, SendConfigure(s) PROVE TypeOK'
  <2>1. s \in Nat
    BY RingAssumption
  <2>2. inbox' \in Seq(Events)
    BY <1>1, <1>7, <2>1, EventTypes, SentTwo DEF SendConfigure
  <2> QED BY <1>7, <2>2 DEF SendConfigure, TypeOK
<1>8. CASE SendClose
  <2>1. inbox' \in Seq(Events)
    BY <1>1, <1>8, EventTypes, SentOne DEF SendClose
  <2> QED BY <1>8, <2>1 DEF SendClose, TypeOK
<1>9. ASSUME NEW b \in Buffers, Release(b) PROVE TypeOK'
  <2>1. inbox' \in Seq(Events)
    BY <1>1, <1>9, EventTypes, SentOne DEF Release
  <2> QED BY <1>9, <2>1 DEF Release, TypeOK
<1>10. CASE FrameDue
  <2>1. inbox' \in Seq(Events)
    BY <1>1, <1>10, EventTypes, SentOne DEF FrameDue
  <2> QED BY <1>10, <2>1 DEF FrameDue, TypeOK
<1>11. CASE FinishFrame
  <2>1. Head(rendering) \in Buffers /\ Tail(rendering) \in Seq(Buffers)
    BY <1>11, HeadTailProperties DEF FinishFrame, TypeOK
  <2> QED BY <1>11, <2>1 DEF FinishFrame, TypeOK
<1>12. CASE Fini
  BY <1>12 DEF Fini, TypeOK, None
<1>13. CASE Terminated \/ UNCHANGED vars
  BY <1>13 DEF Terminated, vars, TypeOK
<1> QED BY <1>2, <1>3, <1>4, <1>5, <1>6, <1>7, <1>8, <1>9, <1>10, <1>11, <1>12, <1>13
        DEF Next, Client, Compositor

------------------------------------------------------------------------------
(* One frame loop *)

\* Where there is at most one event of a kind, dispatching takes it or moves it up.
LEMMA LoneEvent ==
  ASSUME inbox \in Seq(Events), NEW kind, Dispatch(kind), NEW k
  PROVE  /\ Pending(k) = {} => Pending(k)' = {}
         /\ \A i \in Pending(k) : Pending(k) = {i} =>
              IF k = kind THEN Pending(k)' = {}
              ELSE \E j \in Pending(k)' : Pending(k)' = {j}
<1>1. /\ Pending(k)' = {j \in 1 .. Len(inbox') : j + 1 \in Pending(k)}
      /\ 1 \in Pending(k) <=> k = kind
      /\ Len(inbox) \in Nat /\ Len(inbox') = Len(inbox) - 1
  BY Taken
<1>2. ASSUME Pending(k) = {} PROVE Pending(k)' = {}
  BY <1>1, <1>2
<1>3. ASSUME NEW i \in Pending(k), Pending(k) = {i}
      PROVE  IF k = kind THEN Pending(k)' = {}
             ELSE \E j \in Pending(k)' : Pending(k)' = {j}
  <2>1. i \in 1 .. Len(inbox)
    BY DEF Pending
  <2>2. CASE k = kind
    BY <1>1, <1>3, <2>1, <2>2
  <2>3. CASE k # kind
    <3>1. i # 1
      BY <1>1, <2>3, <1>3
    <3>2. i - 1 \in 1 .. Len(inbox') /\ (i - 1) + 1 = i
      BY <1>1, <2>1, <3>1
    <3>3. Pending(k)' = {i - 1}
      <4>1. i - 1 \in Pending(k)'
        BY <1>1, <3>2
      <4>2. ASSUME NEW j \in Pending(k)' PROVE j = i - 1
        BY <1>1, <1>3, <2>1, <4>2
      <4> QED BY <4>1, <4>2
    <3> QED BY <2>3, <3>3
  <2> QED BY <2>2, <2>3
<1> QED BY <1>2, <1>3

\* Dispatching another event leaves the frame loop's callback where it is.
LEMMA CallbackStays ==
  ASSUME TypeOK, Callbacks, NEW kind, kind # "frame", Dispatch(kind),
         UNCHANGED <<animating, scheduled, armed>>
  PROVE  Callbacks'
<1>1. inbox \in Seq(Events)
  BY DEF TypeOK
<1>2. Pending("frame") = {} => Pending("frame")' = {}
  BY <1>1, LoneEvent
<1>3. ASSUME NEW i \in Pending("frame"), Pending("frame") = {i}
      PROVE  \E j \in Pending("frame")' : Pending("frame")' = {j}
  BY <1>1, <1>3, LoneEvent
<1> QED BY <1>2, <1>3 DEF Callbacks

\* A configure starts the loop at most once, a frame moves the callback on.
LEMMA CallbacksStep ==
  ASSUME RingInv, [Next]_vars
  PROVE  Callbacks'
<1> USE DEF RingInv, fixedVars, appVars, ringVars, surfVars, syncVars
<1>1. inbox \in Seq(Events)
  BY DEF TypeOK
<1>2. ASSUME UNCHANGED <<animating, scheduled, armed>>, Pending("frame")' = Pending("frame")
      PROVE  Callbacks'
  BY <1>2 DEF Callbacks
<1>3. CASE OnToplevelConfigure
  BY <1>3, CallbackStays DEF OnToplevelConfigure
<1>4. CASE OnXdgSurfaceConfigure
  <2>1. Dispatch("xdg") /\ animating' = TRUE
    BY <1>4, Configured
  <2>2. scheduled' + armed' = FirstSchedule + armed
    <3>1. CASE scheduled' = FirstSchedule /\ armed' = armed
      BY <3>1 DEF TypeOK, FirstSchedule
    <3>2. ASSUME NEW b \in Buffers, Commit(b, FirstSchedule) PROVE scheduled' + armed' = FirstSchedule + armed
      <4>1. armed' = armed + FirstSchedule /\ scheduled' = 0
        BY <3>2, Committed
      <4>2. FirstSchedule \in Nat /\ armed \in Nat
        BY DEF FirstSchedule, TypeOK
      <4> QED BY <4>1, <4>2
    <3>3. CASE bufSize = pending /\ Redraw(buffer, busy, FirstSchedule)
      <4>1. \A i \in Slots : buffer[i] \in Buffers
        BY <3>3, FreeIsBuffer DEF TypeOK, None
      <4> QED BY <3>1, <3>2, <3>3, <4>1, Drawing
    <3>4. ASSUME NewRing, NEW i \in Slots, Commit(buffer'[i], FirstSchedule)
          PROVE  scheduled' + armed' = FirstSchedule + armed
      BY <3>2, <3>4 DEF NewRing
    <3> QED BY <1>4, <3>3, <3>4, Configured
  <2>3. scheduled' \in Nat /\ armed' \in Nat
    BY TypeStep DEF TypeOK
  <2>4. CASE animating
    <3>1. Pending("frame") = {} => Pending("frame")' = {}
      BY <1>1, <2>1, LoneEvent
    <3>2. ASSUME NEW i \in Pending("frame"), Pending("frame") = {i}
          PROVE  \E j \in Pending("frame")' : Pending("frame")' = {j}
      BY <1>1, <2>1, <3>2, LoneEvent
    <3>3. FirstSchedule = scheduled /\ scheduled \in Nat /\ armed \in Nat
      BY <2>4 DEF FirstSchedule, TypeOK
    <3>4. CASE scheduled + armed = 1 /\ Pending("frame") = {}
      <4>1. scheduled' + armed' = 1 /\ Pending("frame")' = {}
        BY <2>2, <3>1, <3>3, <3>4
      <4> QED BY <2>1, <4>1 DEF Callbacks
    <3>5. CASE scheduled = 0 /\ armed = 0 /\ \E i \in Pending("frame") : Pending("frame") = {i}
      <4>1. scheduled' = 0 /\ armed' = 0
        <5>1. scheduled = 0 /\ armed = 0
          BY <3>5
        <5>2. scheduled' + armed' = 0
          BY <2>2, <3>3, <5>1
        <5>3. \A m, n \in Nat : m + n = 0 => m = 0 /\ n = 0
          OBVIOUS
        <5> QED BY <2>3, <5>2, <5>3
      <4> QED BY <2>1, <3>2, <3>5, <4>1 DEF Callbacks
    <3> QED BY <2>4, <3>4, <3>5 DEF Callbacks
  <2>5. CASE ~animating
    <3>1. Pending("frame")' = {}
      BY <1>1, <2>1, <2>5, LoneEvent DEF Callbacks
    <3>2. FirstSchedule = 1 /\ armed = 0
      BY <2>5 DEF FirstSchedule, Callbacks
    <3>3. scheduled' + armed' = 1
      BY <2>2, <3>2
    <3> QED BY <2>1, <3>1, <3>3 DEF Callbacks
  <2> QED BY <2>4, <2>5
<1>5. CASE OnFrameDone
  <2>1. Dispatch("frame") /\ animating' = animating /\ Redraw(buffer, busy, NextSchedule)
    BY <1>5 DEF OnFrameDone
  <2>2. animating /\ bufSize # None
    BY <2>1, FrameMeansRing
  <2>3. 1 \in Pending("frame")
    BY <1>1, <2>1, Taken
  <2>4. scheduled = 0 /\ armed = 0 /\ \E i \in Pending("frame") : Pending("frame") = {i}
    BY <2>2, <2>3 DEF Callbacks
  <2>5. Pending("frame")' = {}
    BY <1>1, <2>1, <2>4, LoneEvent
  <2>6. scheduled' + armed' = 1
    <3>1. CASE scheduled' = NextSchedule /\ armed' = armed
      BY <2>4, <3>1 DEF NextSchedule
    <3>2. ASSUME NEW i \in Slots, Commit(buffer[i], NextSchedule) PROVE scheduled' + armed' = 1
      <4>1. buffer[i] \in Buffers
        BY <2>2, FreeIsBuffer
      <4>2. armed' = armed + NextSchedule /\ scheduled' = 0
        BY <3>2, <4>1, Committed
      <4> QED BY <2>4, <4>2 DEF NextSchedule
    <3> QED BY <2>1, <3>1, <3>2, Drawing
  <2> QED BY <2>1, <2>2, <2>5, <2>6 DEF Callbacks
<1>6. CASE OnBufferRelease
  BY <1>6, CallbackStays DEF OnBufferRelease
<1>7. CASE OnToplevelClose
  BY <1>7, CallbackStays DEF OnToplevelClose
<1>8. ASSUME NEW s \in Sizes, SendConfigure(s) PROVE Callbacks'
  <2>1. Event("toplevel", s) \in Events
    BY RingAssumption, EventTypes
  <2>2. Pending("frame")' = Pending("frame")
    BY <1>1, <1>8, <2>1, EventTypes, SentTwo DEF SendConfigure
  <2> QED BY <1>2, <1>8, <2>2 DEF SendConfigure
<1>9. CASE SendClose
  <2>1. Pending("frame")' = Pending("frame")
    BY <1>1, <1>9, EventTypes, SentOne DEF SendClose
  <2> QED BY <1>2, <1>9, <2>1 DEF SendClose
<1>10. ASSUME NEW b \in Buffers, Release(b) PROVE Callbacks'
  <2>1. Pending("frame")' = Pending("frame")
    <3>1. CASE Send(<<Event("release", b)>>)
      BY <1>1, <3>1, EventTypes, SentOne
    <3>2. CASE UNCHANGED inbox
      BY <3>2 DEF Pending
    <3> QED BY <1>10, <3>1, <3>2 DEF Release
  <2> QED BY <1>2, <1>10, <2>1 DEF Release
<1>11. CASE FrameDue
  <2>1. /\ Pending("frame")' = Pending("frame") \cup {Len(inbox) + 1}
    BY <1>1, <1>11, EventTypes, SentOne DEF FrameDue
  <2>2. armed > 0 /\ armed' = armed - 1 /\ UNCHANGED <<animating, scheduled>>
    BY <1>11 DEF FrameDue
  <2>3. armed = 1 /\ scheduled = 0 /\ animating /\ Pending("frame") = {}
    BY <2>2 DEF Callbacks, TypeOK
  <2>4. Pending("frame")' = {Len(inbox) + 1}
    BY <2>1, <2>3
  <2> QED BY <2>2, <2>3, <2>4 DEF Callbacks
<1>12. CASE FinishFrame \/ Fini \/ Terminated \/ UNCHANGED vars
  <2>1. UNCHANGED <<animating, scheduled, armed, inbox>>
    BY <1>12 DEF FinishFrame, Fini, Terminated, vars
  <2> QED BY <1>2, <2>1 DEF Pending
<1> QED BY <1>3, <1>4, <1>5, <1>6, <1>7, <1>8, <1>9, <1>10, <1>11, <1>12
        DEF Next, Client, Compositor

------------------------------------------------------------------------------
(* The ring has the size acknowledged *)

\* A redraw without a resize shows what it showed, or the buffer of another slot.
LEMMA SlottedRedrawn ==
  ASSUME TypeOK, Slotted, NEW sched, Redraw(buffer, busy, sched), bufSize # None,
         UNCHANGED <<size, bufSize, buffer, sizeOf, running>>, animating' = TRUE
  PROVE  Slotted'
<1>1. current' = current \/ \E i \in Slots : current' = buffer[i]
  BY Drawing DEF Commit
<1>2. current' \in Buffers /\ InSlot(current')
  BY <1>1, FreeIsBuffer DEF Slotted
<1>3. InSlot(current)'
  BY <1>2 DEF InSlot
<1> QED BY <1>2, <1>3 DEF Slotted

\* So does the ring after every step: its buffers have the size last acknowledged,
\* and the window's content is one of them.
LEMMA SlottedStep ==
  ASSUME RingInv, [Next]_vars
  PROVE  Slotted'
<1> USE DEF RingInv, fixedVars, appVars, ringVars, surfVars, syncVars
<1>1. ASSUME UNCHANGED <<size, animating, running, bufSize, buffer, busy, sizeOf, current>>
      PROVE  Slotted'
  BY <1>1 DEF Slotted, InSlot
<1>2. CASE OnToplevelConfigure
  BY <1>1, <1>2 DEF OnToplevelConfigure
<1>3. CASE OnXdgSurfaceConfigure
  <2>1. /\ size' = pending /\ bufSize' = pending /\ animating' = TRUE
        /\ UNCHANGED running /\ running # "gone" /\ pending # None
    BY <1>3, Configured DEF TypeOK, None
  <2>2. CASE bufSize = pending /\ UNCHANGED <<buffer, sizeOf>>
             /\ Redraw(buffer, busy, FirstSchedule)
    <3>1. bufSize # None /\ bufSize = size
      BY <2>1, <2>2 DEF Slotted
    <3>2. UNCHANGED <<size, bufSize, buffer, sizeOf, running>>
      BY <2>1, <2>2, <3>1
    <3> QED BY <2>1, <2>2, <3>1, <3>2, SlottedRedrawn
  <2>3. ASSUME NewRing, NEW i \in Slots, Commit(buffer'[i], FirstSchedule) PROVE Slotted'
    <3>1. \A j \in Slots : buffer'[j] \in Buffers /\ SlotOf(buffer'[j]) = j
      BY <2>3 DEF NewRing
    <3>2. \A b \in Buffers, j \in Slots : buffer'[j] = b => InSlot(b)'
      BY <3>1 DEF InSlot
    <3>3. \A b \in Buffers, j \in Slots : buffer'[j] = b => sizeOf'[b] = size'
      BY <2>3, <3>2 DEF NewRing
    <3>4. current' = buffer'[i]
      BY <2>3 DEF Commit
    <3>5. current' \in Buffers /\ InSlot(current)'
      BY <3>1, <3>2, <3>4
    <3> QED BY <2>1, <3>1, <3>3, <3>5 DEF Slotted
  <2> QED BY <1>3, <2>2, <2>3, Configured
<1>4. CASE OnFrameDone
  <2>1. bufSize # None /\ animating /\ Redraw(buffer, busy, NextSchedule)
        /\ UNCHANGED <<appVars, buffer, bufSize, sizeOf>>
    BY <1>4, FrameMeansRing DEF OnFrameDone
  <2> QED BY <2>1, SlottedRedrawn
<1>5. CASE OnBufferRelease
  <2> DEFINE b == Head(inbox).arg
  <2>1. b \in Buffers
    BY <1>5, Taken, EventTypes DEF OnBufferRelease, TypeOK
  <2>2. UNCHANGED <<size, animating, running, bufSize, buffer, current>>
    BY <1>5 DEF OnBufferRelease
  <2>3. \A c \in Buffers : sizeOf'[c] = sizeOf[c] \/ (c = b /\ ~InSlot(b))
    BY <1>5 DEF OnBufferRelease, HandBack, InSlot, TypeOK
  <2>4. \A i \in Slots : bufSize # None => sizeOf'[buffer[i]] = sizeOf[buffer[i]]
    BY <2>3, FreeIsBuffer
  <2>5. \A i \in Slots : ~busy[i] => ~busy'[i]
    BY <1>5 DEF OnBufferRelease, HandBack, TypeOK
  <2> QED BY <2>2, <2>4, <2>5 DEF Slotted, InSlot
<1>6. CASE OnToplevelClose
  <2>1. UNCHANGED <<size, animating, bufSize, buffer, busy, sizeOf, current>> /\ running # "gone"
    BY <1>6 DEF OnToplevelClose, Dispatch
  <2> QED BY <2>1 DEF Slotted, InSlot
<1>7. CASE Compositor \/ FinishFrame \/ Terminated \/ UNCHANGED vars
  BY <1>1, <1>7 DEF Compositor, SendConfigure, SendClose, Release, FrameDue, FinishFrame, Terminated, vars
<1>8. CASE Fini
  <2>1. UNCHANGED <<size, animating, bufSize, buffer, busy, current>> /\ running' = "gone"
    BY <1>8 DEF Fini
  <2> QED BY <2>1 DEF Slotted, InSlot
<1> QED BY <1>2, <1>3, <1>4, <1>5, <1>6, <1>7, <1>8 DEF Next, Client

------------------------------------------------------------------------------
(* The loans *)

\* Taking an event off the wire leaves no release twice, and takes its only one.
LEMMA UniqueTaken ==
  ASSUME inbox \in Seq(Events), UniqueReleases, NEW kind, Dispatch(kind)
  PROVE  /\ UniqueReleases'
         /\ \A b : kind = "release" /\ Head(inbox).arg = b => ~ReleaseSent(b)'
<1>1. /\ Pending("release")' = {j \in 1 .. Len(inbox') : j + 1 \in Pending("release")}
      /\ \A j \in 1 .. Len(inbox') : inbox'[j] = inbox[j + 1]
      /\ Len(inbox') \in Nat /\ inbox[1] = Head(inbox)
      /\ kind = "release" => 1 \in Pending("release")
  BY Taken
<1>2. ASSUME NEW j \in Pending("release")', NEW k \in Pending("release")', inbox'[j].arg = inbox'[k].arg
      PROVE  j = k
  <2>1. /\ j + 1 \in Pending("release") /\ k + 1 \in Pending("release")
        /\ inbox'[j] = inbox[j + 1] /\ inbox'[k] = inbox[k + 1]
        /\ j \in Nat /\ k \in Nat
    BY <1>1
  <2>2. j + 1 = k + 1
    BY <1>2, <2>1 DEF UniqueReleases
  <2> QED BY <2>1, <2>2
<1>3. ASSUME kind = "release", NEW j \in Pending("release")', inbox'[j].arg = Head(inbox).arg
      PROVE  FALSE
  <2>1. /\ j + 1 \in Pending("release") /\ inbox'[j] = inbox[j + 1] /\ j \in 1 .. Len(inbox')
        /\ 1 \in Pending("release")
    BY <1>1, <1>3
  <2>2. j + 1 = 1
    BY <1>1, <1>3, <2>1 DEF UniqueReleases
  <2> QED BY <1>1, <2>1, <2>2
<1> QED BY <1>2, <1>3 DEF UniqueReleases, ReleaseSent

\* Without a resize, the slot that a redraw finds free goes on loan.
LEMMA LoansRedrawn ==
  ASSUME TypeOK, Slotted, Loans, Points, bufSize # None, running # "gone",
         NEW sched, Redraw(buffer, busy, sched),
         UNCHANGED <<mode, buffer, sizeOf, running>>,
         UniqueReleases', \A b : ReleaseSent(b)' <=> ReleaseSent(b)
  PROVE  Loans'
<1>1. CASE busy' = busy /\ UNCHANGED <<held, syncVars>>
  BY <1>1 DEF Loans, InSlot, Alive, syncVars
<1>2. ASSUME NEW i \in Slots, IsFree(buffer, busy, i),
             busy' = [busy EXCEPT ![i] = TRUE], Commit(buffer[i], sched)
      PROVE  Loans'
  <2> DEFINE b == buffer[i]
  <2>1. b \in Buffers /\ SlotOf(b) = i /\ InSlot(b) /\ Alive(b)
    BY FreeIsBuffer, InSlotAlive
  <2>2. held' = held \cup {b}
    BY <1>2, <2>1, Committed
  <2>3. returned' \subseteq returned \ {b}
        /\ \A c \in Buffers : InSlot(c) /\ c \in returned /\ c # b => c \in returned'
    <3>1. CASE mode = "explicit"
      <4>1. returned' = OfSlots(returned \ {b})
        BY <1>2, <2>1, <3>1, Committed
      <4> QED BY <4>1 DEF OfSlots, InSlot
    <3>2. CASE mode # "explicit"
      <4>1. returned = {} /\ returned' = returned
        BY <1>2, <2>1, <3>2, Committed DEF Points, TypeOK, AllModes, syncVars
      <4> QED BY <4>1
    <3> QED BY <3>1, <3>2
  <2>4. mode = "listener" => ~ReleaseSent(b)
    <3>1. mode = "listener" => ~busy[i]
      BY <1>2 DEF IsFree
    <3> QED BY <2>1, <3>1 DEF Loans
  <2>5. ASSUME NEW c \in Buffers
        PROVE  /\ InSlot(c)' => (busy'[SlotOf(c)] <=> c \in held' \/ ReleaseSent(c)' \/ c \in returned')
               /\ mode = "listener" /\ c \in held' => ~ReleaseSent(c)'
               /\ mode = "listener" /\ (c \in held' \/ ReleaseSent(c)') => Alive(c)'
               /\ Alive(c)' => InSlot(c)' \/ (mode = "listener" /\ (c \in held' \/ ReleaseSent(c)'))
    <3>1. (InSlot(c)' <=> InSlot(c)) /\ (Alive(c)' <=> Alive(c)) /\ (ReleaseSent(c)' <=> ReleaseSent(c))
      BY DEF InSlot, Alive
    <3>2. CASE c = b
      <4>1. busy'[SlotOf(c)] = TRUE
        BY <1>2, <2>1, <3>2 DEF TypeOK
      <4> QED BY <2>1, <2>2, <2>4, <3>1, <3>2, <4>1
    <3>3. CASE c # b
      <4>1. InSlot(c) => SlotOf(c) # i /\ SlotOf(c) \in Slots
        BY <3>3, BufferParts DEF InSlot
      <4>2. InSlot(c) => busy'[SlotOf(c)] = busy[SlotOf(c)]
        BY <1>2, <4>1 DEF TypeOK
      <4>3. c \in held' <=> c \in held
        BY <2>2, <3>3
      <4>4. InSlot(c) => (c \in returned' <=> c \in returned)
        BY <2>3, <3>3
      <4> HIDE DEF b
      <4> QED BY <3>1, <4>2, <4>3, <4>4 DEF Loans
    <3> QED BY <3>2, <3>3
  <2>6. \A c \in returned' : c \notin held'
    BY <2>2, <2>3 DEF Loans
  <2>7. mode = "explicit" => \A c \in Buffers : ~ReleaseSent(c)'
    BY DEF Loans
  <2> QED BY <2>5, <2>6, <2>7 DEF Loans
<1> QED BY <1>1, <1>2, Drawing

\* A resize takes every slot; what was on loan is an orphan from then on.
LEMMA LoansResized ==
  ASSUME TypeOK, Slotted, Loans, Points, running # "gone", NewRing, size' # None,
         NEW i \in Slots, busy' = [j \in Slots |-> j = i],
         NEW sched, Commit(buffer'[i], sched),
         UNCHANGED <<mode, running>>,
         UniqueReleases', \A c : ReleaseSent(c)' <=> ReleaseSent(c)
  PROVE  Loans'
<1>1. PICK b \in Buffers : buffer'[i] = b
  BY DEF NewRing
<1>2. /\ SlotOf(b) = i /\ ~Alive(b) /\ b \notin held /\ ~ReleaseSent(b)
      /\ held' = held \cup {b}
  <2>1. Commit(b, sched)
    BY <1>1
  <2> QED BY <1>1, <2>1, Committed DEF NewRing
<1>3. returned' \subseteq returned \ {b} /\ \A c \in returned' : InSlot(c)'
  <2>1. Commit(b, sched)
    BY <1>1
  <2>2. CASE mode = "explicit"
    <3>1. returned' = OfSlots(returned \ {b})
      BY <2>1, <2>2, Committed
    <3> QED BY <3>1 DEF OfSlots, InSlot
  <2>3. CASE mode # "explicit"
    <3>1. returned = {} /\ returned' = returned
      BY <2>1, <2>3, Committed DEF Points, TypeOK, AllModes, syncVars
    <3> QED BY <3>1
  <2> QED BY <2>2, <2>3
<1>4. ASSUME NEW c \in Buffers, InSlot(c)'
      PROVE  /\ ~Alive(c) /\ ~InSlot(c) /\ c \notin held /\ ~ReleaseSent(c) /\ c \notin returned
             /\ SlotOf(c) = i <=> c = b
             /\ SlotOf(c) \in Slots
             /\ sizeOf'[c] = size'
  <2>1. SlotOf(c) \in Slots /\ buffer'[SlotOf(c)] = c
    BY <1>4, BufferParts DEF InSlot
  <2>2. ~Alive(c) /\ c \notin held /\ ~ReleaseSent(c)
    BY <2>1 DEF NewRing
  <2>3. ~InSlot(c)
    BY <2>2, InSlotAlive
  <2>4. c \notin returned
    BY <2>3 DEF Points
  <2> QED BY <1>1, <1>2, <1>4, <2>1, <2>2, <2>3, <2>4 DEF NewRing
<1>5. ASSUME NEW c \in Buffers
      PROVE  /\ InSlot(c)' => (busy'[SlotOf(c)] <=> c \in held' \/ ReleaseSent(c)' \/ c \in returned')
             /\ mode = "listener" /\ c \in held' => ~ReleaseSent(c)'
             /\ mode = "listener" /\ (c \in held' \/ ReleaseSent(c)') => Alive(c)'
             /\ Alive(c)' => InSlot(c)' \/ (mode = "listener" /\ (c \in held' \/ ReleaseSent(c)'))
  <2>1. CASE InSlot(c)'
    <3>1. busy'[SlotOf(c)] <=> c = b
      BY <1>4, <2>1
    <3>2. c \notin returned'
      BY <1>3, <1>4, <2>1
    <3>3. Alive(c)'
      BY <1>4, <2>1 DEF Alive
    <3>4. ~ReleaseSent(c)'
      BY <1>4, <2>1
    <3>5. c \in held' <=> c = b
      BY <1>2, <1>4, <2>1
    <3> QED BY <2>1, <3>1, <3>2, <3>3, <3>4, <3>5
  <2>2. CASE ~InSlot(c)'
    <3>1. c # b
      BY <1>1, <1>2, <2>2 DEF InSlot
    <3>2. c \in held' <=> c \in held
      BY <1>2, <3>1
    <3>3. /\ Alive(c)' => Alive(c)
          /\ Alive(c)' => ~(InSlot(c) /\ (~busy[SlotOf(c)] \/ mode = "explicit"))
          /\ Alive(c) /\ ~(InSlot(c) /\ (~busy[SlotOf(c)] \/ mode = "explicit")) => Alive(c)'
      BY <2>2 DEF NewRing, Alive
    <3>4. mode = "listener" => c \notin returned
      BY DEF Points
    <3>5. mode \in {"listener", "explicit"}
      BY DEF TypeOK, AllModes
    <3> QED BY <2>2, <3>2, <3>3, <3>4, <3>5 DEF Loans
  <2> QED BY <2>1, <2>2
<1>6. \A c \in returned' : c \notin held'
  BY <1>2, <1>3 DEF Loans
<1>7. mode = "explicit" => \A c \in Buffers : ~ReleaseSent(c)'
  BY DEF Loans
<1> QED BY <1>5, <1>6, <1>7 DEF Loans

\* A release frees the slot its buffer is in, or destroys the orphan it is for.
LEMMA LoansHandedBack ==
  ASSUME TypeOK, Slotted, Loans, Points, OnBufferRelease
  PROVE  Loans'
<1>1. /\ Dispatch("release") /\ HandBack(Head(inbox).arg) /\ running # "gone" /\ inbox \in Seq(Events)
      /\ UNCHANGED <<mode, running, buffer, held, returned>>
  BY DEF OnBufferRelease, Dispatch, TypeOK, fixedVars, appVars, surfVars, syncVars
<1>2. PICK b \in Buffers : b = Head(inbox).arg
  BY <1>1, Taken, EventTypes
<1>3. /\ UniqueReleases' /\ ~ReleaseSent(b)'
      /\ \A c : ReleaseSent(c) <=> ReleaseSent(c)' \/ c = b
  BY <1>1, <1>2, UniqueTaken, Taken DEF Loans
<1>4. mode = "listener" /\ returned = {} /\ b \notin held
  <2>1. mode = "listener"
    BY <1>3 DEF Loans, TypeOK, AllModes
  <2> QED BY <1>1, <1>3, <2>1 DEF Loans, Points
<1>5. ASSUME NEW c \in Buffers
      PROVE  /\ InSlot(c)' => (busy'[SlotOf(c)] <=> c \in held' \/ ReleaseSent(c)' \/ c \in returned')
             /\ mode = "listener" /\ c \in held' => ~ReleaseSent(c)'
             /\ mode = "listener" /\ (c \in held' \/ ReleaseSent(c)') => Alive(c)'
             /\ Alive(c)' => InSlot(c)' \/ (mode = "listener" /\ (c \in held' \/ ReleaseSent(c)'))
  <2>1. InSlot(c)' <=> InSlot(c)
    BY <1>1 DEF InSlot
  <2>2. SlotOf(c) \in Slots /\ SlotOf(b) \in Slots
    BY BufferParts
  <2>3. CASE InSlot(b)
    <3>1. busy' = [busy EXCEPT ![SlotOf(b)] = FALSE] /\ sizeOf' = sizeOf
      BY <1>1, <1>2, <2>3 DEF HandBack, InSlot
    <3>2. InSlot(c) => busy'[SlotOf(c)] = (busy[SlotOf(c)] /\ c # b)
      BY <2>2, <2>3, <3>1 DEF InSlot, TypeOK
    <3>3. Alive(c)' <=> Alive(c)
      BY <3>1 DEF Alive
    <3> QED BY <1>1, <1>3, <1>4, <2>1, <2>3, <3>2, <3>3 DEF Loans
  <2>4. CASE ~InSlot(b)
    <3>1. sizeOf' = [sizeOf EXCEPT ![b] = None] /\ busy' = busy
      BY <1>1, <1>2, <2>4 DEF HandBack, InSlot
    <3>2. Alive(c)' <=> Alive(c) /\ c # b
      BY <3>1 DEF Alive, TypeOK
    <3> QED BY <1>1, <1>3, <1>4, <2>1, <2>4, <3>1, <3>2 DEF Loans
  <2> QED BY <2>3, <2>4
<1> QED BY <1>1, <1>3, <1>4, <1>5 DEF Loans

\* The compositor's release moves the loan to the wire, or to the release point.
LEMMA LoansReleased ==
  ASSUME TypeOK, Slotted, Loans, Points, running # "gone", NEW b \in Buffers, Release(b)
  PROVE  Loans'
<1>1. /\ b \in held /\ held' = held \ {b}
      /\ UNCHANGED <<mode, running, buffer, busy, sizeOf>>
      /\ inbox \in Seq(Events)
  BY DEF Release, TypeOK, fixedVars, appVars, ringVars
<1>2. \A c \in Buffers : /\ (InSlot(c)' <=> InSlot(c)) /\ (Alive(c)' <=> Alive(c))
                         /\ c \in held' <=> c \in held /\ c # b
  BY <1>1 DEF InSlot, Alive
<1>3. CASE mode = "listener"
  <2>1. /\ Send(<<Event("release", b)>>) /\ returned' = returned /\ returned = {}
        /\ ~ReleaseSent(b)
    BY <1>1, <1>3 DEF Release, Loans, Points
  <2>2. /\ \A c : ReleaseSent(c)' <=> ReleaseSent(c) \/ c = b
        /\ Pending("release")' = Pending("release") \cup {Len(inbox) + 1}
        /\ \A j \in 1 .. Len(inbox) : inbox'[j] = inbox[j]
        /\ inbox'[Len(inbox) + 1].arg = b
    BY <1>1, <2>1, EventTypes, SentOne
  <2>3. UniqueReleases'
    <3>1. \A j \in Pending("release") : j \in 1 .. Len(inbox) /\ inbox'[j] = inbox[j] /\ inbox[j].arg # b
      BY <2>1, <2>2 DEF ReleaseSent, Pending
    <3>2. ASSUME NEW j \in Pending("release")', NEW k \in Pending("release")', inbox'[j].arg = inbox'[k].arg
          PROVE  j = k
      BY <2>2, <3>1, <3>2 DEF Loans, UniqueReleases
    <3> QED BY <3>2 DEF UniqueReleases
  <2> QED BY <1>1, <1>2, <1>3, <2>1, <2>2, <2>3 DEF Loans
<1>4. CASE mode = "explicit"
  <2>1. /\ inbox' = inbox
        /\ returned' = IF InSlot(b) THEN returned \cup {b} ELSE returned
    BY <1>4 DEF Release
  <2>2. UniqueReleases' /\ \A c : ReleaseSent(c)' <=> ReleaseSent(c)
    BY <2>1 DEF Loans, UniqueReleases, ReleaseSent, Pending
  <2> QED BY <1>1, <1>2, <1>4, <2>1, <2>2 DEF Loans
<1> QED BY <1>3, <1>4 DEF TypeOK, AllModes

\* Steps that do not touch the loans, nor the releases on the wire.
LEMMA LoansStay ==
  ASSUME Loans, running' = running \/ running' = "gone",
         UNCHANGED <<mode, buffer, busy, held, returned>>,
         running' = "gone" \/ sizeOf' = sizeOf,
         UniqueReleases', \A b : ReleaseSent(b)' <=> ReleaseSent(b)
  PROVE  Loans'
<1>1. \A c \in Buffers : InSlot(c)' <=> InSlot(c)
  BY DEF InSlot
<1>2. CASE running' = "gone"
  BY <1>2 DEF Loans
<1>3. CASE running' = running /\ sizeOf' = sizeOf
  <2>1. \A c \in Buffers : Alive(c)' <=> Alive(c)
    BY <1>3 DEF Alive
  <2> QED BY <1>1, <1>3, <2>1 DEF Loans
<1> QED BY <1>2, <1>3

\* Every loan ends exactly once, whatever comes between.
LEMMA LoansStep ==
  ASSUME RingInv, [Next]_vars
  PROVE  Loans'
<1> USE DEF RingInv
<1>1. inbox \in Seq(Events) /\ UniqueReleases
  BY DEF TypeOK, Loans
<1>2. ASSUME NEW kind, kind # "release", Dispatch(kind)
      PROVE  UniqueReleases' /\ \A b : ReleaseSent(b)' <=> ReleaseSent(b)
  BY <1>1, <1>2, UniqueTaken, Taken
<1>3. ASSUME NEW e \in Events, Send(<<e>>), e.kind # "release"
      PROVE  UniqueReleases' /\ \A b : ReleaseSent(b)' <=> ReleaseSent(b)
  <2>1. /\ \A b : ReleaseSent(b)' <=> ReleaseSent(b)
        /\ Pending("release")' = Pending("release")
        /\ \A j \in 1 .. Len(inbox) : inbox'[j] = inbox[j]
    BY <1>1, <1>3, SentOne
  <2>2. \A j \in Pending("release") : inbox'[j] = inbox[j]
    BY <2>1 DEF Pending
  <2> QED BY <1>1, <2>1, <2>2 DEF UniqueReleases
<1>4. CASE OnToplevelConfigure
  <2>1. Dispatch("toplevel") /\ UNCHANGED <<mode, running, buffer, busy, sizeOf, held, returned>>
    BY <1>4 DEF OnToplevelConfigure, Dispatch, fixedVars, ringVars, surfVars, syncVars
  <2> QED BY <1>2, <2>1, LoansStay
<1>5. CASE OnXdgSurfaceConfigure
  <2>1. /\ Dispatch("xdg") /\ running # "gone" /\ UNCHANGED <<mode, running>>
        /\ size' = pending /\ bufSize' = pending /\ pending # None
    BY <1>5, Configured DEF TypeOK, None, fixedVars
  <2>2. UniqueReleases' /\ \A b : ReleaseSent(b)' <=> ReleaseSent(b)
    BY <1>2, <2>1
  <2>3. CASE bufSize = pending /\ UNCHANGED <<buffer, sizeOf>>
             /\ Redraw(buffer, busy, FirstSchedule)
    <3>1. bufSize # None
      BY <2>1, <2>3
    <3> QED BY <2>1, <2>2, <2>3, <3>1, LoansRedrawn
  <2>4. ASSUME NewRing, NEW i \in Slots, busy' = [j \in Slots |-> j = i],
               Commit(buffer'[i], FirstSchedule)
        PROVE  Loans'
    BY <2>1, <2>2, <2>4, LoansResized
  <2> QED BY <1>5, <2>3, <2>4, Configured
<1>6. CASE OnFrameDone
  <2>1. /\ Dispatch("frame") /\ running # "gone" /\ bufSize # None
        /\ Redraw(buffer, busy, NextSchedule)
        /\ UNCHANGED <<mode, buffer, sizeOf, running>>
    BY <1>6, FrameMeansRing DEF OnFrameDone, Dispatch, fixedVars, appVars
  <2>2. UniqueReleases' /\ \A b : ReleaseSent(b)' <=> ReleaseSent(b)
    BY <1>2, <2>1
  <2> QED BY <2>1, <2>2, LoansRedrawn
<1>7. CASE OnBufferRelease
  BY <1>7, LoansHandedBack
<1>8. CASE OnToplevelClose
  <2>1. /\ Dispatch("close") /\ running # "gone" /\ running' # "gone"
        /\ UNCHANGED <<mode, buffer, busy, sizeOf, held, returned>>
    BY <1>8 DEF OnToplevelClose, Dispatch, fixedVars, ringVars, surfVars, syncVars
  <2>2. UniqueReleases' /\ \A b : ReleaseSent(b)' <=> ReleaseSent(b)
    BY <1>2, <2>1
  <2>3. \A c \in Buffers : (InSlot(c)' <=> InSlot(c)) /\ (Alive(c)' <=> Alive(c))
    BY <2>1 DEF InSlot, Alive
  <2> QED BY <2>1, <2>2, <2>3 DEF Loans
<1>9. ASSUME NEW s \in Sizes, SendConfigure(s) PROVE Loans'
  <2>1. /\ Send(<<Event("toplevel", s), Event("xdg", 0)>>)
        /\ UNCHANGED <<mode, running, buffer, busy, sizeOf, held, returned>>
    BY <1>9 DEF SendConfigure, fixedVars, appVars, ringVars, surfVars, syncVars
  <2>2. Event("toplevel", s) \in Events
    BY RingAssumption, EventTypes
  <2>3. /\ \A b : ReleaseSent(b)' <=> ReleaseSent(b)
        /\ Pending("release")' = Pending("release")
        /\ \A j \in 1 .. Len(inbox) : inbox'[j] = inbox[j]
    BY <1>1, <2>1, <2>2, EventTypes, SentTwo
  <2>4. \A j \in Pending("release") : inbox'[j] = inbox[j]
    BY <2>3 DEF Pending
  <2>5. UniqueReleases'
    BY <1>1, <2>3, <2>4 DEF UniqueReleases
  <2> QED BY <2>1, <2>3, <2>5, LoansStay
<1>10. CASE SendClose \/ FrameDue
  <2>1. /\ \E e \in Events : Send(<<e>>) /\ e.kind # "release"
        /\ UNCHANGED <<mode, running, buffer, busy, sizeOf, held, returned>>
    BY <1>10, EventTypes DEF SendClose, FrameDue, fixedVars, appVars, ringVars, surfVars, syncVars
  <2> QED BY <1>3, <2>1, LoansStay
<1>11. ASSUME NEW b \in Buffers, running # "gone", Release(b) PROVE Loans'
  BY <1>11, LoansReleased
<1>12. CASE FinishFrame \/ Fini \/ Terminated \/ UNCHANGED vars
  <2>1. /\ inbox' = inbox /\ UNCHANGED <<mode, buffer, busy, held, returned>>
        /\ running' = "gone" \/ (running' = running /\ sizeOf' = sizeOf)
    BY <1>12 DEF FinishFrame, Fini, Terminated, vars, fixedVars, appVars, ringVars, surfVars, syncVars
  <2>2. UniqueReleases' /\ \A b : ReleaseSent(b)' <=> ReleaseSent(b)
    BY <1>1, <2>1 DEF UniqueReleases, ReleaseSent, Pending
  <2> QED BY <2>1, <2>2, LoansStay
<1> QED BY <1>4, <1>5, <1>6, <1>7, <1>8, <1>9, <1>10, <1>11, <1>12
        DEF Next, Client, Compositor

------------------------------------------------------------------------------
(* Acquire and release points *)

\* Finished frames leave in order, and each was submitted once.
LEMMA FrameFinished ==
  ASSUME TypeOK, Points, rendering # <<>>, rendering' = Tail(rendering)
  PROVE  /\ Head(rendering) \in Buffers /\ Rendering(Head(rendering))
         /\ \A b : Rendering(b)' <=> Rendering(b) /\ b # Head(rendering)
         /\ \A j, k \in 1 .. Len(rendering') : rendering'[j] = rendering'[k] => j = k
<1>1. /\ Head(rendering) \in Buffers /\ Head(rendering) = rendering[1]
      /\ Len(rendering) \in Nat /\ Len(rendering) >= 1 /\ Len(rendering') = Len(rendering) - 1
      /\ \A j \in 1 .. Len(rendering') : rendering'[j] = rendering[j + 1]
  BY HeadTailProperties, LenProperties, EmptySeq DEF TypeOK
<1>2. \A j, k \in 1 .. Len(rendering) : rendering[j] = rendering[k] => j = k
  BY DEF Points
<1>3. ASSUME NEW b PROVE Rendering(b)' <=> Rendering(b) /\ b # Head(rendering)
  <2>1. ASSUME NEW j \in 1 .. Len(rendering'), rendering'[j] = b
        PROVE  Rendering(b) /\ b # Head(rendering)
    <3>1. j + 1 \in 1 .. Len(rendering) /\ rendering[j + 1] = b /\ 1 \in 1 .. Len(rendering) /\ j + 1 # 1
      BY <1>1, <2>1
    <3> QED BY <1>1, <1>2, <3>1 DEF Rendering
  <2>2. ASSUME NEW j \in 1 .. Len(rendering), rendering[j] = b, b # Head(rendering)
        PROVE  Rendering(b)'
    <3>1. j - 1 \in 1 .. Len(rendering') /\ rendering'[j - 1] = b
      BY <1>1, <2>2
    <3> QED BY <3>1 DEF Rendering
  <2> QED BY <2>1, <2>2 DEF Rendering
<1>4. ASSUME NEW j \in 1 .. Len(rendering'), NEW k \in 1 .. Len(rendering'), rendering'[j] = rendering'[k]
      PROVE  j = k
  <2>1. j + 1 \in 1 .. Len(rendering) /\ k + 1 \in 1 .. Len(rendering)
        /\ rendering[j + 1] = rendering[k + 1]
    BY <1>1, <1>4
  <2>2. j + 1 = k + 1
    BY <1>2, <2>1
  <2> QED BY <2>2
<1>5. Rendering(Head(rendering))
  BY <1>1 DEF Rendering
<1> QED BY <1>1, <1>3, <1>4, <1>5

\* A commit of a buffer that the GPU is not drawing into.
LEMMA PointsCommitted ==
  ASSUME TypeOK, Points, mode = "explicit", NEW b \in Buffers, ~Rendering(b),
         NEW sched, Commit(b, sched), InSlot(b)'
  PROVE  /\ \A c \in reached' \cup returned' : InSlot(c)' /\ ~Rendering(c)'
         /\ \A j, k \in 1 .. Len(rendering') : rendering'[j] = rendering'[k] => j = k
<1>1. \A c : Rendering(c)' => Rendering(c) \/ c = b
  BY DrawnInto
<1>2. ASSUME NEW c \in returned' PROVE InSlot(c)' /\ ~Rendering(c)'
  <2>1. c \in returned \ {b} /\ InSlot(c)'
    <3>1. returned' = OfSlots(returned \ {b})
      BY Committed
    <3> QED BY <1>2, <3>1 DEF OfSlots, InSlot
  <2> QED BY <1>1, <2>1 DEF Points
<1>3. CASE rendering' = Append(rendering, b) /\ reached' = OfSlots(reached \ {b})
  <2>1. ASSUME NEW c \in reached' PROVE InSlot(c)' /\ ~Rendering(c)'
    <3>1. c \in reached \ {b} /\ InSlot(c)'
      BY <1>3, <2>1 DEF OfSlots, InSlot
    <3> QED BY <1>1, <3>1 DEF Points
  <2>2. rendering \in Seq(Buffers)
    BY DEF TypeOK
  <2>3. /\ Len(rendering) \in Nat /\ Len(rendering') = Len(rendering) + 1
        /\ \A j \in 1 .. Len(rendering) : rendering'[j] = rendering[j] /\ rendering[j] # b
        /\ rendering'[Len(rendering) + 1] = b
    BY <1>3, <2>2 DEF Rendering
  <2>4. \A j, k \in 1 .. Len(rendering) : rendering[j] = rendering[k] => j = k
    BY DEF Points
  <2>5. \A j, k \in 1 .. Len(rendering') : rendering'[j] = rendering'[k] => j = k
    BY <2>3, <2>4
  <2> QED BY <1>2, <2>1, <2>5
<1>4. CASE rendering' = <<>> /\ \A x \in reached' : InSlot(x)'
  BY <1>2, <1>4, EmptySeq DEF Rendering
<1> QED BY <1>3, <1>4, Committed

\* Without explicit sync there are no points, and none are set.
LEMMA NoPoints ==
  ASSUME TypeOK, Points, mode = "listener", mode' = mode, UNCHANGED syncVars
  PROVE  Points'
<1>1. rendering' = <<>> /\ reached' = {} /\ returned' = {}
  BY DEF Points, syncVars
<1>2. \A b : ~Rendering(b)'
  BY <1>1, EmptySeq DEF Rendering
<1> QED BY <1>1, <1>2 DEF Points

\* Steps that touch neither the points nor the slots.
LEMMA PointsStay ==
  ASSUME Points, UNCHANGED <<mode, buffer, busy, syncVars>>
  PROVE  Points'
  BY DEF Points, InSlot, Rendering, syncVars

\* Without a resize, a redraw draws into a buffer the GPU is done with.
LEMMA PointsRedrawn ==
  ASSUME TypeOK, Slotted, Points, bufSize # None, NEW sched, Redraw(buffer, busy, sched),
         UNCHANGED <<mode, buffer>>
  PROVE  Points'
<1>1. CASE busy' = busy /\ UNCHANGED syncVars
  BY <1>1, PointsStay
<1>2. ASSUME NEW i \in Slots, IsFree(buffer, busy, i),
             busy' = [busy EXCEPT ![i] = TRUE], Commit(buffer[i], sched)
      PROVE  Points'
  <2> DEFINE b == buffer[i]
  <2>1. b \in Buffers /\ SlotOf(b) = i /\ InSlot(b)
    BY FreeIsBuffer
  <2>2. CASE mode = "listener"
    <3>1. UNCHANGED syncVars
      BY <1>2, <2>1, <2>2, Committed
    <3> QED BY <2>2, <3>1, NoPoints
  <2>3. CASE mode = "explicit"
    <3>1. ~Rendering(b)
      BY <1>2, <2>1 DEF IsFree, Points
    <3>2. \A c \in Buffers : InSlot(c)' <=> InSlot(c)
      BY DEF InSlot
    <3> HIDE DEF b
    <3>3. Commit(b, sched)
      BY <1>2 DEF b
    <3>4. InSlot(b)
      BY <2>1
    <3>5. b[1] = i /\ buffer'[SlotOf(b)] = b
      BY <3>4, <2>1 DEF InSlot, SlotOf
    <3>6. /\ \A c \in reached' \cup returned' : InSlot(c)' /\ ~Rendering(c)'
          /\ \A j, k \in 1 .. Len(rendering') : rendering'[j] = rendering'[k] => j = k
      <4>1. PICK d \in Buffers : d = b
        BY <2>1
      <4>2. InSlot(d)' /\ Commit(d, sched) /\ ~Rendering(d)
        BY <3>1, <3>2, <3>3, <3>4, <4>1
      <4> QED BY <2>3, <4>2, PointsCommitted
    <3>7. ASSUME NEW c \in Buffers, InSlot(c)', ~busy'[SlotOf(c)] PROVE ~Rendering(c)'
      <4>1. SlotOf(c) \in Slots /\ InSlot(c)
        BY <3>2, <3>7, BufferParts
      <4>2. c # b /\ ~busy[SlotOf(c)]
        BY <1>2, <2>1, <3>7, <4>1 DEF TypeOK
      <4>3. ~Rendering(c)
        BY <4>1, <4>2 DEF Points
      <4> QED BY <2>1, <3>3, <4>2, <4>3, DrawnInto
    <3> QED BY <2>3, <3>6, <3>7 DEF Points
  <2> QED BY <2>2, <2>3 DEF TypeOK, AllModes
<1> QED BY <1>1, <1>2, Drawing

\* A resize draws into a buffer never used before.
LEMMA PointsResized ==
  ASSUME TypeOK, Points, NewRing, UNCHANGED mode,
         NEW i \in Slots, busy' = [j \in Slots |-> j = i],
         NEW sched, Commit(buffer'[i], sched)
  PROVE  Points'
<1>1. PICK b \in Buffers : buffer'[i] = b
  BY DEF NewRing
<1>2. SlotOf(b) = i /\ ~Rendering(b) /\ InSlot(b)' /\ Commit(b, sched)
  BY <1>1 DEF NewRing, InSlot
<1>3. CASE mode = "listener"
  <2>1. UNCHANGED syncVars
    BY <1>2, <1>3, Committed
  <2> QED BY <1>3, <2>1, NoPoints
<1>4. CASE mode = "explicit"
  <2>1. /\ \A c \in reached' \cup returned' : InSlot(c)' /\ ~Rendering(c)'
        /\ \A j, k \in 1 .. Len(rendering') : rendering'[j] = rendering'[k] => j = k
    BY <1>2, <1>4, PointsCommitted
  <2>2. ASSUME NEW c \in Buffers, InSlot(c)', ~busy'[SlotOf(c)] PROVE ~Rendering(c)'
    <3>1. SlotOf(c) \in Slots /\ buffer'[SlotOf(c)] = c
      BY <2>2, BufferParts DEF InSlot
    <3>2. c # b
      BY <1>2, <2>2, <3>1
    <3>3. ~Rendering(c)
      BY <3>1 DEF NewRing
    <3> QED BY <1>2, <3>2, <3>3, DrawnInto
  <2> QED BY <1>4, <2>1, <2>2 DEF Points
<1> QED BY <1>3, <1>4 DEF TypeOK, AllModes

\* A reached point stays true of the buffer it belongs to.
LEMMA PointsStep ==
  ASSUME RingInv, [Next]_vars
  PROVE  Points'
<1> USE DEF RingInv
<1>1. CASE OnToplevelConfigure \/ OnToplevelClose
  BY <1>1, PointsStay DEF OnToplevelConfigure, OnToplevelClose, Dispatch, fixedVars, ringVars
<1>2. CASE OnXdgSurfaceConfigure
  <2>1. UNCHANGED mode /\ pending # None
    BY <1>2, Configured DEF TypeOK, None, fixedVars
  <2>2. CASE bufSize = pending /\ UNCHANGED <<buffer, sizeOf>>
             /\ Redraw(buffer, busy, FirstSchedule)
    BY <2>1, <2>2, PointsRedrawn
  <2>3. ASSUME NewRing, NEW i \in Slots, busy' = [j \in Slots |-> j = i],
               Commit(buffer'[i], FirstSchedule)
        PROVE  Points'
    BY <2>1, <2>3, PointsResized
  <2> QED BY <1>2, <2>2, <2>3, Configured
<1>3. CASE OnFrameDone
  <2>1. bufSize # None /\ Redraw(buffer, busy, NextSchedule) /\ UNCHANGED <<mode, buffer>>
    BY <1>3, FrameMeansRing DEF OnFrameDone, Dispatch, fixedVars
  <2> QED BY <2>1, PointsRedrawn
<1>4. CASE OnBufferRelease
  <2>1. Dispatch("release") /\ UNCHANGED <<mode, syncVars>> /\ inbox \in Seq(Events)
    BY <1>4 DEF OnBufferRelease, Dispatch, fixedVars, TypeOK
  <2>2. mode = "listener"
    <3>1. Head(inbox).arg \in Buffers /\ ReleaseSent(Head(inbox).arg)
      BY <2>1, Taken, EventTypes
    <3> QED BY <3>1 DEF Loans, TypeOK, AllModes
  <2> QED BY <2>1, <2>2, NoPoints
<1>5. CASE \/ \E s \in Sizes : SendConfigure(s)
           \/ SendClose \/ FrameDue
  BY <1>5, PointsStay DEF SendConfigure, SendClose, FrameDue, fixedVars, ringVars
<1>6. ASSUME NEW b \in Buffers, Release(b) PROVE Points'
  <2>1. UNCHANGED <<mode, buffer, busy, rendering, reached>>
    BY <1>6 DEF Release, fixedVars, ringVars
  <2>2. CASE returned' = returned
    BY <2>1, <2>2, PointsStay DEF syncVars
  <2>3. CASE mode = "explicit" /\ InSlot(b) /\ returned' = returned \cup {b}
    <3>1. ~Rendering(b)
      BY <1>6, <2>3 DEF Release, MayRead, Points
    <3>2. \A c : (InSlot(c)' <=> InSlot(c)) /\ (Rendering(c)' <=> Rendering(c))
      BY <2>1 DEF InSlot, Rendering
    <3> QED BY <2>1, <2>3, <3>1, <3>2 DEF Points
  <2> QED BY <1>6, <2>2, <2>3 DEF Release
<1>7. CASE FinishFrame
  <2> DEFINE h == Head(rendering)
  <2>1. /\ rendering # <<>> /\ rendering' = Tail(rendering)
        /\ reached' = IF InSlot(h) THEN reached \cup {h} ELSE reached
        /\ UNCHANGED <<mode, buffer, busy, returned>>
    BY <1>7 DEF FinishFrame, fixedVars, ringVars
  <2>2. mode = "explicit"
    BY <2>1 DEF Points, TypeOK, AllModes
  <2>3. \A c : InSlot(c)' <=> InSlot(c)
    BY <2>1 DEF InSlot
  <2> HIDE DEF h
  <2>4. \A c : Rendering(c)' <=> Rendering(c) /\ c # h
    BY <2>1, FrameFinished DEF h
  <2>5. \A j, k \in 1 .. Len(rendering') : rendering'[j] = rendering'[k] => j = k
    BY <2>1, FrameFinished
  <2>6. \A c \in reached' \cup returned' : InSlot(c)' /\ ~Rendering(c)'
    BY <2>1, <2>3, <2>4 DEF Points
  <2>7. \A c \in Buffers : InSlot(c)' /\ ~busy'[SlotOf(c)] => ~Rendering(c)'
    BY <2>1, <2>3, <2>4 DEF Points
  <2> QED BY <2>1, <2>2, <2>5, <2>6, <2>7 DEF Points
<1>8. CASE Fini \/ Terminated \/ UNCHANGED vars
  BY <1>8, PointsStay DEF Fini, Terminated, vars, fixedVars, ringVars
<1> QED BY <1>1, <1>2, <1>3, <1>4, <1>5, <1>6, <1>7, <1>8 DEF Next, Client, Compositor

------------------------------------------------------------------------------
(* There is a wl_buffer for every configure on the wire *)

\* Something still refers to the buffer.
Mentioned(b) == Alive(b) \/ b \in held \/ ReleaseSent(b) \/ Rendering(b)

\* Where nothing new is referred to, no generation is used up.
LEMMA UnusedKept ==
  ASSUME NEW i \in Slots, NEW taken,
         \A b \in Buffers : SlotOf(b) = i /\ Mentioned(b)' => Mentioned(b) \/ b = taken
  PROVE  \A g \in Unused(i) : <<i, g>> # taken => g \in Unused(i)'
<1>1. ASSUME NEW g \in Unused(i), <<i, g>> # taken PROVE g \in Unused(i)'
  <2>1. g \in 1 .. MaxGens /\ ~Mentioned(<<i, g>>)
    BY DEF Unused, Mentioned
  <2>2. ~Mentioned(<<i, g>>)'
    BY <1>1, <2>1, BufferParts
  <2> QED BY <2>1, <2>2 DEF Unused, Mentioned
<1> QED BY <1>1

\* With one event taken off the wire, no kind has more; its own has one less.
LEMMA FewerPending ==
  ASSUME inbox \in Seq(Events), NEW kind, Dispatch(kind), NEW k
  PROVE  Cardinality(Pending(k)') <= IF k = kind THEN Cardinality(Pending(k)) - 1
                                     ELSE Cardinality(Pending(k))
<1> DEFINE P == Pending(k)
           Q == Pending(k)'
           up == [j \in Q |-> j + 1]
<1>1. /\ Q = {j \in 1 .. Len(inbox') : j + 1 \in P}
      /\ 1 \in P <=> k = kind
      /\ inbox' \in Seq(Events)
  BY Taken
<1>2. IsFiniteSet(P) /\ Cardinality(P) \in Nat
  BY Countable DEF CanCount
<1>3. IsFiniteSet(P \ {1}) /\ Cardinality(P \ {1}) = IF 1 \in P THEN Cardinality(P) - 1 ELSE Cardinality(P)
  BY <1>2, FS_RemoveElement
<1>4. up \in Injection(Q, P \ {1})
  <2>1. \A j \in Q : j \in Nat /\ j + 1 \in P \ {1}
    BY <1>1
  <2> HIDE DEF P, Q
  <2> QED BY <2>1 DEF Injection, IsInjective
<1>5. Cardinality(Q) <= Cardinality(P \ {1})
  <2> HIDE DEF P, Q, up
  <2> QED BY <1>3, <1>4, FS_Injection
<1> QED BY <1>1, <1>3, <1>5

\* Room is kept where nothing is used up and nothing more is on the wire.
LEMMA RoomKept ==
  ASSUME TypeOK, Room, running # "gone", inbox' \in Seq(Events),
         \A b \in Buffers : Mentioned(b)' => Mentioned(b),
         Cardinality(Pending("xdg")') <= Cardinality(Pending("xdg"))
  PROVE  Room'
<1>1. ASSUME NEW i \in Slots PROVE Cardinality(Unused(i)) <= Cardinality(Unused(i)')
  <2>1. Unused(i) \in SUBSET (Unused(i)')
    <3>1. \A g \in Unused(i) : <<i, g>> \in Buffers /\ <<i, g>> # NoBuffer
      BY BufferParts DEF Unused
    <3>2. \A g \in Unused(i) : <<i, g>> # NoBuffer => g \in Unused(i)'
      BY UnusedKept
    <3> QED BY <3>1, <3>2
  <2>2. IsFiniteSet(Unused(i)')
    BY CountableNext DEF CanCount
  <2> QED BY <2>1, <2>2, FS_Subset
<1>2. ASSUME NEW i \in Slots
      PROVE  Cardinality(Unused(i)') \in Nat /\ Cardinality(Unused(i)) \in Nat
             /\ Cardinality(Pending("xdg")') \in Nat /\ Cardinality(Pending("xdg")) \in Nat
  BY Countable, CountableNext DEF CanCount, TypeOK
<1>3. \A i \in Slots : Cardinality(Unused(i)) >= Cardinality(Pending("xdg"))
  BY DEF Room
<1>4. \A i \in Slots : Cardinality(Unused(i)') >= Cardinality(Pending("xdg")')
  BY <1>1, <1>2, <1>3
<1> QED BY <1>4 DEF Room

\* A redraw without a resize refers to buffers of the ring, which are alive.
LEMMA MentionedRedrawn ==
  ASSUME TypeOK, Slotted, bufSize # None, running # "gone",
         NEW sched, Redraw(buffer, busy, sched), UNCHANGED sizeOf,
         \A b : ReleaseSent(b)' <=> ReleaseSent(b)
  PROVE  \A b \in Buffers : Mentioned(b)' => Mentioned(b)
<1>1. CASE UNCHANGED <<held, syncVars>>
  BY <1>1 DEF Mentioned, Alive, Rendering, syncVars
<1>2. ASSUME NEW i \in Slots, Commit(buffer[i], sched)
      PROVE  \A b \in Buffers : Mentioned(b)' => Mentioned(b)
  <2>1. buffer[i] \in Buffers /\ Alive(buffer[i])
    BY FreeIsBuffer, InSlotAlive
  <2>2. held' = held \cup {buffer[i]} /\ \A b : Rendering(b)' => Rendering(b) \/ b = buffer[i]
    BY <1>2, <2>1, Committed, DrawnInto
  <2>3. \A b : Alive(b)' <=> Alive(b)
    BY DEF Alive
  <2> QED BY <2>1, <2>2, <2>3 DEF Mentioned
<1> QED BY <1>1, <1>2, Drawing

\* A resize takes one wl_buffer of every slot, and one configure off the wire.
LEMMA RoomResized ==
  ASSUME TypeOK, Slotted, Room, Dispatch("xdg"), running # "gone", NewRing,
         NEW i \in Slots, NEW sched, Commit(buffer'[i], sched)
  PROVE  Room'
<1>1. inbox \in Seq(Events) /\ inbox' \in Seq(Events) /\ \A b : ReleaseSent(b)' <=> ReleaseSent(b)
  BY Taken DEF TypeOK
<1>2. ASSUME NEW j \in Slots
      PROVE  Cardinality(Unused(j)) - 1 <= Cardinality(Unused(j)')
  <2>1. PICK taken \in Buffers : buffer'[j] = taken
    BY DEF NewRing
  <2>2. PICK b \in Buffers : buffer'[i] = b
    BY DEF NewRing
  <2>3. held' = held \cup {b} /\ \A c : Rendering(c)' => Rendering(c) \/ c = b
    <3>1. Commit(b, sched)
      BY <2>2
    <3> QED BY <3>1, Committed, DrawnInto
  <2>4. ASSUME NEW c \in Buffers, SlotOf(c) = j, Mentioned(c)', c # taken
        PROVE  Mentioned(c)
    <3>1. ~InSlot(c)'
      BY <2>1, <2>4 DEF InSlot
    <3>2. c # b
      BY <2>2, <3>1 DEF InSlot, NewRing
    <3>3. Alive(c)' => Alive(c)
      BY <3>1 DEF Alive, NewRing
    <3> QED BY <1>1, <2>3, <2>4, <3>2, <3>3 DEF Mentioned
  <2>5. \A g \in Unused(j) : <<j, g>> # taken => g \in Unused(j)'
    BY <2>4, UnusedKept
  <2>6. Unused(j) \ {taken[2]} \in SUBSET (Unused(j)')
    <3>1. ASSUME NEW g \in Unused(j), g # taken[2] PROVE <<j, g>> # taken
      BY <3>1
    <3> QED BY <2>5, <3>1
  <2>7. /\ IsFiniteSet(Unused(j)) /\ IsFiniteSet(Unused(j)')
        /\ Cardinality(Unused(j)) \in Nat /\ Cardinality(Unused(j)') \in Nat
    BY Countable, CountableNext DEF CanCount
  <2>8. Cardinality(Unused(j) \ {taken[2]}) <= Cardinality(Unused(j)')
    BY <2>6, <2>7, FS_Subset
  <2>9. Cardinality(Unused(j) \ {taken[2]}) \in {Cardinality(Unused(j)), Cardinality(Unused(j)) - 1}
    BY <2>7, FS_RemoveElement
  <2> QED BY <2>7, <2>8, <2>9
<1>3. Cardinality(Pending("xdg")') <= Cardinality(Pending("xdg")) - 1
  BY <1>1, FewerPending
<1>4. /\ Cardinality(Pending("xdg")') \in Nat /\ Cardinality(Pending("xdg")) \in Nat
      /\ \A j \in Slots : Cardinality(Unused(j)') \in Nat /\ Cardinality(Unused(j)) \in Nat
  BY <1>1, Countable, CountableNext DEF CanCount
<1>5. \A j \in Slots : Cardinality(Unused(j)) >= Cardinality(Pending("xdg"))
  BY DEF Room
<1>6. \A j \in Slots : Cardinality(Unused(j)') >= Cardinality(Pending("xdg")')
  BY <1>2, <1>3, <1>4, <1>5
<1> QED BY <1>6 DEF Room

\* A reallocation always finds a wl_buffer to make.
LEMMA RoomStep ==
  ASSUME RingInv, [Next]_vars
  PROVE  Room'
<1> USE DEF RingInv
<1>1. inbox \in Seq(Events) /\ inbox' \in Seq(Events)
  BY TypeStep DEF TypeOK
<1>2. Cardinality(Pending("xdg")) \in Nat
  BY <1>1, Countable DEF CanCount
<1>3. ASSUME NEW kind, kind # "release", Dispatch(kind)
      PROVE  /\ \A b : ReleaseSent(b)' <=> ReleaseSent(b)
             /\ Cardinality(Pending("xdg")') <= Cardinality(Pending("xdg"))
  <2>1. Cardinality(Pending("xdg")') <= IF "xdg" = kind THEN Cardinality(Pending("xdg")) - 1
                                        ELSE Cardinality(Pending("xdg"))
    BY <1>1, <1>3, FewerPending
  <2>2. Cardinality(Pending("xdg")') \in Nat
    BY <1>1, CountableNext DEF CanCount
  <2>3. Cardinality(Pending("xdg")') <= Cardinality(Pending("xdg"))
    BY <1>2, <2>1, <2>2
  <2> QED BY <1>1, <1>3, <2>3, Taken
<1>4. ASSUME running # "gone", UNCHANGED <<sizeOf, held, rendering>>,
             \A b : ReleaseSent(b)' <=> ReleaseSent(b),
             Cardinality(Pending("xdg")') <= Cardinality(Pending("xdg"))
      PROVE  Room'
  <2>1. \A b \in Buffers : Mentioned(b)' => Mentioned(b)
    BY <1>4 DEF Mentioned, Alive, Rendering
  <2> QED BY <1>1, <1>4, <2>1, RoomKept
<1>5. CASE OnToplevelConfigure
  <2>1. Dispatch("toplevel") /\ running # "gone" /\ UNCHANGED <<sizeOf, held, rendering>>
    BY <1>5 DEF OnToplevelConfigure, Dispatch, ringVars, surfVars, syncVars
  <2> QED BY <1>3, <1>4, <2>1
<1>6. CASE OnXdgSurfaceConfigure
  <2>1. Dispatch("xdg") /\ running # "gone" /\ pending # None
    BY <1>6, Configured DEF TypeOK, None
  <2>2. CASE bufSize = pending /\ UNCHANGED <<buffer, sizeOf>>
             /\ Redraw(buffer, busy, FirstSchedule)
    <3>1. \A b \in Buffers : Mentioned(b)' => Mentioned(b)
      BY <1>3, <2>1, <2>2, MentionedRedrawn
    <3> QED BY <1>1, <1>3, <2>1, <3>1, RoomKept
  <2>3. ASSUME NewRing, NEW i \in Slots, Commit(buffer'[i], FirstSchedule) PROVE Room'
    BY <2>1, <2>3, RoomResized
  <2> QED BY <1>6, <2>2, <2>3, Configured
<1>7. CASE OnFrameDone
  <2>1. /\ Dispatch("frame") /\ running # "gone" /\ bufSize # None
        /\ Redraw(buffer, busy, NextSchedule) /\ UNCHANGED sizeOf
    BY <1>7, FrameMeansRing DEF OnFrameDone, Dispatch
  <2>2. \A b \in Buffers : Mentioned(b)' => Mentioned(b)
    BY <1>3, <2>1, MentionedRedrawn
  <2> QED BY <1>1, <1>3, <2>1, <2>2, RoomKept
<1>8. CASE OnBufferRelease
  <2>1. /\ Dispatch("release") /\ running # "gone" /\ UNCHANGED <<held, rendering>>
        /\ HandBack(Head(inbox).arg)
    BY <1>8 DEF OnBufferRelease, Dispatch, surfVars, syncVars
  <2>2. \A b : ReleaseSent(b)' => ReleaseSent(b)
    BY <1>1, <2>1, Taken
  <2>3. \A b \in Buffers : Alive(b)' => Alive(b)
    BY <2>1 DEF HandBack, Alive, TypeOK
  <2>4. \A b \in Buffers : Mentioned(b)' => Mentioned(b)
    BY <2>1, <2>2, <2>3 DEF Mentioned, Rendering
  <2>5. Cardinality(Pending("xdg")') <= Cardinality(Pending("xdg"))
    BY <1>1, <2>1, FewerPending
  <2> QED BY <1>1, <2>1, <2>4, <2>5, RoomKept
<1>9. CASE OnToplevelClose
  <2>1. Dispatch("close") /\ running # "gone" /\ UNCHANGED <<sizeOf, held, rendering>>
    BY <1>9 DEF OnToplevelClose, Dispatch, ringVars, surfVars, syncVars
  <2> QED BY <1>3, <1>4, <2>1
<1>10. ASSUME NEW s \in Sizes, SendConfigure(s), running # "gone" PROVE Room'
  <2>1. /\ Send(<<Event("toplevel", s), Event("xdg", 0)>>)
        /\ \A i \in Slots : Cardinality(Unused(i)) > Cardinality(Pending("xdg"))
        /\ UNCHANGED <<sizeOf, held, rendering>>
    BY <1>10 DEF SendConfigure, ringVars, surfVars, syncVars
  <2>2. Event("toplevel", s) \in Events
    BY RingAssumption, EventTypes
  <2>3. /\ Pending("xdg")' = Pending("xdg") \cup {Len(inbox) + 2}
        /\ \A b : ReleaseSent(b)' <=> ReleaseSent(b)
    BY <1>1, <2>1, <2>2, EventTypes, SentTwo
  <2>4. Cardinality(Pending("xdg")') \in {Cardinality(Pending("xdg")), Cardinality(Pending("xdg")) + 1}
    <3>1. IsFiniteSet(Pending("xdg"))
      BY <1>1, Countable DEF CanCount
    <3> QED BY <2>3, <3>1, FS_AddElement
  <2>5. \A i \in Slots : Unused(i)' = Unused(i)
    BY <2>1, <2>3 DEF Unused, Alive, Rendering
  <2>6. \A i \in Slots : Cardinality(Unused(i)) \in Nat
    BY Countable DEF CanCount
  <2>7. \A i \in Slots : Cardinality(Unused(i)) >= Cardinality(Pending("xdg")')
    BY <1>2, <2>1, <2>4, <2>6
  <2>8. \A i \in Slots : Cardinality(Unused(i)') >= Cardinality(Pending("xdg")')
    BY <2>5, <2>7
  <2> QED BY <2>8 DEF Room
<1>11. CASE running # "gone" /\ (SendClose \/ FrameDue)
  <2>1. /\ \E e \in Events : Send(<<e>>) /\ e.kind # "release" /\ e.kind # "xdg"
        /\ UNCHANGED <<sizeOf, held, rendering>>
    BY <1>11, EventTypes DEF SendClose, FrameDue, ringVars, surfVars, syncVars
  <2>2. Pending("xdg")' = Pending("xdg") /\ \A b : ReleaseSent(b)' <=> ReleaseSent(b)
    BY <1>1, <2>1, SentOne
  <2> QED BY <1>2, <1>4, <1>11, <2>1, <2>2
<1>12. ASSUME running # "gone", NEW b \in Buffers, Release(b) PROVE Room'
  <2>1. b \in held /\ held' = held \ {b} /\ UNCHANGED <<sizeOf, rendering>>
    BY <1>12 DEF Release, ringVars
  <2>2. /\ Pending("xdg")' = Pending("xdg")
        /\ \A c : ReleaseSent(c)' => ReleaseSent(c) \/ c = b
    <3>1. CASE Send(<<Event("release", b)>>)
      BY <1>1, <3>1, EventTypes, SentOne
    <3>2. CASE UNCHANGED inbox
      BY <3>2 DEF Pending, ReleaseSent
    <3> QED BY <1>12, <3>1, <3>2 DEF Release
  <2>3. \A c \in Buffers : Mentioned(c)' => Mentioned(c)
    BY <2>1, <2>2 DEF Mentioned, Alive, Rendering
  <2> QED BY <1>1, <1>2, <1>12, <2>2, <2>3, RoomKept
<1>13. CASE FinishFrame
  <2>1. rendering # <<>> /\ rendering' = Tail(rendering) /\ UNCHANGED <<sizeOf, held, inbox, running>>
    BY <1>13 DEF FinishFrame, appVars, ringVars, surfVars
  <2>2. CASE running = "gone"
    BY <2>1, <2>2 DEF Room
  <2>3. CASE running # "gone"
    <3>1. \A b : Rendering(b)' => Rendering(b)
      BY <2>1, FrameFinished
    <3>2. Pending("xdg")' = Pending("xdg") /\ \A b : ReleaseSent(b)' <=> ReleaseSent(b)
      BY <2>1 DEF Pending, ReleaseSent
    <3>3. \A b \in Buffers : Mentioned(b)' => Mentioned(b)
      BY <2>1, <3>1, <3>2 DEF Mentioned, Alive
    <3> QED BY <1>1, <1>2, <2>3, <3>2, <3>3, RoomKept
  <2> QED BY <2>2, <2>3
<1>14. CASE Fini
  BY <1>14 DEF Fini, Room
<1>15. CASE Terminated \/ UNCHANGED vars
  <2>1. UNCHANGED vars
    BY <1>15 DEF Terminated
  <2>2. UNCHANGED <<running, sizeOf, held, rendering, inbox>>
    BY <2>1 DEF vars, appVars, ringVars, surfVars, syncVars
  <2>3. Pending("xdg")' = Pending("xdg") /\ \A i \in Slots : Unused(i)' = Unused(i)
    BY <2>2 DEF Pending, Unused, Alive, ReleaseSent, Rendering
  <2> QED BY <2>2, <2>3 DEF Room
<1> QED BY <1>5, <1>6, <1>7, <1>8, <1>9, <1>10, <1>11, <1>12, <1>13, <1>14, <1>15
        DEF Next, Client, Compositor

------------------------------------------------------------------------------
(* The invariant *)

\* Before the first configure nothing is allocated, on loan, or on the wire.
LEMMA RingInit ==
  ASSUME Init
  PROVE  RingInv
<1>1. inbox = <<>> /\ inbox \in Seq(Events) /\ rendering = <<>> /\ rendering \in Seq(Buffers)
  BY EmptySeq DEF Init
<1>2. (\A k : Pending(k) = {}) /\ (\A b : ~ReleaseSent(b) /\ ~Rendering(b))
  BY <1>1, EmptySeq DEF Pending, ReleaseSent, Rendering
<1>3. TypeOK
  BY <1>1, RingAssumption DEF Init, TypeOK, None
<1>4. Callbacks
  BY <1>2 DEF Init, Callbacks
<1>5. Slotted
  BY BufferParts DEF Init, Slotted
<1>6. \A b \in Buffers : ~InSlot(b) /\ ~Alive(b)
  BY BufferParts DEF Init, InSlot, Alive
<1>7. Loans
  BY <1>2, <1>6 DEF Init, Loans, UniqueReleases
<1>8. Points
  BY <1>1, <1>2, EmptySeq DEF Init, Points
<1>9. Room
  <2>1. \A i \in Slots : Cardinality(Unused(i)) \in Nat
    BY Countable DEF CanCount
  <2>2. Cardinality(Pending("xdg")) = 0
    BY <1>2, FS_EmptySet
  <2> QED BY <2>1, <2>2 DEF Room
<1> QED BY <1>3, <1>4, <1>5, <1>7, <1>8, <1>9 DEF RingInv

\* The invariant holds in every state of every execution.
THEOREM RingInvAlways == Spec => []RingInv
<1>1. ASSUME RingInv, [Next]_vars PROVE RingInv'
  BY <1>1, TypeStep, CallbacksStep, SlottedStep, LoansStep, PointsStep, RoomStep DEF RingInv
<1> QED BY <1>1, RingInit, PTL DEF Spec

\* A configure, however many come, starts no second frame loop, and the one loop
\* is never lost: there is exactly one callback requested, armed or delivered.
THEOREM OneCallbackAlways == Spec => []OneCallback
<1>1. ASSUME RingInv PROVE OneCallback
  <2> SUFFICES ASSUME animating PROVE scheduled + armed + Cardinality(Pending("frame")) = 1
    BY DEF OneCallback
  <2>1. CASE scheduled + armed = 1 /\ Pending("frame") = {}
    BY <2>1, FS_EmptySet
  <2>2. CASE scheduled = 0 /\ armed = 0 /\ \E i \in Pending("frame") : Pending("frame") = {i}
    <3>1. Cardinality(Pending("frame")) = 1
      BY <2>2, FS_Singleton
    <3> QED BY <2>2, <3>1
  <2> QED BY <1>1, <2>1, <2>2 DEF RingInv, Callbacks
<1> QED BY <1>1, RingInvAlways, PTL

\* A slot the presenter takes for free is read by nobody, and no release of an
\* earlier loan is under way to free it again while the compositor reads it.
THEOREM FreeMeansReturnedAlways == Spec => []FreeMeansReturned
<1>1. ASSUME RingInv PROVE FreeMeansReturned
  <2> SUFFICES ASSUME running # "gone", NEW i \in Slots, IsFree(buffer, busy, i)
               PROVE  buffer[i] \notin held /\ ~ReleaseSent(buffer[i])
    BY DEF FreeMeansReturned
  <2>1. CASE buffer[i] \notin Buffers
    <3>1. \A j \in Pending("release") : inbox[j].arg \in Buffers
      <4>1. \A j \in 1 .. Len(inbox) : inbox[j] \in Events
        BY <1>1, ElementOfSeq DEF RingInv, TypeOK
      <4> QED BY <4>1, EventTypes DEF Pending
    <3> QED BY <1>1, <2>1, <3>1 DEF RingInv, TypeOK, ReleaseSent
  <2>2. CASE buffer[i] \in Buffers
    <3>1. SlotOf(buffer[i]) = i /\ InSlot(buffer[i])
      BY <1>1, <2>2 DEF RingInv, Slotted, InSlot
    <3>2. CASE ~busy[i]
      BY <1>1, <2>2, <3>1, <3>2 DEF RingInv, Loans
    <3>3. CASE mode = "explicit" /\ buffer[i] \in returned
      BY <1>1, <2>2, <3>3 DEF RingInv, Loans
    <3> QED BY <3>2, <3>3 DEF IsFree
  <2> QED BY <2>1, <2>2
<1> QED BY <1>1, RingInvAlways, PTL

\* A busy slot comes back exactly once: its buffer is held, or its one release is
\* on the wire, or its release point is reached.
THEOREM LoanEndsOnceAlways == Spec => []LoanEndsOnce
<1>1. ASSUME RingInv PROVE LoanEndsOnce
  <2> SUFFICES ASSUME running # "gone", NEW i \in Slots, busy[i]
               PROVE  /\ buffer[i] \in held <=> ~(ReleaseSent(buffer[i]) \/ buffer[i] \in returned)
                      /\ Cardinality({j \in Pending("release") : inbox[j].arg = buffer[i]}) <= 1
    BY DEF LoanEndsOnce
  <2>1. buffer[i] \in held <=> ~(ReleaseSent(buffer[i]) \/ buffer[i] \in returned)
    <3>1. CASE buffer[i] \in Buffers
      <4>1. SlotOf(buffer[i]) = i /\ InSlot(buffer[i])
        BY <1>1, <3>1 DEF RingInv, Slotted, InSlot
      <4> QED BY <1>1, <3>1, <4>1 DEF RingInv, Loans, TypeOK, AllModes
    <3>2. CASE bufSize = None
      BY <1>1, <3>2 DEF RingInv, Slotted
    <3> QED BY <1>1, <3>1, <3>2 DEF RingInv, Slotted
  <2>2. Cardinality({j \in Pending("release") : inbox[j].arg = buffer[i]}) <= 1
    <3> DEFINE R == {j \in Pending("release") : inbox[j].arg = buffer[i]}
    <3>1. \A j, k \in R : j = k
      BY <1>1 DEF RingInv, Loans, UniqueReleases
    <3>2. R = {} \/ \E j : R = {j}
      BY <3>1
    <3> HIDE DEF R
    <3>3. Cardinality(R) \in {0, 1}
      BY <3>2, FS_EmptySet, FS_Singleton
    <3> QED BY <3>3 DEF R
  <2> QED BY <2>1, <2>2
<1> QED BY <1>1, RingInvAlways, PTL

\* No wl_buffer is left over: it belongs to a slot, or is an orphan whose release,
\* still to come, destroys it.
THEOREM NoBufferLeakAlways == Spec => []NoBufferLeak
<1>1. ASSUME RingInv PROVE NoBufferLeak
  <2>1. \A b \in Buffers : InSlot(b) => \E i \in Slots : buffer[i] = b
    BY BufferParts DEF InSlot
  <2> QED BY <1>1, <2>1 DEF RingInv, Loans, NoBufferLeak
<1> QED BY <1>1, RingInvAlways, PTL

\* Under explicit sync the compositor, waiting for the acquire point, never reads
\* a frame that the GPU is still drawing.
THEOREM DrawnWhenAcquiredAlways == Spec => []DrawnWhenAcquired
<1>1. ASSUME RingInv PROVE DrawnWhenAcquired
  BY <1>1 DEF RingInv, Points, DrawnWhenAcquired, MayRead
<1> QED BY <1>1, RingInvAlways, PTL

\* Once configured, the window shows a frame of the size last acknowledged.
THEOREM ContentMatchesAckAlways == Spec => []ContentMatchesAck
<1>1. ASSUME RingInv PROVE ContentMatchesAck
  <2> SUFFICES ASSUME animating
               PROVE  current # NoBuffer /\ (running # "gone" => sizeOf[current] = size)
    BY DEF ContentMatchesAck
  <2>1. current \in Buffers /\ InSlot(current)
    BY <1>1 DEF RingInv, Slotted
  <2> QED BY <1>1, <2>1, InSlotAlive, BufferParts DEF RingInv
<1> QED BY <1>1, RingInvAlways, PTL

\* What destroys a wl_buffer takes nothing back from the compositor.
LEMMA HeldOrAlive ==
  ASSUME RingInv, [Next]_vars, running' # "gone"
  PROVE  sizeOf' = sizeOf \/ held \subseteq held'
<1> USE DEF RingInv
<1>1. CASE OnXdgSurfaceConfigure
  <2>1. ASSUME NewRing, NEW i \in Slots, Commit(buffer'[i], FirstSchedule)
        PROVE  held \subseteq held'
    BY <2>1 DEF Commit
  <2> QED BY <1>1, <2>1, Configured
<1>2. CASE OnToplevelConfigure \/ OnFrameDone \/ OnBufferRelease \/ OnToplevelClose
  BY <1>2 DEF OnToplevelConfigure, OnFrameDone, OnBufferRelease, OnToplevelClose, ringVars, surfVars
<1>3. CASE Compositor \/ FinishFrame \/ Terminated \/ UNCHANGED vars
  BY <1>3 DEF Compositor, SendConfigure, SendClose, Release, FrameDue, FinishFrame, Terminated,
              vars, ringVars
<1>4. CASE Fini
  BY <1>4 DEF Fini
<1> QED BY <1>1, <1>2, <1>3, <1>4 DEF Next, Client

\* A resize or a late release never destroys a wl_buffer that a compositor, which
\* reports its releases through the listener, may still be reading.
THEOREM NeverDestroyHeldAlways == Spec => NeverDestroyHeld
<1> DEFINE P == (mode = "listener" /\ running' # "gone") =>
                  \A b \in Buffers : (Alive(b) /\ sizeOf'[b] = None) => b \notin held
<1>1. ASSUME RingInv, RingInv', [Next]_vars PROVE [P]_vars
  <2> SUFFICES ASSUME mode = "listener", running' # "gone", NEW b \in Buffers,
                      Alive(b), sizeOf'[b] = None, b \in held
               PROVE  FALSE
    OBVIOUS
  <2>1. mode' = mode
    BY <1>1 DEF Next, Client, Compositor, OnToplevelConfigure, OnXdgSurfaceConfigure, OnFrameDone,
                OnBufferRelease, OnToplevelClose, SendConfigure, SendClose, Release, FrameDue,
                FinishFrame, Fini, Terminated, Dispatch, fixedVars, vars
  <2>2. b \notin held'
    BY <1>1, <2>1 DEF RingInv, Loans, Alive
  <2>3. sizeOf' = sizeOf
    BY <1>1, <2>2, HeldOrAlive
  <2> QED BY <2>3 DEF Alive
<1>2. RingInv /\ RingInv' /\ [Next]_vars => [P]_vars
  BY <1>1
<1> HIDE DEF P
<1>3. Spec => [][P]_vars
  BY <1>2, RingInvAlways, PTL DEF Spec
<1> QED BY <1>3 DEF P, NeverDestroyHeld
==============================================================================
