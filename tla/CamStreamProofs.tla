--------------------------- MODULE CamStreamProofs ---------------------------
(***************************************************************************)
(* Proofs about CamStream, for any number of buffers, any number of frames *)
(* in flight, any set of scenes and any width of the statistics.           *)
(***************************************************************************)
EXTENDS CamStream, FiniteSetTheorems, ModularArithmetic, TLAPS

------------------------------------------------------------------------------
(* Sequences *)

Elems(s) == {s[i] : i \in 1 .. Len(s)}

\* Appending a frame adds its buffer, and nothing else, to those of a list.
LEMMA ElemsAppend ==
  ASSUME NEW S, NEW s \in Seq(S), NEW e \in S
  PROVE  /\ Append(s, e) \in Seq(S)
         /\ Len(Append(s, e)) = Len(s) + 1
         /\ \A i \in 1 .. Len(s) : Append(s, e)[i] = s[i]
         /\ Append(s, e)[Len(s) + 1] = e
         /\ Elems(Append(s, e)) = Elems(s) \cup {e}
<1>1. /\ Append(s, e) \in Seq(S)
      /\ Len(Append(s, e)) = Len(s) + 1
      /\ Len(s) \in Nat
      /\ \A i \in 1 .. Len(s) : Append(s, e)[i] = s[i]
      /\ Append(s, e)[Len(s) + 1] = e
  OBVIOUS
<1>2. Elems(Append(s, e)) = Elems(s) \cup {e}
  BY <1>1 DEF Elems
<1> QED BY <1>1, <1>2

\* Taking the first frame off a list leaves the others in their order.
LEMMA ElemsTail ==
  ASSUME NEW S, NEW s \in Seq(S), s # <<>>
  PROVE  /\ Tail(s) \in Seq(S) /\ Head(s) \in S
         /\ Len(s) \in Nat /\ Len(s) >= 1 /\ Len(Tail(s)) = Len(s) - 1
         /\ Head(s) = s[1]
         /\ \A i \in 1 .. Len(s) - 1 : Tail(s)[i] = s[i + 1]
         /\ Elems(s) = Elems(Tail(s)) \cup {Head(s)}
<1>1. /\ Tail(s) \in Seq(S) /\ Head(s) \in S
      /\ Len(s) \in Nat /\ Len(s) >= 1 /\ Len(Tail(s)) = Len(s) - 1
      /\ Head(s) = s[1]
      /\ \A i \in 1 .. Len(s) - 1 : Tail(s)[i] = s[i + 1]
  OBVIOUS
<1>2. Elems(s) \subseteq Elems(Tail(s)) \cup {Head(s)}
  <2> SUFFICES ASSUME NEW i \in 1 .. Len(s)
               PROVE  s[i] \in Elems(Tail(s)) \cup {Head(s)}
    BY DEF Elems
  <2>1. CASE i = 1
    BY <2>1, <1>1
  <2>2. CASE i > 1
    <3>1. i - 1 \in 1 .. Len(Tail(s)) /\ Tail(s)[i - 1] = s[i]
      BY <2>2, <1>1
    <3> QED BY <3>1 DEF Elems
  <2> QED BY <2>1, <2>2, <1>1
<1>3. Elems(Tail(s)) \cup {Head(s)} \subseteq Elems(s)
  BY <1>1 DEF Elems
<1> QED BY <1>1, <1>2, <1>3

------------------------------------------------------------------------------
(* Types *)

\* Every variable of the stream stays in its range.
THEOREM TypeCorrect == Spec => []TypeOK
<1> USE CamAssumption DEF NoBuffer, NoFence, Buffers
<1>1. ASSUME Init PROVE TypeOK
  <2>1. backend \in AllBackends /\ mapped \in SUBSET Buffers
    BY <1>1 DEF Init, CameraStart, AllBackends
  <2>2. filled \in Seq(Buffers) /\ gpu \in Seq(Buffers \cup {NoBuffer})
    BY <1>1 DEF Init, CameraStart
  <2>3. fence \in [Buffers -> Nat \cup {NoFence}]
    BY <1>1 DEF Init, CameraStart
  <2>4. queued \in SUBSET Buffers /\ gone = FALSE /\ pc = "loop" /\ retiring = {}
    BY <1>1 DEF Init, CameraStart
  <2>6. newest = NoBuffer /\ latest = NoBuffer /\ scan \in 0 .. NBuf /\ syncs \in Int
    BY <1>1 DEF Init, CameraStart
  <2>5. captured \in Nat /\ dropped \in Nat /\ shown \in SUBSET Buffers /\ reaped \in Nat
    BY <1>1 DEF Init, CameraStart
  <2> QED BY <2>1, <2>2, <2>3, <2>4, <2>5, <2>6 DEF TypeOK
<1>2. ASSUME TypeOK, [Next]_vars PROVE TypeOK'
  <2> USE <1>2 DEF TypeOK
  <2>1. \A n \in Nat, m \in Nat : Count(n, m) \in Nat
    BY DEF Count
  <2>2. ASSUME NEW b \in Buffers, Capture(b) PROVE TypeOK'
    BY <2>2, ElemsAppend DEF Capture, poolVars
  <2>3. CASE Unplug
    BY <2>3 DEF Unplug, poolVars, statVars
  <2>4. CASE GpuDone
    <3>1. gpu' \in Seq(Buffers \cup {NoBuffer})
      BY <2>4, ElemsTail DEF GpuDone
    <3>2. fence' \in [Buffers -> Nat \cup {NoFence}]
      BY <2>4 DEF GpuDone
    <3> QED BY <2>4, <3>1, <3>2 DEF GpuDone, driverVars, statVars
  <2>5. CASE Dequeue
    <3>1. Head(filled) \in Buffers /\ Tail(filled) \in Seq(Buffers)
      BY <2>5, ElemsTail DEF Dequeue
    <3>2. queued' \in SUBSET Buffers /\ dropped' \in Nat
      BY <2>5, <2>1 DEF Dequeue, Supersede, CameraQueue
    <3> QED BY <2>5, <2>1, <3>1, <3>2 DEF Dequeue, poolVars
  <2>6. CASE PumpDone
    <3>1. queued' \in SUBSET Buffers /\ dropped' \in Nat /\ retiring' \in SUBSET Buffers
      BY <2>6, <2>1 DEF PumpDone, Retire, CameraQueue
    <3> QED BY <2>6, <3>1 DEF PumpDone
  <2>7. CASE DrawBegin
    BY <2>7 DEF DrawBegin, driverVars, poolVars, statVars
  <2>8. CASE Reap
    <3>1. scan \in Buffers
      BY <2>8 DEF Reap
    <3>2. /\ queued' \in SUBSET Buffers /\ retiring' \in SUBSET Buffers
          /\ fence' \in [Buffers -> Nat \cup {NoFence}]
      BY <2>8, <3>1 DEF Reap, GiveBack, CameraQueue
    <3>3. syncs' \in Int /\ reaped' \in Nat
      <4>1. \A f \in Nat \cup {NoFence} : Alive(f) \in Int
        BY DEF Alive
      <4>2. fence[scan] \in Nat \cup {NoFence}
        BY <3>1
      <4>3. CASE Returnable(scan)
        <5>1. syncs' = syncs - Alive(fence[scan]) /\ reaped' = Count(reaped, 1)
          BY <2>8, <4>3 DEF Reap, GiveBack
        <5>2. Alive(fence[scan]) \in Int /\ Count(reaped, 1) \in Nat
          BY <4>1, <4>2, <2>1
        <5>3. syncs - Alive(fence[scan]) \in Int
          BY <5>2
        <5> QED BY <5>1, <5>2, <5>3
      <4>4. CASE ~Returnable(scan)
        BY <2>8, <4>4 DEF Reap
      <4> QED BY <4>3, <4>4
    <3> QED BY <2>8, <3>2, <3>3 DEF Reap
  <2>9. CASE Draw
    <3>1. ASSUME NEW b \in Buffers, NEW f \in Nat \cup {NoFence}, Rendered(b, f)
          PROVE  /\ fence' \in [Buffers -> Nat \cup {NoFence}]
                 /\ syncs' \in Int /\ shown' \in SUBSET Buffers
      BY <3>1 DEF Rendered, Alive
    <3>2. /\ gpu' \in Seq(Buffers \cup {NoBuffer})
          /\ Len(gpu') \in Nat
      <4>1. PICK e \in Buffers \cup {NoBuffer} : gpu' = gpu \/ gpu' = Append(gpu, e)
        BY <2>9 DEF Draw, DrawCpu, DrawEgl, DrawSerial, DrawStaging
      <4>2. Append(gpu, e) \in Seq(Buffers \cup {NoBuffer})
        BY <4>1, ElemsAppend
      <4>3. gpu' \in Seq(Buffers \cup {NoBuffer})
        BY <4>1, <4>2
      <4> QED BY <4>3
    <3>3. /\ fence' \in [Buffers -> Nat \cup {NoFence}]
          /\ syncs' \in Int /\ shown' \in SUBSET Buffers
      BY <2>9, <3>1, <3>2 DEF Draw, DrawCpu, DrawEgl, DrawSerial, DrawStaging
    <3>4. DrawEnd
      BY <2>9 DEF Draw, DrawCpu, DrawEgl, DrawSerial, DrawStaging
    <3>5. mapped' = mapped \/ (latest # NoBuffer /\ mapped' = mapped \cup {latest})
      BY <2>9 DEF Draw, DrawCpu, DrawEgl, DrawSerial, DrawStaging
    <3> QED BY <3>2, <3>3, <3>4, <3>5 DEF DrawEnd, driverVars
  <2>10. CASE Close
    <3>1. Cardinality({b \in Buffers : Alive(fence[b]) = 1}) \in Nat
      <4> DEFINE A == {b \in Buffers : Alive(fence[b]) = 1}
      <4>1. IsFiniteSet(Buffers)
        BY FS_Interval
      <4>2. IsFiniteSet(A)
        BY <4>1, FS_Subset
      <4> QED BY <4>2, FS_CardinalityType
    <3> QED BY <2>10, <3>1 DEF Close, CameraClose, statVars
  <2>11. CASE CrashInDraw \/ Terminated \/ UNCHANGED vars
    BY <2>11 DEF CrashInDraw, Terminated, vars, driverVars, poolVars, statVars
  <2> QED
    BY <2>2, <2>3, <2>4, <2>5, <2>6, <2>7, <2>8, <2>9, <2>10, <2>11 DEF Next, Pump
<1> QED BY <1>1, <1>2, PTL DEF Spec

------------------------------------------------------------------------------
(* One holder per buffer *)

\* Holding is inductive: whatever the order of captures, dequeues, retirements,
\* reaps, draws and closes, a buffer is with one party at a time and only the
\* latest and the retiring ones carry a fence.
LEMMA HoldingInductive ==
  ASSUME TypeOK, Holding, [Next]_vars
  PROVE  Holding'
<1> USE CamAssumption DEF NoBuffer, NoFence
<1>1. ASSUME NEW b \in Buffers, Capture(b) PROVE Holding'
  <2>1. /\ filled' = Append(filled, b) /\ queued' = queued \ {b}
        /\ UNCHANGED <<newest, latest, retiring, fence, pc, gone>>
    BY <1>1 DEF Capture, poolVars
  <2>2. /\ Len(filled') = Len(filled) + 1 /\ Len(filled) \in Nat
        /\ \A i \in 1 .. Len(filled) : filled'[i] = filled[i]
        /\ filled'[Len(filled) + 1] = b
        /\ InFilled' = InFilled \cup {b}
    BY <2>1, ElemsAppend DEF TypeOK, InFilled, Elems
  <2>3. b \in queued /\ b \notin InFilled /\ b \notin Tracked
    BY <1>1 DEF Capture, Holding
  <2>4. \A i, j \in 1 .. Len(filled') : filled'[i] = filled'[j] => i = j
    <3> SUFFICES ASSUME NEW i \in 1 .. Len(filled'), NEW j \in 1 .. Len(filled'),
                        filled'[i] = filled'[j]
                 PROVE  i = j
      OBVIOUS
    <3>1. \A k \in 1 .. Len(filled) : filled[k] # b
      BY <2>3 DEF InFilled
    <3> QED BY <2>2, <3>1 DEF Holding
  <2>5. Tracked' = Tracked
    BY <2>1 DEF Tracked, Maybe
  <2>6. pc # "closed"
    BY <2>3 DEF Holding
  <2> QED BY <2>1, <2>2, <2>3, <2>4, <2>5, <2>6 DEF Holding, DriverOwned
<1>2. CASE Unplug
  BY <1>2 DEF Unplug, poolVars, statVars, Holding, DriverOwned, InFilled, Tracked, Maybe
<1>3. CASE GpuDone
  <2>1. UNCHANGED <<queued, filled, gone, pc, newest, latest, retiring>>
    BY <1>3 DEF GpuDone, driverVars
  <2>2. \A b \in Buffers : fence'[b] # NoFence => fence[b] # NoFence
    BY <1>3 DEF GpuDone, TypeOK
  <2> QED BY <2>1, <2>2 DEF Holding, DriverOwned, InFilled, Tracked, Maybe
<1>4. CASE Dequeue
  <2>1. /\ filled # <<>> /\ filled' = Tail(filled) /\ newest' = Head(filled)
        /\ pc' = "pump" /\ ~gone /\ pc # "closed"
        /\ UNCHANGED <<latest, retiring, fence, gone>>
        /\ queued' = IF newest # NoBuffer THEN queued \cup {newest} ELSE queued
    BY <1>4 DEF Dequeue, Supersede, CameraQueue, poolVars
  <2>2. /\ Len(filled') = Len(filled) - 1 /\ Len(filled) \in Nat /\ Len(filled) >= 1
        /\ \A i \in 1 .. Len(filled) - 1 : filled'[i] = filled[i + 1]
        /\ Head(filled) = filled[1] /\ Head(filled) \in Buffers
        /\ InFilled = InFilled' \cup {Head(filled)}
    <3>1. filled \in Seq(Buffers) /\ filled # <<>>
      BY <2>1 DEF TypeOK
    <3>2. Elems(filled) = Elems(filled') \cup {Head(filled)}
      BY <2>1, <3>1, ElemsTail
    <3>3. InFilled = InFilled' \cup {Head(filled)}
      BY <3>2 DEF InFilled, Elems
    <3>4. /\ Len(filled') = Len(filled) - 1 /\ Len(filled) \in Nat /\ Len(filled) >= 1
          /\ \A i \in 1 .. Len(filled) - 1 : filled'[i] = filled[i + 1]
          /\ Head(filled) = filled[1] /\ Head(filled) \in Buffers
      BY <2>1, <3>1, ElemsTail
    <3> QED BY <3>3, <3>4
  <2>3. \A i, j \in 1 .. Len(filled') : filled'[i] = filled'[j] => i = j
    BY <2>2 DEF Holding
  <2>4. Head(filled) \notin InFilled'
    BY <2>2 DEF Holding, InFilled
  <2>5. Tracked' = {Head(filled)} \cup (Tracked \ Maybe(newest))
    BY <2>1, <2>2 DEF Tracked, Maybe, Holding, Buffers
  <2>6. Head(filled) \in InFilled /\ Head(filled) \notin Tracked /\ Head(filled) \notin queued
    BY <2>2 DEF Holding
  <2>7. Head(filled) # NoBuffer
    BY <2>2 DEF Buffers
  <2>8. newest # NoBuffer => newest \in Tracked
    BY DEF Tracked, Maybe
  <2> QED BY <2>1, <2>2, <2>3, <2>4, <2>5, <2>6, <2>7, <2>8
          DEF Holding, DriverOwned, Tracked, Maybe
<1>5. CASE PumpDone
  <2>1. /\ pc = "pump" /\ pc' = "loop"
        /\ latest' = newest /\ newest' = NoBuffer
        /\ UNCHANGED <<filled, fence, gone>> /\ InFilled' = InFilled
    BY <1>5 DEF PumpDone, InFilled
  <2>2. newest # NoBuffer /\ newest \notin retiring /\ newest # latest
    BY <2>1 DEF Holding
  <2>3. newest \in Buffers /\ newest \in Tracked
    BY <2>2 DEF TypeOK, Tracked, Maybe
  <2>4. CASE latest = NoBuffer
    <3>1. UNCHANGED <<queued, retiring>> /\ Tracked' = Tracked
      BY <1>5, <2>1, <2>4 DEF PumpDone, Tracked, Maybe
    <3> QED BY <2>1, <2>2, <2>3, <2>4, <3>1 DEF Holding, DriverOwned, Buffers
  <2>5. CASE latest # NoBuffer /\ fence[latest] # NoFence
    <3>1. queued' = queued /\ retiring' = retiring \cup {latest}
      BY <1>5, <2>5 DEF PumpDone, Retire
    <3>2. Tracked' = Tracked
      BY <2>1, <2>5, <3>1 DEF Tracked, Maybe
    <3> QED BY <2>1, <2>2, <2>3, <2>5, <3>1, <3>2 DEF Holding, DriverOwned
  <2>6. CASE latest # NoBuffer /\ fence[latest] = NoFence
    <3>1. /\ queued' = IF gone THEN queued ELSE queued \cup {latest}
          /\ retiring' = retiring
      BY <1>5, <2>6 DEF PumpDone, Retire, CameraQueue
    <3>2. Tracked' = Tracked \ {latest} /\ latest \in Tracked /\ latest \notin retiring
      BY <2>1, <2>2, <2>6, <3>1 DEF Tracked, Maybe, Holding
    <3> QED BY <2>1, <2>2, <2>3, <2>6, <3>1, <3>2 DEF Holding, DriverOwned
  <2> QED BY <2>4, <2>5, <2>6
<1>6. CASE DrawBegin
  BY <1>6 DEF DrawBegin, driverVars, poolVars, statVars, Holding, DriverOwned, InFilled,
              Tracked, Maybe
<1>7. CASE Reap
  <2>1. /\ scan \in Buffers /\ pc = "draw"
        /\ UNCHANGED <<filled, gone, pc, newest, latest>> /\ InFilled' = InFilled
    BY <1>7 DEF Reap, InFilled, TypeOK, Buffers
  <2>2. CASE Returnable(scan)
    <3>1. /\ scan \in retiring /\ retiring' = retiring \ {scan}
          /\ fence' = [fence EXCEPT ![scan] = NoFence]
          /\ queued' = IF gone THEN queued ELSE queued \cup {scan}
      BY <1>7, <2>2 DEF Reap, Returnable, GiveBack, CameraQueue
    <3>2. scan # latest /\ scan # newest
      BY <2>1, <3>1 DEF Holding, Buffers
    <3>3. Tracked' = Tracked \ {scan} /\ scan \in Tracked
      BY <2>1, <3>1, <3>2 DEF Tracked, Maybe
    <3>4. \A b \in Buffers : fence'[b] # NoFence => b # scan /\ fence[b] # NoFence
      BY <3>1 DEF TypeOK
    <3> QED BY <2>1, <3>1, <3>2, <3>3, <3>4 DEF Holding, DriverOwned
  <2>3. CASE ~Returnable(scan)
    BY <1>7, <2>1, <2>3 DEF Reap, Holding, DriverOwned, Tracked, Maybe
  <2> QED BY <2>2, <2>3
<1>8. CASE Draw
  <2>1. /\ pc = "draw" /\ pc' = "loop"
        /\ UNCHANGED <<queued, filled, gone, newest, latest, retiring>>
    BY <1>8 DEF Draw, DrawCpu, DrawEgl, DrawSerial, DrawStaging, DrawEnd, driverVars
  <2>2. \A b \in Buffers : fence'[b] # NoFence => fence[b] # NoFence \/ b = latest
    <3>1. \/ fence' = fence
          \/ \E f : latest # NoBuffer /\ fence' = [fence EXCEPT ![latest] = f]
      BY <1>8 DEF Draw, DrawCpu, DrawEgl, DrawSerial, DrawStaging, Rendered
    <3> QED BY <3>1 DEF TypeOK
  <2> QED BY <2>1, <2>2 DEF Holding, DriverOwned, InFilled, Tracked, Maybe
<1>9. CASE Close
  <2>1. /\ pc = "loop" /\ pc' = "closed" /\ queued' = {} /\ filled' = <<>>
        /\ fence' = [b \in Buffers |-> NoFence]
        /\ UNCHANGED <<newest, latest, retiring>>
    BY <1>9 DEF Close, CameraClose
  <2>2. InFilled' = {} /\ Len(filled') = 0
    BY <2>1 DEF InFilled
  <2> QED BY <2>1, <2>2 DEF Holding, DriverOwned, Tracked, Maybe
<1>10. CASE CrashInDraw \/ Terminated \/ UNCHANGED vars
  BY <1>10 DEF CrashInDraw, Terminated, vars, driverVars, poolVars, statVars, Holding, DriverOwned,
               InFilled, Tracked, Maybe
<1> QED
  BY <1>1, <1>2, <1>3, <1>4, <1>5, <1>6, <1>7, <1>8, <1>9, <1>10 DEF Next, Pump

\* Before the first frame every buffer is with the driver.
LEMMA HoldingInit ==
  ASSUME Init
  PROVE  Holding
<1>1. /\ filled = <<>> /\ queued = Buffers /\ pc = "loop" /\ retiring = {}
      /\ newest = NoBuffer /\ latest = NoBuffer
      /\ \A b \in Buffers : fence[b] = NoFence
  BY DEF Init, CameraStart
<1>2. Len(filled) = 0 /\ InFilled = {}
  BY <1>1 DEF InFilled
<1>3. Tracked = {} /\ DriverOwned = Buffers
  BY <1>1, <1>2 DEF Tracked, Maybe, DriverOwned
<1> QED BY <1>1, <1>2, <1>3 DEF Holding

\* The invariant everything below stands on.
LEMMA HoldingInvariant == Spec => [](TypeOK /\ Holding)
<1>1. Spec => []TypeOK
  BY TypeCorrect
<1> QED BY <1>1, HoldingInit, HoldingInductive, PTL DEF Spec

\* No buffer is ever with two parties, or with none while the device is there:
\* pump, retire and reap hand each one over exactly once.
THEOREM OneHolderAlways == Spec => []OneHolder
<1>1. ASSUME TypeOK, Holding PROVE OneHolder
  <2> SUFFICES ASSUME pc # "closed" PROVE
        /\ \A i, j \in 1 .. Len(filled) : filled[i] = filled[j] => i = j
        /\ queued \cap InFilled = {}
        /\ DriverOwned \cap Tracked = {}
        /\ newest # NoBuffer => newest # latest /\ newest \notin retiring
        /\ latest \notin retiring
        /\ gone \/ DriverOwned \cup Tracked = Buffers
    BY DEF OneHolder
  <2>1. DriverOwned \cup Tracked \subseteq Buffers
    BY <1>1 DEF TypeOK, DriverOwned, InFilled, Tracked, Maybe
  <2> QED BY <1>1, <2>1 DEF Holding, DriverOwned
<1> QED BY <1>1, HoldingInvariant, PTL

\* A buffer never carries the fence of an earlier frame to the driver, nor back
\* from it: cam_stream_reap and the NULL test of retire see this frame's reads.
THEOREM NoStaleFenceAlways == Spec => []NoStaleFence
<1>1. ASSUME TypeOK, Holding PROVE NoStaleFence
  <2> SUFFICES ASSUME NEW b \in DriverOwned \cup Maybe(newest) PROVE fence[b] = NoFence
    BY DEF NoStaleFence
  <2>1. b \in Buffers
    BY <1>1 DEF TypeOK, DriverOwned, InFilled, Maybe
  <2>2. b # latest /\ b \notin retiring
    <3>1. CASE b \in DriverOwned
      <4>1. b \notin Tracked
        BY <1>1, <3>1 DEF Holding, DriverOwned
      <4> QED BY <4>1, <2>1 DEF Tracked, Maybe, Buffers, NoBuffer
    <3>2. CASE b \in Maybe(newest)
      BY <1>1, <3>2 DEF Holding, Maybe
    <3> QED BY <3>1, <3>2
  <2> QED BY <1>1, <2>1, <2>2 DEF Holding
<1> QED BY <1>1, HoldingInvariant, PTL

------------------------------------------------------------------------------
(* No scribbling *)

\* Reads, in terms of the sequence of unfinished frames.
LEMMA ReadHasFence ==
  ASSUME TypeOK, Holding, Fencing, pc # "closed", NEW b \in Buffers, Reads(b)
  PROVE  fence[b] > 0 /\ (b = latest \/ b \in retiring)
<1> USE CamAssumption DEF NoBuffer, NoFence, Buffers
<1>1. PICK i \in 1 .. Len(gpu) : gpu[i] = b
  BY DEF Reads
<1>2. fence[b] >= i /\ i \in Nat /\ i >= 1 /\ fence[b] \in Nat \cup {NoFence}
  BY <1>1 DEF Fencing, TypeOK
<1> QED BY <1>2 DEF Holding

\* Fencing is inductive as long as every EGLSync is created: a finished frame
\* moves every fence and every read one place nearer, a draw fences its buffer
\* behind all the reads there are, and only a signaled fence is ever removed.
LEMMA FencingInductive ==
  ASSUME TypeOK, Holding, Fencing, [Next]_vars, SyncMayFail = FALSE
  PROVE  Fencing'
<1> USE CamAssumption DEF NoBuffer, NoFence
<1>1. ASSUME UNCHANGED <<backend, gpu, fence>>, pc' = "closed" \/ pc # "closed"
      PROVE  Fencing'
  BY <1>1 DEF Fencing
<1>2. CASE \/ \E b \in Buffers : Capture(b)
           \/ Unplug \/ Dequeue \/ PumpDone \/ DrawBegin \/ CrashInDraw \/ Terminated \/ UNCHANGED vars
  <2>1. UNCHANGED <<backend, gpu, fence>>
    BY <1>2 DEF Capture, Unplug, Dequeue, PumpDone, DrawBegin, CrashInDraw, Terminated, vars, poolVars
  <2>2. pc' = pc \/ pc # "closed"
    BY <1>2 DEF Capture, Unplug, Dequeue, PumpDone, DrawBegin, CrashInDraw, Terminated, vars
  <2> QED BY <2>1, <2>2, <1>1
<1>3. CASE GpuDone
  <2>1. /\ gpu # <<>> /\ gpu' = Tail(gpu) /\ UNCHANGED <<backend, pc>>
        /\ fence' = [b \in Buffers |-> IF fence[b] > 0 THEN fence[b] - 1 ELSE fence[b]]
    BY <1>3 DEF GpuDone
  <2>2. /\ gpu \in Seq(Buffers \cup {NoBuffer})
        /\ Len(gpu) \in Nat /\ Len(gpu') = Len(gpu) - 1
        /\ \A i \in 1 .. Len(gpu) - 1 : gpu'[i] = gpu[i + 1]
    BY <2>1, ElemsTail DEF TypeOK
  <2>3. ASSUME pc # "closed", NEW i \in 1 .. Len(gpu'), gpu'[i] # NoBuffer
        PROVE  fence'[gpu'[i]] >= i
    <3>1. i + 1 \in 1 .. Len(gpu) /\ gpu'[i] = gpu[i + 1]
      BY <2>2
    <3>2. gpu[i + 1] \in Buffers
      BY <2>2, <2>3, <3>1
    <3>3. fence[gpu[i + 1]] >= i + 1
      BY <2>3, <3>1 DEF Fencing
    <3>4. fence[gpu[i + 1]] \in Nat \cup {NoFence}
      BY <3>2 DEF TypeOK
    <3>5. fence'[gpu[i + 1]] = fence[gpu[i + 1]] - 1
      BY <2>1, <3>2, <3>3, <3>4
    <3> QED BY <3>1, <3>3, <3>4, <3>5
  <2>4. backend # "cpu"
    BY <2>1 DEF Fencing
  <2> QED BY <2>1, <2>3, <2>4 DEF Fencing
<1>4. CASE Reap
  <2>1. scan \in Buffers /\ pc = "draw" /\ UNCHANGED <<backend, gpu, pc>>
    BY <1>4 DEF Reap, TypeOK, Buffers
  <2>2. CASE Returnable(scan)
    <3>1. fence' = [fence EXCEPT ![scan] = NoFence]
      BY <1>4, <2>2 DEF Reap, GiveBack
    <3>2. ~Reads(scan)
      BY <2>1, <2>2, ReadHasFence DEF Returnable, Signaled
    <3>3. ASSUME NEW i \in 1 .. Len(gpu), gpu[i] # NoBuffer
          PROVE  fence'[gpu[i]] = fence[gpu[i]]
      <4>1. gpu[i] \in Buffers /\ gpu[i] # scan
        BY <3>2, <3>3 DEF Reads, TypeOK
      <4> QED BY <3>1, <4>1 DEF TypeOK
    <3> QED BY <2>1, <3>3 DEF Fencing
  <2>3. CASE ~Returnable(scan)
    BY <1>4, <2>1, <2>3 DEF Reap, Fencing
  <2> QED BY <2>2, <2>3
<1>5. CASE DrawCpu
  <2>1. gpu' = gpu /\ backend = "cpu" /\ backend' = backend
    BY <1>5 DEF DrawCpu, DrawEnd
  <2>2. Len(gpu') = 0
    BY <2>1 DEF Fencing
  <2> QED BY <2>1, <2>2 DEF Fencing
<1>6. CASE DrawEgl \/ DrawSerial \/ DrawStaging
  <2>1. PICK e \in {latest, NoBuffer} :
          /\ gpu' = Append(gpu, e)
          /\ \/ e = NoBuffer /\ fence' = fence
             \/ latest # NoBuffer /\ fence' = [fence EXCEPT ![latest] = Len(gpu')]
    BY <1>6 DEF DrawEgl, DrawSerial, DrawStaging, Rendered
  <2>2. backend' = backend /\ backend # "cpu" /\ pc = "draw"
    BY <1>6 DEF DrawEgl, DrawSerial, DrawStaging, DrawEnd
  <2>3. /\ gpu \in Seq(Buffers \cup {NoBuffer}) /\ e \in Buffers \cup {NoBuffer}
        /\ Len(gpu) \in Nat /\ Len(gpu') = Len(gpu) + 1
        /\ \A i \in 1 .. Len(gpu) : gpu'[i] = gpu[i]
        /\ gpu'[Len(gpu) + 1] = e
    BY <2>1, ElemsAppend DEF TypeOK
  <2>4. ASSUME NEW i \in 1 .. Len(gpu'), gpu'[i] # NoBuffer
        PROVE  fence'[gpu'[i]] >= i
    <3>1. gpu'[i] \in Buffers
      BY <2>3, <2>4 DEF TypeOK
    <3>2. CASE i \in 1 .. Len(gpu)
      <4>1. fence[gpu[i]] >= i /\ gpu'[i] = gpu[i]
        BY <2>2, <2>3, <2>4, <3>2 DEF Fencing
      <4>2. fence'[gpu[i]] = fence[gpu[i]] \/ fence'[gpu[i]] = Len(gpu')
        BY <2>1, <3>1, <4>1 DEF TypeOK
      <4> QED BY <4>1, <4>2, <2>3
    <3>3. CASE i = Len(gpu) + 1
      <4>1. gpu'[i] = latest /\ latest # NoBuffer
        BY <2>1, <2>3, <2>4, <3>3
      <4>2. fence' = [fence EXCEPT ![latest] = Len(gpu')]
        BY <2>1, <2>3, <2>4, <3>3
      <4>3. fence'[latest] = Len(gpu')
        BY <4>1, <4>2, <3>1 DEF TypeOK
      <4> QED BY <4>1, <4>3, <3>3, <2>3
    <3> QED BY <3>2, <3>3, <2>3
  <2> QED BY <2>2, <2>4 DEF Fencing
<1>7. CASE Close
  BY <1>7 DEF Close, CameraClose, Fencing
<1> QED
  BY <1>2, <1>3, <1>4, <1>5, <1>6, <1>7 DEF Next, Pump, Draw

\* Before the first frame nothing is being read.
LEMMA FencingInit ==
  ASSUME Init
  PROVE  Fencing
<1>1. gpu = <<>> /\ Len(gpu) = 0
  BY DEF Init, CameraStart
<1> QED BY <1>1 DEF Fencing

\* The three inductive invariants together.
LEMMA FencingInvariant ==
  ASSUME SyncMayFail = FALSE
  PROVE  Spec => [](TypeOK /\ Holding /\ Fencing)
<1>1. ASSUME TypeOK, Holding, Fencing, [Next]_vars PROVE Fencing'
  BY <1>1, FencingInductive
<1> QED BY <1>1, FencingInit, HoldingInvariant, PTL DEF Spec

\* As long as eglCreateSync does not fail, no buffer is with the driver while a
\* submitted frame still reads it: the ISP never writes over a texture in use.
\* (Where it fails the draw counts as unfenced, and its buffer goes back at once.)
THEOREM NoScribbleAlways ==
  ASSUME SyncMayFail = FALSE
  PROVE  Spec => []NoScribble
<1>1. ASSUME TypeOK, Holding, Fencing PROVE NoScribble
  <2> SUFFICES ASSUME NEW b \in DriverOwned, Reads(b) PROVE FALSE
    BY DEF NoScribble
  <2>1. b \in Buffers
    BY <1>1 DEF TypeOK, DriverOwned, InFilled
  <2>2. pc # "closed"
    BY <1>1 DEF Holding, DriverOwned, InFilled
  <2>3. b = latest \/ b \in retiring
    BY <1>1, <2>1, <2>2, ReadHasFence
  <2>4. b \in Tracked
    BY <2>1, <2>3 DEF Tracked, Maybe, Buffers, NoBuffer
  <2> QED BY <1>1, <2>4 DEF Holding, DriverOwned
<1> QED BY <1>1, FencingInvariant, PTL

------------------------------------------------------------------------------
(* The stream implements the lease *)

\* Every step of the stream is a step of the lease or leaves it unchanged:
\* what pump and reap hand back is on loan and read by no frame in flight.
LEMMA LeaseStep ==
  ASSUME TypeOK, Holding, Fencing, [Next]_vars
  PROVE  Lease!LeaseNext \/ UNCHANGED Lease!leaseVars
<1> USE CamAssumption DEF NoBuffer, NoFence
<1> DEFINE R == {b \in Buffers : Reads(b)}
<1>1. Lease!OnLoan = Buffers \ DriverOwned
  BY DEF Lease!OnLoan, Lease!InReady, DriverOwned, InFilled
\* a buffer the application accounts for that carries no running fence
<1>2. ASSUME NEW b \in Tracked, fence[b] = NoFence \/ fence[b] = 0, pc # "closed"
      PROVE  b \in Buffers /\ {b} \subseteq Lease!OnLoan \ R
  <2>1. b \in Buffers
    BY DEF TypeOK, Tracked, Maybe
  <2>2. b \notin DriverOwned
    BY DEF Holding, DriverOwned
  <2>3. ~Reads(b)
    BY <1>2, <2>1, ReadHasFence
  <2> QED BY <1>1, <2>1, <2>2, <2>3
<1>3. ASSUME UNCHANGED gpu PROVE UNCHANGED R
  BY <1>3 DEF Reads
<1>4. ASSUME NEW b \in Buffers, Capture(b) PROVE Lease!LeaseNext
  <2>1. Lease!Fill(b)
    BY <1>3, <1>4 DEF Capture, Lease!Fill
  <2> QED BY <2>1 DEF Lease!LeaseNext
<1>5. CASE Unplug \/ DrawBegin \/ CrashInDraw \/ Terminated \/ UNCHANGED vars
  <2>1. UNCHANGED <<queued, filled, gpu>>
    BY <1>5 DEF Unplug, DrawBegin, CrashInDraw, Terminated, vars, driverVars
  <2> QED BY <1>3, <2>1 DEF Lease!leaseVars
<1>6. CASE GpuDone
  <2>1. /\ gpu # <<>> /\ gpu' = Tail(gpu) /\ UNCHANGED <<queued, filled>>
    BY <1>6 DEF GpuDone, driverVars
  <2>2. /\ Elems(gpu) = Elems(gpu') \cup {Head(gpu)}
        /\ Head(gpu) \in Buffers \cup {NoBuffer}
    BY <2>1, ElemsTail DEF TypeOK
  <2>3. R = Buffers \cap Elems(gpu) /\ R' = Buffers \cap Elems(gpu')
    BY DEF Reads, Elems
  <2>4. R' = R \/ (Head(gpu) \in Buffers /\ R' = R \ {Head(gpu)})
    BY <2>2, <2>3
  <2>5. CASE R' = R
    BY <2>1, <2>5 DEF Lease!leaseVars
  <2>6. CASE Head(gpu) \in Buffers /\ R' = R \ {Head(gpu)}
    <3>1. Lease!StopReading(Head(gpu))
      BY <2>1, <2>6 DEF Lease!StopReading
    <3> QED BY <2>6, <3>1 DEF Lease!LeaseNext
  <2> QED BY <2>4, <2>5, <2>6
<1>7. CASE Dequeue
  <2>1. /\ filled # <<>> /\ filled' = Tail(filled) /\ UNCHANGED gpu /\ pc # "closed"
        /\ queued' = IF newest # NoBuffer THEN queued \cup {newest} ELSE queued
    BY <1>7 DEF Dequeue, Supersede, CameraQueue
  <2>2. CASE newest = NoBuffer
    <3>1. Lease!Take({})
      BY <1>3, <2>1, <2>2 DEF Lease!Take
    <3> QED BY <3>1 DEF Lease!LeaseNext
  <2>3. CASE newest # NoBuffer
    <3>1. newest \in Tracked /\ newest \in Buffers
      BY <2>3 DEF Tracked, Maybe, TypeOK
    <3>2. fence[newest] = NoFence
      BY <2>3, <3>1 DEF Holding
    <3>3. {newest} \subseteq Lease!OnLoan \ R
      BY <1>2, <2>1, <3>1, <3>2
    <3>4. Lease!Take({newest})
      BY <1>3, <2>1, <2>3, <3>3 DEF Lease!Take
    <3> QED BY <3>1, <3>4 DEF Lease!LeaseNext
  <2> QED BY <2>2, <2>3
<1>8. CASE PumpDone
  <2>1. UNCHANGED <<filled, gpu>> /\ pc = "pump"
    BY <1>8 DEF PumpDone
  <2>2. CASE latest # NoBuffer /\ fence[latest] = NoFence /\ ~gone
    <3>1. queued' = queued \cup {latest}
      BY <1>8, <2>2 DEF PumpDone, Retire, CameraQueue
    <3>2. latest \in Tracked /\ latest \in Buffers
      BY <2>2 DEF Tracked, Maybe, TypeOK
    <3>3. {latest} \subseteq Lease!OnLoan \ R
      BY <1>2, <2>1, <2>2, <3>2
    <3>4. Lease!Return({latest})
      BY <1>3, <2>1, <3>1, <3>3 DEF Lease!Return
    <3> QED BY <3>2, <3>4 DEF Lease!LeaseNext
  <2>3. CASE ~(latest # NoBuffer /\ fence[latest] = NoFence /\ ~gone)
    <3>1. queued' = queued
      BY <1>8, <2>3 DEF PumpDone, Retire, CameraQueue
    <3> QED BY <1>3, <2>1, <3>1 DEF Lease!leaseVars
  <2> QED BY <2>2, <2>3
<1>9. CASE Reap
  <2>1. UNCHANGED <<filled, gpu>> /\ pc = "draw"
    BY <1>9 DEF Reap
  <2>2. CASE Returnable(scan) /\ ~gone
    <3>1. queued' = queued \cup {scan}
      BY <1>9, <2>2 DEF Reap, GiveBack, CameraQueue
    <3>2. scan \in Tracked
      BY <2>2 DEF Returnable, Tracked
    <3>3. scan \in Buffers /\ {scan} \subseteq Lease!OnLoan \ R
      BY <1>2, <2>1, <2>2, <3>2 DEF Returnable, Signaled
    <3>4. Lease!Return({scan})
      BY <1>3, <2>1, <3>1, <3>3 DEF Lease!Return
    <3> QED BY <3>3, <3>4 DEF Lease!LeaseNext
  <2>3. CASE ~(Returnable(scan) /\ ~gone)
    <3>1. queued' = queued
      BY <1>9, <2>3 DEF Reap, GiveBack, CameraQueue
    <3> QED BY <1>3, <2>1, <3>1 DEF Lease!leaseVars
  <2> QED BY <2>2, <2>3
<1>10. CASE Draw
  <2>1. UNCHANGED <<queued, filled>>
    BY <1>10 DEF Draw, DrawCpu, DrawEgl, DrawSerial, DrawStaging, DrawEnd, driverVars
  <2>2. PICK e \in {latest, NoBuffer} : gpu' = gpu \/ gpu' = Append(gpu, e)
    BY <1>10 DEF Draw, DrawCpu, DrawEgl, DrawSerial, DrawStaging
  <2>3. gpu \in Seq(Buffers \cup {NoBuffer}) /\ e \in Buffers \cup {NoBuffer}
    BY <2>2 DEF TypeOK
  <2>4. R = Buffers \cap Elems(gpu) /\ R' = Buffers \cap Elems(gpu')
    BY DEF Reads, Elems
  <2>5. CASE gpu' = gpu
    BY <1>3, <2>1, <2>5 DEF Lease!leaseVars
  <2>6. CASE gpu' = Append(gpu, e)
    <3>1. Elems(gpu') = Elems(gpu) \cup {e}
      BY <2>3, <2>6, ElemsAppend
    <3>2. CASE e = NoBuffer
      <4>1. R' = R
        BY <2>4, <3>1, <3>2 DEF Buffers
      <4> QED BY <2>1, <4>1 DEF Lease!leaseVars
    <3>3. CASE e # NoBuffer
      <4>1. e \in Buffers /\ e \in Tracked
        BY <2>2, <2>3, <3>3 DEF Tracked, Maybe
      <4>2. e \in Lease!OnLoan
        BY <1>1, <4>1 DEF Holding, DriverOwned
      <4>3. R' = R \cup {e}
        BY <2>4, <3>1, <4>1
      <4>4. Lease!StartReading(e)
        BY <2>1, <4>2, <4>3 DEF Lease!StartReading
      <4> QED BY <4>1, <4>4 DEF Lease!LeaseNext
    <3> QED BY <3>2, <3>3
  <2> QED BY <2>2, <2>5, <2>6
<1>11. CASE Close
  <2>1. queued' = {} /\ filled' = <<>> /\ UNCHANGED gpu
    BY <1>11 DEF Close, CameraClose
  <2>2. Lease!Stop
    BY <1>3, <2>1 DEF Lease!Stop
  <2> QED BY <2>2 DEF Lease!LeaseNext
<1> QED
  BY <1>4, <1>5, <1>6, <1>7, <1>8, <1>9, <1>10, <1>11 DEF Next, Pump

\* cam_stream.c and v4l2_camera.c keep the camera layer's promise: a buffer is
\* lent, read while on loan, and handed back only when nothing reads it.
THEOREM ImplementsLeaseAlways ==
  ASSUME SyncMayFail = FALSE
  PROVE  Spec => ImplementsLease
<1>1. ASSUME Init PROVE Lease!LeaseInit
  <2>1. gpu = <<>> /\ Len(gpu) = 0 /\ queued = Buffers /\ filled = <<>>
    BY <1>1 DEF Init, CameraStart
  <2> QED BY <2>1 DEF Lease!LeaseInit, Reads
<1>2. ASSUME TypeOK, Holding, Fencing, [Next]_vars
      PROVE  [Lease!LeaseNext]_(Lease!leaseVars)
  BY <1>2, LeaseStep
<1> QED
  BY <1>1, <1>2, FencingInvariant, PTL DEF Spec, ImplementsLease, Lease!LeaseSpec

------------------------------------------------------------------------------
(* The statistics *)

\* Counting one more changes a counter, also where it wraps.
LEMMA CountChanges ==
  ASSUME NEW n \in Nat
  PROVE  Count(n, 1) # n
<1> USE CamAssumption
<1>1. (n + 1) % StatMod \in 0 .. StatMod - 1
  OBVIOUS
<1>2. CASE n >= StatMod
  BY <1>1, <1>2 DEF Count
<1>3. CASE n = StatMod - 1
  BY <1>3 DEF Count
<1>4. CASE n < StatMod - 1
  <2>1. (n + 1) % StatMod = n + 1
    BY <1>4
  <2> QED BY <2>1 DEF Count
<1> QED BY <1>2, <1>3, <1>4

\* Before the first frame nothing is held.
LEMMA MarkingInit ==
  ASSUME Init
  PROVE  Marking
<1>1. Tracked = {} /\ InFilled = {} /\ retiring = {}
  BY DEF Init, CameraStart, Tracked, Maybe, InFilled
<1> QED BY <1>1 DEF Marking

\* Marking is inductive for the scenes whose draws are fenced: capturing clears
\* both sides, a draw sets both, the GPU keeps a fence a fence.
LEMMA MarkingInductive ==
  ASSUME TypeOK, Holding, Marking, [Next]_vars, backend # "cpu", SyncMayFail = FALSE
  PROVE  Marking'
<1> USE CamAssumption DEF NoBuffer, NoFence
<1>1. ASSUME NEW b \in Buffers, Capture(b) PROVE Marking'
  <2>1. /\ filled' = Append(filled, b) /\ shown' = shown \ {b} /\ b \in queued
        /\ UNCHANGED <<newest, latest, retiring, fence, pc>>
    BY <1>1 DEF Capture, poolVars
  <2>2. InFilled' = InFilled \cup {b}
    BY <2>1, ElemsAppend DEF TypeOK, InFilled, Elems
  <2>3. Tracked' = Tracked /\ b \notin Tracked
    BY <2>1 DEF Tracked, Maybe, Holding
  <2>4. fence[b] = NoFence
    BY <2>1, <2>3 DEF Holding, Tracked, Maybe, Buffers
  <2> QED BY <2>1, <2>2, <2>3, <2>4 DEF Marking
<1>2. CASE Unplug \/ DrawBegin \/ CrashInDraw \/ Terminated \/ UNCHANGED vars
  <2>1. UNCHANGED <<newest, latest, retiring, filled, shown, fence>>
    BY <1>2 DEF Unplug, DrawBegin, CrashInDraw, Terminated, vars, driverVars, poolVars, statVars
  <2>2. pc' = "closed" => pc = "closed"
    BY <1>2 DEF Unplug, DrawBegin, CrashInDraw, Terminated, vars
  <2>3. pc = "closed" => pc' = "closed"
    BY <1>2 DEF Unplug, DrawBegin, CrashInDraw, Terminated, vars
  <2> QED BY <2>1, <2>2, <2>3 DEF Marking, Tracked, Maybe, InFilled
<1>3. CASE GpuDone
  <2>1. /\ UNCHANGED <<newest, latest, retiring, filled, shown, pc>>
        /\ fence' = [b \in Buffers |-> IF fence[b] > 0 THEN fence[b] - 1 ELSE fence[b]]
    BY <1>3 DEF GpuDone, driverVars, statVars
  <2>2. Tracked' = Tracked /\ InFilled' = InFilled
    BY <2>1 DEF Tracked, Maybe, InFilled
  <2>3. Tracked \cup InFilled \subseteq Buffers
    BY DEF TypeOK, Tracked, Maybe, InFilled
  <2>4. \A b \in Buffers : fence'[b] = NoFence <=> fence[b] = NoFence
    BY <2>1 DEF TypeOK
  <2> QED BY <2>1, <2>2, <2>3, <2>4 DEF Marking, Tracked
<1>4. CASE Dequeue
  <2>1. /\ filled # <<>> /\ filled' = Tail(filled) /\ newest' = Head(filled)
        /\ pc # "closed" /\ UNCHANGED <<latest, retiring, fence, shown>>
    BY <1>4 DEF Dequeue, poolVars
  <2>2. InFilled = InFilled' \cup {Head(filled)}
    <3>1. Elems(filled) = Elems(filled') \cup {Head(filled)}
      BY <2>1, ElemsTail DEF TypeOK
    <3> QED BY <3>1 DEF InFilled, Elems
  <2>3. Tracked' \cup InFilled' \subseteq Tracked \cup InFilled
    BY <2>1, <2>2 DEF Tracked, Maybe
  <2> QED BY <2>1, <2>3 DEF Marking
<1>5. CASE PumpDone
  <2>1. /\ pc = "pump" /\ latest' = newest /\ newest' = NoBuffer
        /\ UNCHANGED <<filled, fence, shown>> /\ InFilled' = InFilled
    BY <1>5 DEF PumpDone, InFilled
  <2>2. retiring' \subseteq retiring \cup Maybe(latest)
    BY <1>5 DEF PumpDone, Retire, Maybe
  <2>3. Tracked' \subseteq Tracked
    BY <2>1, <2>2 DEF Tracked, Maybe
  <2>4. \A b \in retiring' \ retiring : fence[b] # NoFence
    BY <1>5 DEF PumpDone, Retire
  <2> QED BY <2>1, <2>3, <2>4 DEF Marking
<1>6. CASE Reap
  <2>1. /\ scan \in Buffers /\ pc = "draw"
        /\ UNCHANGED <<filled, newest, latest, shown>> /\ InFilled' = InFilled
    BY <1>6 DEF Reap, InFilled, TypeOK, Buffers
  <2>2. CASE Returnable(scan)
    <3>1. /\ scan \in retiring /\ retiring' = retiring \ {scan}
          /\ fence' = [fence EXCEPT ![scan] = NoFence]
      BY <1>6, <2>2 DEF Reap, Returnable, GiveBack
    <3>2. scan \notin Tracked' /\ scan \notin InFilled /\ Tracked' \subseteq Tracked
      BY <2>1, <3>1 DEF Holding, Tracked, Maybe
    <3>3. Tracked \cup InFilled \subseteq Buffers
      BY DEF TypeOK, Tracked, Maybe, InFilled
    <3>4. \A b \in Buffers \ {scan} : fence'[b] = fence[b]
      BY <3>1 DEF TypeOK
    <3>5. \A b \in retiring' : b \in retiring /\ b \in Buffers \ {scan}
      BY <3>1 DEF TypeOK
    <3> QED BY <2>1, <3>2, <3>3, <3>4, <3>5 DEF Marking
  <2>3. CASE ~Returnable(scan)
    BY <1>6, <2>1, <2>3 DEF Reap, Marking, Tracked, Maybe
  <2> QED BY <2>2, <2>3
<1>7. CASE Draw
  <2>1. /\ pc = "draw" /\ UNCHANGED <<filled, newest, latest, retiring>>
    BY <1>7 DEF Draw, DrawCpu, DrawEgl, DrawSerial, DrawStaging, DrawEnd, driverVars
  <2>2. Tracked' = Tracked /\ InFilled' = InFilled
    BY <2>1 DEF Tracked, Maybe, InFilled
  <2>3. CASE UNCHANGED <<fence, shown>>
    BY <2>1, <2>2, <2>3 DEF Marking
  <2>4. CASE latest # NoBuffer /\ Rendered(latest, Len(gpu'))
    <3>1. latest \in Buffers /\ shown' = shown \cup {latest}
          /\ fence' = [fence EXCEPT ![latest] = Len(gpu')]
      BY <2>4 DEF TypeOK, Rendered
    <3>2. Len(gpu') # NoFence
      <4>1. PICK e \in Buffers \cup {NoBuffer} : gpu' = gpu \/ gpu' = Append(gpu, e)
        BY <1>7 DEF Draw, DrawCpu, DrawEgl, DrawSerial, DrawStaging, TypeOK
      <4>2. gpu' \in Seq(Buffers \cup {NoBuffer})
        BY <4>1, ElemsAppend DEF TypeOK
      <4> QED BY <4>2
    <3>3. fence'[latest] # NoFence /\ \A b \in Buffers \ {latest} : fence'[b] = fence[b]
      BY <3>1, <3>2 DEF TypeOK
    <3>4. Tracked \cup InFilled \subseteq Buffers
      BY DEF TypeOK, Tracked, Maybe, InFilled
    <3> QED BY <2>1, <2>2, <3>1, <3>3, <3>4 DEF Marking
  <2> QED BY <1>7, <2>3, <2>4 DEF Draw, DrawCpu, DrawEgl, DrawSerial, DrawStaging
<1>8. CASE Close
  BY <1>8 DEF Close, CameraClose, Marking
<1> QED
  BY <1>1, <1>2, <1>3, <1>4, <1>5, <1>6, <1>7, <1>8 DEF Next, Pump

\* In the scenes whose draws are fenced, the count printed as "dropped (never
\* rendered)" is right: it grows exactly when a frame goes back undrawn.
\* (In the CPU scene no draw is fenced, and a frame it has shown counts as dropped.)
THEOREM DroppedNeverShownAlways ==
  ASSUME "cpu" \notin Backends, SyncMayFail = FALSE
  PROVE  Spec => DroppedNeverShown
<1> USE CamAssumption DEF NoBuffer, NoFence
<1> DEFINE Step == \A b \in queued' \ queued : b \in shown <=> dropped' = dropped
<1> DEFINE NotCpu == backend # "cpu"
<1>1. Init => NotCpu
  BY DEF Init, CameraStart
<1>2. NotCpu /\ [Next]_vars => NotCpu'
  <2>1. [Next]_vars => backend' = backend
    BY DEF Next, Capture, Unplug, GpuDone, Pump, Dequeue, PumpDone, DrawBegin, Reap, Draw,
           DrawCpu, DrawEgl, DrawSerial, DrawStaging, DrawEnd, Close, CameraClose,
           CrashInDraw, Terminated, vars
  <2> QED BY <2>1
<1>3. TypeOK /\ Holding /\ Marking /\ NotCpu /\ [Next]_vars => Marking'
  BY MarkingInductive
<1>4. ASSUME TypeOK, Holding, Marking, [Next]_vars PROVE Step
  <2> SUFFICES ASSUME NEW b \in queued', b \notin queued
               PROVE  b \in shown <=> dropped' = dropped
    OBVIOUS
  <2> USE <1>4
  <2>1. \/ Dequeue /\ newest # NoBuffer
        \/ PumpDone /\ latest # NoBuffer /\ fence[latest] = NoFence
        \/ Reap /\ Returnable(scan)
    <3>1. ~(UNCHANGED queued) /\ queued' # {} /\ ~(queued' \subseteq queued)
      OBVIOUS
    <3> QED
      BY <3>1 DEF Next, Capture, Unplug, GpuDone, Pump, Dequeue, PumpDone, Retire, DrawBegin,
         Reap, Draw, DrawCpu, DrawEgl, DrawSerial, DrawStaging, DrawEnd, Close, CameraClose,
         CrashInDraw, Terminated, vars, driverVars
  <2>2. CASE Dequeue /\ newest # NoBuffer
    <3>1. b = newest /\ dropped' = Count(dropped, 1) /\ pc # "closed"
      BY <2>2 DEF Dequeue, Supersede, CameraQueue
    <3>2. b \in Tracked /\ b \in Buffers /\ fence[b] = NoFence
      BY <2>2, <3>1 DEF Tracked, Maybe, TypeOK, Holding
    <3> QED BY <3>1, <3>2, CountChanges DEF Marking, TypeOK
  <2>3. CASE PumpDone /\ latest # NoBuffer /\ fence[latest] = NoFence
    <3>1. b = latest /\ dropped' = Count(dropped, 1) /\ pc # "closed"
      BY <2>3 DEF PumpDone, Retire, CameraQueue
    <3>2. b \in Tracked
      BY <2>3, <3>1 DEF Tracked, Maybe
    <3> QED BY <2>3, <3>1, <3>2, CountChanges DEF Marking, TypeOK
  <2>4. CASE Reap /\ Returnable(scan)
    <3>1. b = scan /\ dropped' = dropped /\ pc # "closed"
      BY <2>4 DEF Reap, GiveBack, CameraQueue
    <3>2. b \in retiring /\ b \in Tracked
      BY <2>4, <3>1 DEF Returnable, Tracked
    <3> QED BY <2>4, <3>1, <3>2 DEF Marking
  <2> QED BY <2>1, <2>2, <2>3, <2>4
<1>5. TypeOK /\ Holding /\ Marking /\ [Next]_vars => [Step]_vars
  BY <1>4
<1> QED
  BY <1>1, <1>2, <1>3, <1>5, MarkingInit, HoldingInvariant, PTL DEF Spec, DroppedNeverShown

------------------------------------------------------------------------------
(* Sync objects *)

Living(f) == {b \in Buffers : Alive(f[b]) = 1}

\* Any table of fences has a number of living ones.
LEMMA LivingCount == ASSUME NEW f PROVE IsFiniteSet(Living(f)) /\ Cardinality(Living(f)) \in Nat
<1>1. IsFiniteSet(Buffers)
  BY CamAssumption, FS_Interval DEF Buffers
<1>2. Living(f) \in SUBSET Buffers
  BY DEF Living
<1>3. IsFiniteSet(Living(f))
  BY <1>1, <1>2, FS_Subset
<1> QED BY <1>3, FS_CardinalityType

\* Replacing one fence changes the number by what it replaces and what it brings.
LEMMA LivingExchange ==
  ASSUME NEW f, f = [c \in Buffers |-> f[c]], NEW b \in Buffers, NEW v
  PROVE  Cardinality(Living([f EXCEPT ![b] = v]))
           = Cardinality(Living(f)) - Alive(f[b]) + Alive(v)
<1> DEFINE g == [f EXCEPT ![b] = v]
<1>1. g[b] = v /\ (\A c \in Buffers : c # b => g[c] = f[c])
  OBVIOUS
<1>2. \A x : Alive(x) \in {0, 1}
  BY DEF Alive
<1>3. Cardinality(Living(f)) \in Nat /\ IsFiniteSet(Living(f))
  BY LivingCount
<1>4. CASE Alive(v) = 0
  <2>1. Living(g) = Living(f) \ {b}
    BY <1>1, <1>4 DEF Living
  <2>2. Cardinality(Living(g)) =
          IF b \in Living(f) THEN Cardinality(Living(f)) - 1 ELSE Cardinality(Living(f))
    BY <1>3, <2>1, FS_RemoveElement
  <2>3. IF b \in Living(f) THEN Alive(f[b]) = 1 ELSE Alive(f[b]) = 0
    BY <1>2 DEF Living
  <2> QED BY <1>3, <1>4, <2>2, <2>3
<1>5. CASE Alive(v) = 1
  <2>1. Living(g) = Living(f) \cup {b}
    BY <1>1, <1>5 DEF Living
  <2>2. Cardinality(Living(g)) =
          IF b \in Living(f) THEN Cardinality(Living(f)) ELSE Cardinality(Living(f)) + 1
    BY <1>3, <2>1, FS_AddElement
  <2>3. IF b \in Living(f) THEN Alive(f[b]) = 1 ELSE Alive(f[b]) = 0
    BY <1>2 DEF Living
  <2> QED BY <1>3, <1>5, <2>2, <2>3
<1> QED BY <1>2, <1>4, <1>5

\* Every step that replaces, reaps or closes a fence counts what it destroys.
LEMMA SyncsStep == TypeOK /\ SyncsAccounted /\ [Next]_vars => SyncsAccounted'
<1> SUFFICES ASSUME TypeOK, SyncsAccounted, [Next]_vars PROVE SyncsAccounted'
  OBVIOUS
<1>1. backend' = backend
  BY DEF Next, Capture, Unplug, GpuDone, Pump, Dequeue, PumpDone, DrawBegin, Reap, Draw, DrawCpu,
         DrawEgl, DrawSerial, DrawStaging, DrawEnd, Close, CrashInDraw, Terminated, vars
<1>2. /\ SyncsAccounted <=> syncs = Cardinality(Living(fence))
      /\ SyncsAccounted' <=> syncs' = Cardinality(Living(fence'))
  BY <1>1 DEF SyncsAccounted, Living, Alive
<1>3. /\ fence = [b \in Buffers |-> fence[b]] /\ Cardinality(Living(fence)) \in Nat
      /\ \A x : Alive(x) \in Int
      /\ \A b \in Buffers : fence[b] \in Nat \cup {NoFence}
  BY LivingCount DEF TypeOK, Alive
<1>4. CASE UNCHANGED <<fence, syncs>>
  BY <1>2, <1>4
<1>5. ASSUME NEW b \in Buffers, NEW f, fence' = [fence EXCEPT ![b] = f],
             syncs' = syncs - Alive(fence[b]) + Alive(f)
      PROVE  SyncsAccounted'
  <2>1. Cardinality(Living(fence')) = Cardinality(Living(fence)) - Alive(fence[b]) + Alive(f)
    BY <1>3, <1>5, LivingExchange
  <2> QED BY <1>2, <1>5, <2>1
<1>6. CASE (\E b \in Buffers : Capture(b)) \/ Unplug \/ Pump \/ DrawBegin \/ CrashInDraw
           \/ Terminated \/ UNCHANGED vars
  BY <1>4, <1>6 DEF Capture, Unplug, Pump, Dequeue, PumpDone, DrawBegin, CrashInDraw, Terminated,
                    vars, poolVars
<1>7. CASE GpuDone
  <2>1. /\ syncs' = syncs
        /\ fence' = [b \in Buffers |-> IF fence[b] > 0 THEN fence[b] - 1 ELSE fence[b]]
    BY <1>7 DEF GpuDone
  <2>2. \A b \in Buffers : Alive(fence'[b]) = Alive(fence[b])
    BY <1>3, <2>1 DEF Alive, NoFence
  <2>3. Living(fence') = Living(fence)
    BY <2>2 DEF Living
  <2> QED BY <1>2, <2>1, <2>3
<1>8. CASE Reap
  <2>1. CASE ~Returnable(scan)
    BY <1>4, <1>8, <2>1 DEF Reap
  <2>2. CASE Returnable(scan)
    <3>1. fence' = [fence EXCEPT ![scan] = NoFence] /\ syncs' = syncs - Alive(fence[scan])
      BY <1>8, <2>2 DEF Reap, GiveBack
    <3>2. Alive(NoFence) = 0 /\ scan \in Buffers /\ syncs \in Int
      BY <2>2 DEF Alive, Returnable, TypeOK
    <3>3. syncs' = syncs - Alive(fence[scan]) + Alive(NoFence)
      BY <1>3, <3>1, <3>2
    <3> QED BY <1>5, <3>1, <3>2, <3>3
  <2> QED BY <2>1, <2>2
<1>9. CASE Draw
  <2>1. \/ UNCHANGED <<fence, syncs>>
        \/ latest # NoBuffer /\ \E f : Rendered(latest, f)
    BY <1>9 DEF Draw, DrawCpu, DrawEgl, DrawSerial, DrawStaging
  <2>2. latest # NoBuffer => latest \in Buffers
    BY DEF TypeOK
  <2> QED BY <1>4, <1>5, <2>1, <2>2 DEF Rendered
<1>10. CASE Close
  <2>1. /\ fence' = [b \in Buffers |-> NoFence]
        /\ syncs' = syncs - Cardinality(Living(fence))
    BY <1>10 DEF Close, Living
  <2>2. Living(fence') = {}
    BY <2>1 DEF Living, Alive
  <2>3. Cardinality(Living(fence')) = 0
    BY <2>2, FS_EmptySet
  <2> QED BY <1>2, <1>3, <2>1, <2>3
<1> QED
  BY <1>6, <1>7, <1>8, <1>9, <1>10 DEF Next

\* cam_stream creates and destroys sync objects in four places: together they leak none
\* and destroy none twice, for any number of buffers and frames in flight, also when
\* their creation fails.
THEOREM SyncsAccountedAlways == Spec => []SyncsAccounted
<1>1. Init => SyncsAccounted
  <2> SUFFICES ASSUME Init PROVE SyncsAccounted
    OBVIOUS
  <2>1. syncs = 0 /\ {b \in Buffers : Alive(fence[b]) = 1} = {}
    BY DEF Init, Alive
  <2> QED BY <2>1, FS_EmptySet DEF SyncsAccounted
<1> QED BY <1>1, TypeCorrect, SyncsStep, PTL DEF Spec

------------------------------------------------------------------------------
(* The statistics *)

\* A counter that goes up by one under a sum, before or after the wrap.
LEMMA CountAdds ==
  ASSUME NEW n \in Nat, NEW k \in Int
  PROVE  (Count(n, 1) + k) % StatMod = (n + 1 + k) % StatMod
<1>1. StatMod \in Nat \ {0}
  BY CamAssumption
<1>2. PICK m \in Int : m = n + 1
  OBVIOUS
<1>3. ((m % StatMod) + k) % StatMod = (m + k) % StatMod
  BY <1>1, <1>2, ModPlus
<1> QED BY <1>2, <1>3 DEF Count

\* The buffers that the application holds are finitely many.
LEMMA TrackedFinite == TypeOK => IsFiniteSet(Tracked) /\ Cardinality(Tracked) \in Nat
<1> SUFFICES ASSUME TypeOK PROVE IsFiniteSet(Tracked) /\ Cardinality(Tracked) \in Nat
  OBVIOUS
<1>1. IsFiniteSet(Buffers)
  BY CamAssumption, FS_Interval DEF Buffers
<1>2. Tracked \in SUBSET Buffers
  BY DEF TypeOK, Tracked, Maybe
<1>3. IsFiniteSet(Tracked)
  BY <1>1, <1>2, FS_Subset
<1> QED BY <1>3, FS_CardinalityType

\* Every dequeue, drop and reap is counted once, as what is held changes by one.
LEMMA FramesStep == TypeOK /\ Holding /\ FramesAccounted /\ [Next]_vars => FramesAccounted'
<1> SUFFICES ASSUME TypeOK, Holding, FramesAccounted, [Next]_vars PROVE FramesAccounted'
  OBVIOUS
<1> DEFINE n == Cardinality(Tracked)
<1>0. /\ captured = (dropped + reaped + n) % StatMod /\ StatMod \in Nat \ {0}
      /\ IsFiniteSet(Tracked) /\ n \in Nat
      /\ dropped \in Nat /\ reaped \in Nat /\ captured \in Nat
  BY TrackedFinite, CamAssumption DEF FramesAccounted, Count, TypeOK
<1>a. \A x \in Int, k \in Int : ((x % StatMod) + k) % StatMod = (x + k) % StatMod
  BY <1>0, ModPlus
<1>b. \A x \in Nat, k \in Int : (Count(x, 1) + k) % StatMod = (x + 1 + k) % StatMod
  BY CountAdds
<1>1. FramesAccounted' <=> captured' = (dropped' + reaped' + Cardinality(Tracked')) % StatMod
  BY DEF FramesAccounted, Count
<1>2. CASE UNCHANGED <<captured, dropped, reaped, newest, latest, retiring>>
  BY <1>2 DEF FramesAccounted, Count, Tracked, Maybe
<1>3. CASE (\E b \in Buffers : Capture(b)) \/ Unplug \/ GpuDone \/ DrawBegin \/ Draw \/ Close
           \/ CrashInDraw \/ Terminated \/ UNCHANGED vars
  BY <1>2, <1>3 DEF Capture, Unplug, GpuDone, DrawBegin, Draw, DrawCpu, DrawEgl,
                    DrawSerial, DrawStaging, DrawEnd, Close, CrashInDraw, Terminated, vars, poolVars, statVars
<1>4. CASE Dequeue
  <2>1. /\ filled # <<>> /\ newest' = Head(filled) /\ captured' = (captured + 1) % StatMod
        /\ UNCHANGED <<latest, retiring, reaped>>
        /\ dropped' = IF newest # NoBuffer THEN Count(dropped, 1) ELSE dropped
    BY <1>4 DEF Dequeue, Supersede, poolVars, Count
  <2>2. Head(filled) \in InFilled /\ Head(filled) \in Buffers
    <3>1. filled \in Seq(Buffers) /\ filled # <<>>
      BY <2>1 DEF TypeOK
    <3>2. Head(filled) = filled[1] /\ 1 \in 1 .. Len(filled) /\ Head(filled) \in Buffers
      BY <3>1, ElemsTail
    <3> QED BY <3>2 DEF InFilled
  <2>3. Head(filled) \notin Tracked /\ Head(filled) # NoBuffer
    BY <2>2, CamAssumption DEF Holding, Buffers, NoBuffer
  <2>4. captured' = (dropped + reaped + n + 1) % StatMod
    <3>1. PICK s \in Int : s = dropped + reaped + n
      BY <1>0
    <3>2. ((s % StatMod) + 1) % StatMod = (s + 1) % StatMod
      BY <1>a
    <3> QED BY <1>0, <2>1, <3>1, <3>2
  <2>5. CASE newest = NoBuffer
    <3>1. Tracked' = Tracked \cup {Head(filled)}
      BY <2>1, <2>3, <2>5 DEF Tracked, Maybe
    <3>2. Cardinality(Tracked') = n + 1
      BY <1>0, <2>3, <3>1, FS_AddElement
    <3> QED BY <1>0, <1>1, <2>1, <2>4, <2>5, <3>2
  <2>6. CASE newest # NoBuffer
    <3>1. newest \in Tracked
      BY <2>6 DEF Tracked, Maybe
    <3>2. Tracked' = (Tracked \ {newest}) \cup {Head(filled)}
      BY <2>1, <2>3, <2>6 DEF Tracked, Maybe, Holding
    <3>3. IsFiniteSet(Tracked \ {newest}) /\ Cardinality(Tracked \ {newest}) = n - 1
      BY <1>0, <3>1, FS_RemoveElement
    <3>9. Cardinality((Tracked \ {newest}) \cup {Head(filled)}) = Cardinality(Tracked \ {newest}) + 1
      BY <2>3, <3>3, FS_AddElement
    <3>4. Cardinality(Tracked') = n
      BY <1>0, <3>2, <3>3, <3>9
    <3>10. PICK k \in Int : k = reaped + n
      BY <1>0
    <3>11. (Count(dropped, 1) + k) % StatMod = (dropped + 1 + k) % StatMod
      BY <1>0, <1>b
    <3>5. (Count(dropped, 1) + (reaped + n)) % StatMod = (dropped + 1 + (reaped + n)) % StatMod
      BY <3>10, <3>11
    <3>6. dropped' \in Nat
      BY <1>0, <2>1, <2>6 DEF Count
    <3>7. dropped' + reaped' + n = Count(dropped, 1) + (reaped + n)
      BY <1>0, <2>1, <2>6, <3>6
    <3>8. dropped + 1 + (reaped + n) = dropped + reaped + n + 1
      BY <1>0
    <3> QED BY <1>1, <2>4, <3>4, <3>5, <3>7, <3>8
  <2> QED BY <2>5, <2>6
<1>5. CASE PumpDone
  <2>1. latest' = newest /\ newest' = NoBuffer /\ UNCHANGED <<captured, reaped>>
    BY <1>5 DEF PumpDone
  <2>2. newest # latest \/ newest = NoBuffer
    BY DEF Holding
  <2>3. CASE latest = NoBuffer
    <3>1. UNCHANGED <<retiring, dropped>> /\ Tracked' = Tracked
      BY <1>5, <2>1, <2>3 DEF PumpDone, Tracked, Maybe
    <3> QED BY <1>0, <1>1, <2>1, <3>1
  <2>4. CASE latest # NoBuffer /\ fence[latest] # NoFence
    <3>1. dropped' = dropped /\ Tracked' = Tracked
      BY <1>5, <2>1, <2>4 DEF PumpDone, Retire, Tracked, Maybe
    <3> QED BY <1>0, <1>1, <2>1, <3>1
  <2>5. CASE latest # NoBuffer /\ fence[latest] = NoFence
    <3>1. dropped' = Count(dropped, 1) /\ retiring' = retiring
      BY <1>5, <2>5 DEF PumpDone, Retire
    <3>2. latest \in Tracked /\ Tracked' = Tracked \ {latest}
      BY <2>1, <2>2, <2>5, <3>1 DEF Tracked, Maybe, Holding
    <3>3. Cardinality(Tracked') = n - 1
      BY <1>0, <3>2, FS_RemoveElement
    <3>10. PICK k \in Int : k = reaped + n - 1
      BY <1>0
    <3>11. (Count(dropped, 1) + k) % StatMod = (dropped + 1 + k) % StatMod
      BY <1>0, <1>b
    <3>4. (Count(dropped, 1) + (reaped + n - 1)) % StatMod = (dropped + 1 + (reaped + n - 1)) % StatMod
      BY <3>10, <3>11
    <3>5. dropped' \in Nat
      BY <1>0, <3>1 DEF Count
    <3>6. /\ dropped' + reaped' + (n - 1) = Count(dropped, 1) + (reaped + n - 1)
          /\ dropped + 1 + (reaped + n - 1) = dropped + reaped + n
      BY <1>0, <2>1, <3>1, <3>5
    <3> QED BY <1>0, <1>1, <2>1, <3>3, <3>4, <3>6
  <2> QED BY <2>3, <2>4, <2>5
<1>6. CASE Reap
  <2>1. UNCHANGED <<newest, latest, captured, dropped>>
    BY <1>6 DEF Reap
  <2>2. CASE ~Returnable(scan)
    BY <1>2, <1>6, <2>1, <2>2 DEF Reap
  <2>3. CASE Returnable(scan)
    <3>1. reaped' = Count(reaped, 1) /\ retiring' = retiring \ {scan} /\ scan \in retiring
      BY <1>6, <2>3 DEF Reap, GiveBack, Returnable
    <3>2. scan # newest /\ scan # latest /\ scan \in Tracked
      BY <3>1 DEF Holding, TypeOK, Buffers, NoBuffer, Tracked
    <3>3. Tracked' = Tracked \ {scan}
      BY <2>1, <3>1, <3>2 DEF Tracked, Maybe
    <3>4. Cardinality(Tracked') = n - 1
      BY <1>0, <3>2, <3>3, FS_RemoveElement
    <3>10. PICK k \in Int : k = dropped + n - 1
      BY <1>0
    <3>11. (Count(reaped, 1) + k) % StatMod = (reaped + 1 + k) % StatMod
      BY <1>0, <1>b
    <3>5. (Count(reaped, 1) + (dropped + n - 1)) % StatMod = (reaped + 1 + (dropped + n - 1)) % StatMod
      BY <3>10, <3>11
    <3>6. reaped' \in Nat
      BY <1>0, <3>1 DEF Count
    <3>7. /\ dropped' + reaped' + (n - 1) = Count(reaped, 1) + (dropped + n - 1)
          /\ reaped + 1 + (dropped + n - 1) = dropped + reaped + n
      BY <1>0, <2>1, <3>1, <3>6
    <3> QED BY <1>0, <1>1, <2>1, <3>4, <3>5, <3>7
  <2> QED BY <2>2, <2>3
<1> QED
  BY <1>3, <1>4, <1>5, <1>6 DEF Next, Pump

\* The statistics that cam_stream_close prints add up, whatever the width of the
\* counters: a frame dequeued was dropped, came back through reap, or is still held.
THEOREM FramesAccountedAlways == Spec => []FramesAccounted
<1>1. Init => FramesAccounted
  <2> SUFFICES ASSUME Init PROVE FramesAccounted
    OBVIOUS
  <2>1. Tracked = {} /\ captured = 0 /\ dropped = 0 /\ reaped = 0
    BY DEF Init, Tracked, Maybe
  <2>2. Cardinality(Tracked) = 0
    BY <2>1, FS_EmptySet
  <2>3. 0 % StatMod = 0
    BY CamAssumption, ModSmall
  <2> QED BY <2>1, <2>2, <2>3 DEF FramesAccounted, Count
<1> QED BY <1>1, HoldingInvariant, FramesStep, PTL DEF Spec
===============================================================================
