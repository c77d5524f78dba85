--------------------------- MODULE VkPresentProofs ---------------------------
(***************************************************************************)
(* Proofs about VkPresent, for any number of lanes and swapchain images,   *)
(* any set of window sizes and any number of frames.                       *)
(***************************************************************************)
EXTENDS VkPresent, TLAPS

\* The end of a list after Append, its other members unchanged.
LEMMA AtEnd ==
  ASSUME NEW S, NEW s \in Seq(S), NEW e \in S
  PROVE  /\ Append(s, e) \in Seq(S) /\ Len(s) \in Nat
         /\ Len(Append(s, e)) = Len(s) + 1
         /\ \A k \in 1 .. Len(s) : Append(s, e)[k] = s[k]
         /\ Append(s, e)[Len(s) + 1] = e
  OBVIOUS

\* Without its head, a list has every other member one place earlier.
LEMMA MovedUp ==
  ASSUME NEW S, NEW s \in Seq(S), s # <<>>
  PROVE  /\ Tail(s) \in Seq(S) /\ Head(s) \in S /\ Head(s) = s[1]
         /\ Len(s) \in Nat /\ Len(s) >= 1 /\ Len(Tail(s)) = Len(s) - 1
         /\ \A k \in 1 .. Len(s) - 1 : Tail(s)[k] = s[k + 1]
  OBVIOUS

\* The lanes take turns.
LEMMA LaneTurn == ASSUME NEW l \in Lanes PROVE NextLane(l) \in Lanes
  BY VkAssumption DEF Lanes, NextLane

------------------------------------------------------------------------------
(* Types *)

\* Every variable of the presenter stays in its range.
THEOREM TypeCorrect == Spec => []TypeOK
<1> USE VkAssumption DEF NoImage, Images
<1>1. ASSUME Init PROVE TypeOK
  <2>1. lane \in Lanes /\ frame_serial \in 0 .. MaxFrames
    BY <1>1 DEF Init, Lanes
  <2>2. /\ lane_serial \in [Lanes -> 0 .. MaxFrames]
        /\ in_flight \in [Lanes -> BOOLEAN]
        /\ image_avail \in [Lanes -> {"clean", "pending", "signaled"}]
        /\ waitsFor \in [Lanes -> Images \cup {NoImage}]
        /\ render_done \in [Images -> {"clean", "signaled"}]
    BY <1>1 DEF Init
  <2>3. queue \in Seq(Submissions) /\ presents \in Seq(Images)
    BY <1>1 DEF Init
  <2> QED BY <1>1, <2>1, <2>2, <2>3 DEF Init, TypeOK
<1>2. ASSUME TypeOK, [Next]_vars PROVE TypeOK'
  <2> USE <1>2 DEF TypeOK, windowVars, frameVars, flagVars, gpuVars, engineVars
  <2>1. ASSUME NEW s \in Sizes, Configure(s) PROVE TypeOK'
    BY <2>1 DEF Configure
  <2>2. CASE DrawFrame
    BY <2>2 DEF DrawFrame
  <2>3. CASE Quit
    BY <2>3 DEF Quit
  <2>4. CASE WaitForFence
    BY <2>4 DEF WaitForFence
  <2>5. ASSUME NEW i \in Images, AcquireImage(i) PROVE TypeOK'
    BY <2>5 DEF AcquireImage, OnEarlyReturn
  <2>6. CASE AcquireOutOfDate
    BY <2>6 DEF AcquireOutOfDate, OnEarlyReturn
  <2>7. CASE ResetAndNumber
    BY <2>7 DEF ResetAndNumber, ResetFence
  <2>8. CASE Submit
    <3> DEFINE s == [lane |-> lane, img |-> img, serial |-> frame_serial]
    <3>1. s \in Submissions
      BY <2>8 DEF Submit, Submissions
    <3>2. queue' \in Seq(Submissions)
      BY <2>8, <3>1, AtEnd DEF Submit
    <3> QED BY <2>8, <3>2 DEF Submit
  <2>9. CASE Present
    <3>1. presents' \in Seq(Images)
      BY <2>9, AtEnd DEF Present
    <3> QED BY <2>9, <3>1, LaneTurn DEF Present
  <2>10. CASE RecreateSwapchain
    <3>1. /\ presents' \in Seq(Images)
          /\ render_done' \in [Images -> {"clean", "signaled"}]
          /\ waitsFor' \in [Lanes -> Images \cup {NoImage}]
      BY <2>10 DEF RecreateSwapchain
    <3> QED BY <2>10, <3>1 DEF RecreateSwapchain
  <2>11. CASE GpuStart
    <3>1. Head(queue) \in Submissions
      BY <2>11, MovedUp DEF GpuStart
    <3>2. Head(queue).lane \in Lanes
      BY <3>1 DEF Submissions
    <3> QED BY <2>11, <3>2 DEF GpuStart
  <2>12. CASE GpuFinish
    <3>1. Head(queue) \in Submissions /\ queue' \in Seq(Submissions)
      BY <2>12, MovedUp DEF GpuFinish
    <3>2. Head(queue).lane \in Lanes /\ Head(queue).img \in Images
      BY <3>1 DEF Submissions
    <3> QED BY <2>12, <3>1, <3>2 DEF GpuFinish, FlagOf
  <2>13. CASE Show
    BY <2>13, MovedUp DEF Show
  <2>14. ASSUME NEW i \in Images, Release(i) PROVE TypeOK'
    BY <2>14 DEF Release
  <2>15. ASSUME NEW l \in Lanes, ReleaseOld(l) PROVE TypeOK'
    BY <2>15 DEF ReleaseOld
  <2>16. CASE UNCHANGED vars
    BY <2>16 DEF vars
  <2> QED
    BY <2>1, <2>2, <2>3, <2>4, <2>5, <2>6, <2>7, <2>8, <2>9, <2>10, <2>11, <2>12,
       <2>13, <2>14, <2>15, <2>16 DEF Next, Frame, Acquire, Terminated
<1> QED BY <1>1, <1>2, PTL DEF Spec

------------------------------------------------------------------------------
(* Lanes and their fences *)

\* What a submission is made of.
LEMMA SubmissionParts ==
  ASSUME TypeOK, NEW k \in 1 .. Len(queue)
  PROVE  /\ queue[k].lane \in Lanes /\ queue[k].img \in Images
         /\ queue[k].serial \in 1 .. MaxFrames
<1>1. queue[k] \in Submissions
  BY DEF TypeOK
<1> QED BY <1>1 DEF Submissions

\* When the GPU finishes, the queue moves up by one.
LEMMA QueueMovesUp ==
  ASSUME TypeOK, GpuFinish
  PROVE  /\ Head(queue) = queue[1] /\ Len(queue) \in Nat /\ Len(queue) >= 1
         /\ Len(queue') = Len(queue) - 1
         /\ \A k \in 1 .. Len(queue') : queue'[k] = queue[k + 1]
<1>1. queue # <<>> /\ queue \in Seq(Submissions)
  BY DEF GpuFinish, TypeOK
<1> QED BY <1>1, MovedUp DEF GpuFinish

\* When a frame is submitted, it is the last of the queue.
LEMMA QueueGrows ==
  ASSUME TypeOK, Submit
  PROVE  /\ Len(queue) \in Nat /\ Len(queue') = Len(queue) + 1
         /\ \A k \in 1 .. Len(queue) : queue'[k] = queue[k]
         /\ queue'[Len(queue) + 1].lane = lane /\ queue'[Len(queue) + 1].img = img
         /\ queue'[Len(queue) + 1].serial = frame_serial
<1> DEFINE s == [lane |-> lane, img |-> img, serial |-> frame_serial]
<1>1. s \in Submissions
  BY VkAssumption DEF Submit, Submissions, TypeOK, NoImage
<1>2. queue \in Seq(Submissions) /\ queue' = Append(queue, s)
  BY DEF Submit, TypeOK
<1> QED BY <1>1, <1>2, AtEnd

\* A step keeps every fence down exactly as long as its submission lasts, and never
\* puts a second submission on a lane.
LEMMA LaneUseStep == TypeOK /\ LaneUse /\ [Next]_vars => LaneUse'
<1> SUFFICES ASSUME TypeOK, LaneUse, [Next]_vars PROVE LaneUse'
  OBVIOUS
<1> USE DEF windowVars, frameVars, flagVars, gpuVars, engineVars
<1>1. ASSUME NEW s \in Sizes, Configure(s) PROVE LaneUse'
  BY <1>1 DEF Configure, LaneUse, OnLane
<1>2. CASE DrawFrame \/ Quit \/ RecreateSwapchain
  BY <1>2 DEF DrawFrame, Quit, RecreateSwapchain, LaneUse, OnLane
<1>3. CASE WaitForFence
  BY <1>3 DEF WaitForFence, GateReady, LaneUse, OnLane
<1>4. CASE AcquireOutOfDate
  BY <1>4 DEF AcquireOutOfDate, OnEarlyReturn, LaneUse, OnLane
<1>5. ASSUME NEW i \in Images, AcquireImage(i) PROVE LaneUse'
  BY <1>5 DEF AcquireImage, OnEarlyReturn, LaneUse, OnLane
<1>6. CASE ResetAndNumber
  <2>1. lane \in Lanes /\ in_flight \in [Lanes -> BOOLEAN]
    BY DEF TypeOK
  <2>2. \A k \in 1 .. Len(queue) : queue[k].lane \in Lanes
    BY SubmissionParts
  <2>3. \A k \in 1 .. Len(queue) : queue[k].lane # lane
    BY <1>6 DEF ResetAndNumber, LaneUse
  <2>4. /\ in_flight'[lane] = FALSE
        /\ \A l \in Lanes : l # lane => in_flight'[l] = in_flight[l]
    BY <1>6, <2>1 DEF ResetAndNumber, ResetFence
  <2> QED BY <1>6, <2>2, <2>3, <2>4 DEF ResetAndNumber, LaneUse, OnLane
<1>7. CASE Submit
  <2>2. /\ Len(queue) \in Nat /\ Len(queue') = Len(queue) + 1
        /\ \A k \in 1 .. Len(queue) : queue'[k] = queue[k]
        /\ queue'[Len(queue) + 1].lane = lane
    BY <1>7, QueueGrows
  <2>3. /\ ~in_flight[lane] /\ \A k \in 1 .. Len(queue) : queue[k].lane # lane
    BY <1>7 DEF Submit, LaneUse
  <2>4. \A l \in Lanes : OnLane(l) \/ l = lane => OnLane(l)'
    BY <2>2 DEF OnLane
  <2>5. \A k \in 1 .. Len(queue') : ~in_flight[queue'[k].lane]
    BY <2>2, <2>3 DEF LaneUse
  <2>6. \A j, k \in 1 .. Len(queue') : queue'[j].lane = queue'[k].lane => j = k
    BY <2>2, <2>3 DEF LaneUse
  <2> QED BY <1>7, <2>4, <2>5, <2>6 DEF Submit, LaneUse
<1>8. CASE Present
  BY <1>8 DEF Present, LaneUse, OnLane
<1>9. CASE GpuStart
  BY <1>9 DEF GpuStart, LaneUse, OnLane
<1>10. CASE GpuFinish
  <2>1. lane \in Lanes /\ in_flight \in [Lanes -> BOOLEAN]
    BY DEF TypeOK
  <2>2. /\ Head(queue) = queue[1] /\ Len(queue) \in Nat /\ Len(queue) >= 1
        /\ Len(queue') = Len(queue) - 1
        /\ \A k \in 1 .. Len(queue') : queue'[k] = queue[k + 1]
    BY <1>10, QueueMovesUp
  <2>3. \A k \in 1 .. Len(queue) : queue[k].lane \in Lanes
    BY SubmissionParts
  <2>4. /\ in_flight'[queue[1].lane] = TRUE
        /\ \A l \in Lanes : l # queue[1].lane => in_flight'[l] = in_flight[l]
    <3>1. queue[1].lane \in Lanes
      BY <2>2, <2>3
    <3> QED BY <1>10, <2>1, <2>2, <3>1 DEF GpuFinish
  <2>5. \A j, k \in 1 .. Len(queue') : queue'[j].lane = queue'[k].lane => j = k
    BY <2>2 DEF LaneUse
  <2>6. \A k \in 1 .. Len(queue') : queue'[k].lane # queue[1].lane
    BY <2>2 DEF LaneUse
  <2>7. \A k \in 1 .. Len(queue') : ~in_flight'[queue'[k].lane]
    BY <2>2, <2>3, <2>4, <2>6 DEF LaneUse
  <2>8. \A l \in Lanes : OnLane(l) => l = queue[1].lane \/ OnLane(l)'
    <3> SUFFICES ASSUME NEW l \in Lanes, OnLane(l), l # queue[1].lane
                 PROVE  OnLane(l)'
      OBVIOUS
    <3>1. PICK k \in 1 .. Len(queue) : queue[k].lane = l
      BY DEF OnLane
    <3>2. k - 1 \in 1 .. Len(queue') /\ queue'[k - 1] = queue[k]
      BY <2>2, <3>1
    <3> QED BY <3>1, <3>2 DEF OnLane
  <2>9. \A l \in Lanes : in_flight'[l] \/ OnLane(l)' \/ (pc = "record" /\ l = lane)
    BY <2>4, <2>8 DEF LaneUse
  <2>10. pc \in {"acquire", "reset"} => in_flight'[lane]
    BY <2>1, <2>4 DEF LaneUse
  <2>11. pc = "record" => /\ ~in_flight'[lane]
                          /\ \A k \in 1 .. Len(queue') : queue'[k].lane # lane
    BY <2>1, <2>2, <2>4 DEF LaneUse
  <2> QED BY <1>10, <2>5, <2>7, <2>9, <2>10, <2>11 DEF GpuFinish, LaneUse
<1>11. CASE Show
  BY <1>11 DEF Show, LaneUse, OnLane
<1>12. ASSUME NEW i \in Images, Release(i) PROVE LaneUse'
  BY <1>12 DEF Release, LaneUse, OnLane
<1>13. ASSUME NEW l \in Lanes, ReleaseOld(l) PROVE LaneUse'
  BY <1>13 DEF ReleaseOld, LaneUse, OnLane
<1>14. CASE UNCHANGED vars
  BY <1>14 DEF vars, LaneUse, OnLane
<1> QED
  BY <1>1, <1>2, <1>3, <1>4, <1>5, <1>6, <1>7, <1>8, <1>9, <1>10, <1>11, <1>12, <1>13,
     <1>14 DEF Next, Frame, Acquire, Terminated

\* A lane's command buffer and staging memory are written only while no submission
\* of the lane is unfinished, for every number of lanes.
THEOREM LaneExclusiveAlways == Spec => []LaneExclusive
<1>1. Init => LaneUse
  BY DEF Init, LaneUse, OnLane
<1>2. TypeOK /\ LaneUse /\ [Next]_vars => LaneUse'
  BY LaneUseStep
<1>3. TypeOK /\ LaneUse => LaneExclusive
  BY DEF TypeOK, LaneUse, LaneExclusive, OnLane
<1> QED BY <1>1, <1>2, <1>3, TypeCorrect, PTL DEF Spec

------------------------------------------------------------------------------
(* Serials *)

\* The steps that take, queue or finish no frame leave what Serials speaks of alone.
LEMMA SerialsKept ==
  ASSUME Serials, UNCHANGED <<frame_serial, lane_serial, queue>>,
         pc' = "record" => pc = "record" /\ lane' = lane
  PROVE  Serials'
  BY DEF Serials

\* A step keeps the serials of the lanes distinct, and those of the queue theirs.
LEMMA SerialsStep == TypeOK /\ LaneUse /\ Serials /\ [Next]_vars => Serials'
<1> SUFFICES ASSUME TypeOK, LaneUse, Serials, [Next]_vars PROVE Serials'
  OBVIOUS
<1> USE DEF windowVars, frameVars, flagVars, gpuVars, engineVars
<1>1. ASSUME NEW s \in Sizes, Configure(s) PROVE Serials'
  BY <1>1, SerialsKept DEF Configure
<1>2. CASE DrawFrame \/ Quit \/ WaitForFence \/ RecreateSwapchain
  BY <1>2, SerialsKept DEF DrawFrame, Quit, WaitForFence, RecreateSwapchain
<1>3. CASE AcquireOutOfDate \/ Present
  BY <1>3, SerialsKept DEF AcquireOutOfDate, Present
<1>4. ASSUME NEW i \in Images, AcquireImage(i) PROVE Serials'
  BY <1>4, SerialsKept DEF AcquireImage
<1>5. CASE GpuStart \/ Show
  BY <1>5, SerialsKept DEF GpuStart, Show
<1>6. ASSUME NEW i \in Images, Release(i) PROVE Serials'
  BY <1>6, SerialsKept DEF Release
<1>7. ASSUME NEW l \in Lanes, ReleaseOld(l) PROVE Serials'
  BY <1>7, SerialsKept DEF ReleaseOld
<1>8. CASE UNCHANGED vars
  BY <1>8, SerialsKept DEF vars
<1>9. CASE ResetAndNumber
  <2>1. /\ lane \in Lanes /\ lane_serial \in [Lanes -> 0 .. MaxFrames]
        /\ frame_serial \in Nat /\ pc = "reset" /\ queue' = queue
    BY <1>9, VkAssumption DEF ResetAndNumber, TypeOK
  <2>2. /\ frame_serial' = frame_serial + 1 /\ lane' = lane
        /\ lane_serial'[lane] = frame_serial + 1
        /\ \A l \in Lanes : l # lane => lane_serial'[l] = lane_serial[l]
    BY <1>9, <2>1 DEF ResetAndNumber
  <2>3. \A l \in Lanes : lane_serial[l] \in Nat /\ lane_serial[l] <= frame_serial
    BY <2>1, VkAssumption DEF Serials
  <2>4. \A k \in 1 .. Len(queue) : queue[k].lane # lane
    <3>1. in_flight[lane]
      BY <2>1 DEF LaneUse
    <3> QED BY <3>1 DEF LaneUse
  <2>5. \A k \in 1 .. Len(queue) : queue[k].serial = lane_serial'[queue[k].lane]
    BY <2>2, <2>4, SubmissionParts DEF Serials
  <2>6. \A l \in Lanes : lane_serial'[l] <= frame_serial'
    BY <2>1, <2>2, <2>3
  <2>7. \A l, m \in Lanes :
          lane_serial'[l] = lane_serial'[m] => l = m \/ lane_serial'[l] = 0
    BY <2>1, <2>2, <2>3 DEF Serials
  <2> QED BY <2>1, <2>2, <2>5, <2>6, <2>7 DEF Serials
<1>10. CASE Submit
  <2>1. /\ Len(queue) \in Nat /\ Len(queue') = Len(queue) + 1
        /\ \A k \in 1 .. Len(queue) : queue'[k] = queue[k]
        /\ queue'[Len(queue) + 1].lane = lane
        /\ queue'[Len(queue) + 1].serial = frame_serial
    BY <1>10, QueueGrows
  <2>2. lane_serial[lane] = frame_serial
    BY <1>10 DEF Submit, Serials
  <2>3. \A k \in 1 .. Len(queue') : queue'[k].serial = lane_serial[queue'[k].lane]
    BY <2>1, <2>2 DEF Serials
  <2> QED BY <1>10, <2>3 DEF Submit, Serials
<1>11. CASE GpuFinish
  <2>1. /\ Len(queue) \in Nat /\ Len(queue) >= 1 /\ Len(queue') = Len(queue) - 1
        /\ \A k \in 1 .. Len(queue') : queue'[k] = queue[k + 1]
    BY <1>11, QueueMovesUp
  <2>2. \A k \in 1 .. Len(queue') : queue'[k].serial = lane_serial[queue'[k].lane]
    BY <2>1 DEF Serials
  <2> QED BY <1>11, <2>2 DEF GpuFinish, Serials
<1> QED
  BY <1>1, <1>2, <1>3, <1>4, <1>5, <1>6, <1>7, <1>8, <1>9, <1>10, <1>11
     DEF Next, Frame, Acquire, Terminated

\* While the scene records, vk_present_serial_done tells exactly which of the frames
\* the GPU has finished, for every number of lanes.
THEOREM SerialDoneExactAlways == Spec => []SerialDoneExact
<1>1. Init => LaneUse /\ Serials
  BY DEF Init, LaneUse, Serials, OnLane, Lanes
<1>2. TypeOK /\ LaneUse /\ Serials /\ [Next]_vars => LaneUse' /\ Serials'
  BY LaneUseStep, SerialsStep
<1>3. TypeOK /\ LaneUse /\ Serials => SerialDoneExact
  <2> SUFFICES ASSUME TypeOK, LaneUse, Serials, pc = "record",
                      NEW s \in 1 .. frame_serial
               PROVE  SerialDone(s) <=> (s # frame_serial /\ ~Submitted(s))
    BY DEF SerialDoneExact
  <2>1. lane \in Lanes /\ frame_serial \in Nat /\ s > 0 /\ s <= frame_serial
    BY VkAssumption DEF TypeOK
  <2>2. lane_serial[lane] = frame_serial
    BY DEF Serials
  <2>3. ASSUME NEW k \in 1 .. Len(queue), queue[k].serial = s
        PROVE  /\ queue[k].lane \in Lanes /\ lane_serial[queue[k].lane] = s
               /\ queue[k].lane # lane /\ ~in_flight[queue[k].lane]
    BY <2>3, SubmissionParts DEF Serials, LaneUse
  <2>4. CASE \E l \in Lanes : lane_serial[l] = s
    <3>1. PICK l \in Lanes : lane_serial[l] = s
      BY <2>4
    <3>2. \A m \in Lanes : lane_serial[m] = s => m = l
      BY <2>1, <3>1 DEF Serials
    <3>3. SerialDone(s) <=> in_flight[l]
      BY <2>1, <3>1, <3>2 DEF SerialDone
    <3>4. s = frame_serial <=> l = lane
      BY <2>1, <2>2, <3>1, <3>2
    <3>5. OnLane(l) => Submitted(s) /\ ~in_flight[l]
      BY <3>1 DEF OnLane, Submitted, Serials, LaneUse
    <3>6. Submitted(s) => ~in_flight[l]
      BY <2>3, <3>2 DEF Submitted
    <3>7. l = lane => ~in_flight[l]
      BY DEF LaneUse
    <3>8. ~in_flight[l] => OnLane(l) \/ l = lane
      BY DEF LaneUse
    <3> QED BY <3>3, <3>4, <3>5, <3>6, <3>7, <3>8
  <2>5. CASE ~\E l \in Lanes : lane_serial[l] = s
    <3>1. SerialDone(s)
      BY <2>1, <2>5 DEF SerialDone
    <3>2. s # frame_serial
      BY <2>1, <2>2, <2>5
    <3>3. ~Submitted(s)
      BY <2>3, <2>5 DEF Submitted
    <3> QED BY <3>1, <3>2, <3>3
  <2> QED BY <2>4, <2>5
<1> QED BY <1>1, <1>2, <1>3, TypeCorrect, PTL DEF Spec

------------------------------------------------------------------------------
(* Images and their flags *)

\* An image under way to the display is presented, or in the hands of the frame
\* that is about to present it; a step that keeps these keeps the others' state.
LEMMA PlatesKept ==
  ASSUME Plates, UNCHANGED <<queue, render_done, presents, ours>>,
         pc = "present" <=> pc' = "present",
         pc' \in {"reset", "record", "present"} =>
           pc \in {"reset", "record", "present"} /\ img' = img
  PROVE  Plates'
  BY DEF Plates, UnderWay, Presented

\* What is presented after another image has been, or the first has been shown.
LEMMA PresentedMore ==
  ASSUME TypeOK, Present
  PROVE  /\ presents \in Seq(Images) /\ Len(presents) \in Nat
         /\ presents' = Append(presents, img) /\ Len(presents') = Len(presents) + 1
         /\ \A k \in 1 .. Len(presents) : presents'[k] = presents[k]
         /\ presents'[Len(presents) + 1] = img
         /\ Presented' = Presented \cup {img}
<1>1. presents \in Seq(Images) /\ img \in Images /\ presents' = Append(presents, img)
  BY DEF Present, TypeOK, NoImage
<1>2. /\ Len(presents) \in Nat /\ Len(presents') = Len(presents) + 1
      /\ \A k \in 1 .. Len(presents) : presents'[k] = presents[k]
      /\ presents'[Len(presents) + 1] = img
  BY <1>1, AtEnd
<1>3. Presented' = Presented \cup {img}
  BY <1>2 DEF Presented
<1> QED BY <1>1, <1>2, <1>3

\* Taking the present in front leaves the others: what was presented is these and its image.
LEMMA PresentedLess ==
  ASSUME TypeOK, Show
  PROVE  /\ Head(presents) = presents[1] /\ Head(presents) \in Images
         /\ Len(presents) \in Nat /\ Len(presents) >= 1
         /\ Len(presents') = Len(presents) - 1
         /\ \A k \in 1 .. Len(presents') : presents'[k] = presents[k + 1]
         /\ Presented = Presented' \cup {Head(presents)}
<1>1. presents # <<>> /\ presents \in Seq(Images) /\ presents' = Tail(presents)
  BY DEF Show, TypeOK
<1>2. /\ Head(presents) = presents[1] /\ Head(presents) \in Images
      /\ Len(presents) \in Nat /\ Len(presents) >= 1
      /\ Len(presents') = Len(presents) - 1
      /\ \A k \in 1 .. Len(presents') : presents'[k] = presents[k + 1]
  BY <1>1, MovedUp
<1>3. ASSUME NEW k \in 1 .. Len(presents), k # 1 PROVE presents[k] \in Presented'
  <2>1. k - 1 \in 1 .. Len(presents') /\ presents'[k - 1] = presents[k]
    BY <1>2, <1>3
  <2> QED BY <2>1 DEF Presented
<1>4. Presented = Presented' \cup {Head(presents)}
  <2>1. Presented' \cup {Head(presents)} \subseteq Presented
    BY <1>2 DEF Presented
  <2>2. Presented \subseteq Presented' \cup {Head(presents)}
    BY <1>2, <1>3 DEF Presented
  <2> QED BY <2>1, <2>2
<1> QED BY <1>2, <1>4

\* A step keeps every image in one place between acquire and display.
LEMMA PlatesStep == TypeOK /\ Plates /\ [Next]_vars => Plates'
<1> SUFFICES ASSUME TypeOK, Plates, [Next]_vars PROVE Plates'
  OBVIOUS
<1> USE DEF windowVars, frameVars, flagVars, gpuVars, engineVars
<1>1. ASSUME NEW s \in Sizes, Configure(s) PROVE Plates'
  BY <1>1, PlatesKept DEF Configure
<1>2. CASE DrawFrame \/ Quit \/ WaitForFence
  BY <1>2, PlatesKept DEF DrawFrame, Quit, WaitForFence
<1>3. CASE AcquireOutOfDate \/ ResetAndNumber
  BY <1>3, PlatesKept DEF AcquireOutOfDate, ResetAndNumber
<1>4. CASE GpuStart
  BY <1>4, PlatesKept DEF GpuStart
<1>5. ASSUME NEW i \in Images, Release(i) PROVE Plates'
  BY <1>5, PlatesKept DEF Release
<1>6. ASSUME NEW l \in Lanes, ReleaseOld(l) PROVE Plates'
  BY <1>6, PlatesKept DEF ReleaseOld
<1>7. CASE UNCHANGED vars
  BY <1>7, PlatesKept DEF vars
<1>8. ASSUME NEW i \in Images, AcquireImage(i) PROVE Plates'
  <2>1. /\ pc = "acquire" /\ pc' \in {"recreate", "reset"} /\ img' = i
        /\ i \notin Presented /\ ours' = ours \cup {i}
        /\ UNCHANGED <<queue, render_done, presents>>
    BY <1>8 DEF AcquireImage
  <2>2. Presented' = Presented /\ UnderWay' = UnderWay
    BY <2>1 DEF Presented, UnderWay
  <2>3. \A k \in 1 .. Len(queue) : queue[k].img \in UnderWay'
    BY <2>2, SubmissionParts DEF Plates
  <2> QED BY <2>1, <2>2, <2>3 DEF Plates
<1>9. CASE RecreateSwapchain
  <2>1. /\ queue' = <<>> /\ ours' = {} /\ presents' = <<>> /\ pc' = "loop"
        /\ \A i \in Images : render_done'[i] = "clean"
    BY <1>9 DEF RecreateSwapchain
  <2> QED BY <2>1 DEF Plates, Presented
<1>10. CASE Submit
  <2>1. /\ Len(queue) \in Nat /\ Len(queue') = Len(queue) + 1
        /\ \A k \in 1 .. Len(queue) : queue'[k] = queue[k]
        /\ queue'[Len(queue) + 1].img = img
    BY <1>10, QueueGrows
  <2>2. /\ pc = "record" /\ pc' = "present" /\ img \in ours /\ img \in Images
        /\ UNCHANGED <<img, render_done, presents, ours>>
    BY <1>10 DEF Submit, Plates, TypeOK, NoImage
  <2>3. /\ Presented' = Presented /\ img \notin Presented /\ img \notin UnderWay
        /\ UnderWay' = UnderWay \cup {img}
    BY <2>2 DEF Presented, UnderWay, Plates
  <2>4. render_done[img] = "clean" /\ \A k \in 1 .. Len(queue) : queue[k].img # img
    BY <2>2, <2>3 DEF Plates, TypeOK
  <2>5. \A k \in 1 .. Len(queue') :
          render_done[queue'[k].img] = "clean" /\ queue'[k].img \in UnderWay'
    BY <2>1, <2>2, <2>3, <2>4, SubmissionParts DEF Plates
  <2>6. \A j, k \in 1 .. Len(queue') : queue'[j].img = queue'[k].img => j = k
    BY <2>1, <2>4 DEF Plates
  <2> QED BY <2>2, <2>3, <2>5, <2>6 DEF Plates
<1>11. CASE Present
  <2>1. /\ Len(presents) \in Nat /\ Len(presents') = Len(presents) + 1
        /\ \A k \in 1 .. Len(presents) : presents'[k] = presents[k]
        /\ presents'[Len(presents) + 1] = img /\ Presented' = Presented \cup {img}
    BY <1>11, PresentedMore
  <2>2. /\ pc = "present" /\ pc' \in {"recreate", "loop"} /\ ours' = ours \ {img}
        /\ img \in ours /\ UNCHANGED <<queue, render_done>>
    BY <1>11 DEF Present, Plates
  <2>3. UnderWay' = UnderWay
    BY <2>1, <2>2 DEF UnderWay
  <2>4. \A k \in 1 .. Len(queue) : queue[k].img \in UnderWay'
    BY <2>3, SubmissionParts DEF Plates
  <2>5. \A k \in 1 .. Len(presents) : presents[k] # img
    BY <2>2 DEF Plates, Presented
  <2>6. \A j, k \in 1 .. Len(presents') : presents'[j] = presents'[k] => j = k
    BY <2>1, <2>5 DEF Plates
  <2> QED BY <2>1, <2>2, <2>3, <2>4, <2>6 DEF Plates
<1>12. CASE GpuFinish
  <2>1. /\ Head(queue) = queue[1] /\ Len(queue) \in Nat /\ Len(queue) >= 1
        /\ Len(queue') = Len(queue) - 1
        /\ \A k \in 1 .. Len(queue') : queue'[k] = queue[k + 1]
    BY <1>12, QueueMovesUp
  <2>2. queue[1].img \in Images /\ queue[1].img \in UnderWay
    BY <2>1, SubmissionParts DEF Plates
  <2>3. /\ \A i \in Images : i # queue[1].img => render_done'[i] = render_done[i]
        /\ UNCHANGED <<pc, img, presents, ours>>
    BY <1>12, <2>1, <2>2 DEF GpuFinish, FlagOf, TypeOK
  <2>4. /\ Presented' = Presented
        /\ UnderWay' = UnderWay
    BY <2>3 DEF Presented, UnderWay
  <2>5. \A k \in 1 .. Len(queue') :
          /\ queue'[k].img \in Images /\ queue'[k].img # queue[1].img
          /\ render_done[queue'[k].img] = "clean" /\ queue'[k].img \in UnderWay
    BY <2>1, SubmissionParts DEF Plates
  <2>6. \A j, k \in 1 .. Len(queue') : queue'[j].img = queue'[k].img => j = k
    BY <2>1 DEF Plates
  <2>7. \A k \in 1 .. Len(queue') :
          render_done'[queue'[k].img] = "clean" /\ queue'[k].img \in UnderWay'
    BY <2>3, <2>4, <2>5
  <2>8. \A i \in Images : render_done'[i] = "signaled" => i \in UnderWay'
    BY <2>2, <2>3, <2>4 DEF Plates
  <2> QED BY <2>3, <2>4, <2>6, <2>7, <2>8 DEF Plates
<1>13. CASE Show
  <2>1. /\ Head(presents) = presents[1] /\ Head(presents) \in Images
        /\ Len(presents) \in Nat /\ Len(presents) >= 1
        /\ Len(presents') = Len(presents) - 1
        /\ \A k \in 1 .. Len(presents') : presents'[k] = presents[k + 1]
        /\ Presented = Presented' \cup {Head(presents)}
    BY <1>13, PresentedLess
  <2> DEFINE h == Head(presents)
  <2>2. /\ render_done[h] = "signaled" /\ render_done'[h] = "clean"
        /\ \A i \in Images : i # h => render_done'[i] = render_done[i]
        /\ UNCHANGED <<pc, img, queue, ours>>
    BY <1>13, <2>1 DEF Show, TypeOK
  <2>3. UnderWay \subseteq UnderWay' \cup {h}
    BY <2>1, <2>2 DEF UnderWay
  <2>4. \A k \in 1 .. Len(queue) : queue[k].img \in Images /\ queue[k].img # h
    BY <2>2, SubmissionParts DEF Plates
  <2>5. \A k \in 1 .. Len(queue) :
          render_done'[queue[k].img] = "clean" /\ queue[k].img \in UnderWay'
    BY <2>2, <2>3, <2>4 DEF Plates
  <2>6. \A i \in Images : render_done'[i] = "signaled" => i \in UnderWay'
    BY <2>2, <2>3 DEF Plates
  <2>7. \A j, k \in 1 .. Len(presents') : presents'[j] = presents'[k] => j = k
    BY <2>1 DEF Plates
  <2> QED BY <2>1, <2>2, <2>5, <2>6, <2>7 DEF Plates
<1> QED
  BY <1>1, <1>2, <1>3, <1>4, <1>5, <1>6, <1>7, <1>8, <1>9, <1>10, <1>11, <1>12, <1>13
     DEF Next, Frame, Acquire, Terminated

\* Nothing is acquired, submitted or presented at first.
LEMMA PlatesInitially == Init => Plates
  BY DEF Init, Plates, Presented

\* render_done is raised only after the present of the image's previous frame has
\* lowered it, however few the images and however many the lanes.
THEOREM RenderDoneCleanAlways == Spec => []RenderDoneClean
<1>1. Plates => RenderDoneClean
  BY DEF Plates, RenderDoneClean
<1> QED BY <1>1, PlatesInitially, PlatesStep, TypeCorrect, PTL DEF Spec

------------------------------------------------------------------------------
(* What the compositor reads *)

\* The steps that leave images, their readers and the waiting lanes alone.
LEMMA WaitsKept ==
  ASSUME Waits, UNCHANGED <<queue, rendering, reading, image_avail, waitsFor>>,
         pc' \in {"reset", "record"} =>
           pc \in {"reset", "record"} /\ lane' = lane /\ img' = img
  PROVE  Waits'
  BY DEF Waits, WaitsForRelease

\* A step keeps every lane that is to draw into an image on display waiting for its
\* release, and displays no image that a lane is to draw into.
LEMMA WaitsStep == TypeOK /\ LaneUse /\ Plates /\ Waits /\ [Next]_vars => Waits'
<1> SUFFICES ASSUME TypeOK, LaneUse, Plates, Waits, [Next]_vars PROVE Waits'
  OBVIOUS
<1> USE DEF windowVars, frameVars, flagVars, gpuVars, engineVars
<1>1. ASSUME NEW s \in Sizes, Configure(s) PROVE Waits'
  BY <1>1, WaitsKept DEF Configure
<1>2. CASE DrawFrame \/ Quit \/ WaitForFence
  BY <1>2, WaitsKept DEF DrawFrame, Quit, WaitForFence
<1>3. CASE AcquireOutOfDate \/ ResetAndNumber \/ Present
  BY <1>3, WaitsKept DEF AcquireOutOfDate, ResetAndNumber, Present
<1>4. CASE UNCHANGED vars
  BY <1>4, WaitsKept DEF vars
<1>5. ASSUME NEW i \in Images, AcquireImage(i) PROVE Waits'
  <2>1. /\ lane \in Lanes /\ image_avail \in [Lanes -> {"clean", "pending", "signaled"}]
        /\ waitsFor \in [Lanes -> Images \cup {NoImage}]
    BY DEF TypeOK
  <2>2. /\ pc' \in {"recreate", "reset"} /\ img' = i /\ lane' = lane
        /\ UNCHANGED <<queue, rendering, reading>>
        /\ i \in reading => image_avail'[lane] = "pending" /\ waitsFor'[lane] = i
        /\ \A l \in Lanes : l # lane =>
             image_avail'[l] = image_avail[l] /\ waitsFor'[l] = waitsFor[l]
    BY <1>5, <2>1 DEF AcquireImage
  <2>3. in_flight[lane]
    BY <1>5 DEF AcquireImage, LaneUse
  <2>4. \A k \in 1 .. Len(queue) : queue[k].lane \in Lanes /\ queue[k].lane # lane
    BY <2>3, SubmissionParts DEF LaneUse
  <2>5. \A k \in 1 .. Len(queue) : queue[k].img \in reading =>
          /\ image_avail'[queue[k].lane] = "pending"
          /\ waitsFor'[queue[k].lane] = queue[k].img
    BY <2>2, <2>4 DEF Waits, WaitsForRelease
  <2> QED BY <2>2, <2>5 DEF Waits, WaitsForRelease
<1>6. CASE Submit
  <2>1. /\ Len(queue) \in Nat /\ Len(queue') = Len(queue) + 1
        /\ \A k \in 1 .. Len(queue) : queue'[k] = queue[k]
        /\ queue'[Len(queue) + 1].lane = lane /\ queue'[Len(queue) + 1].img = img
    BY <1>6, QueueGrows
  <2>2. /\ UNCHANGED <<rendering, reading, image_avail, waitsFor>>
        /\ pc = "record" /\ pc' = "present"
    BY <1>6 DEF Submit
  <2>3. \A k \in 1 .. Len(queue') : queue'[k].img \in reading =>
          /\ image_avail[queue'[k].lane] = "pending"
          /\ waitsFor[queue'[k].lane] = queue'[k].img
    BY <2>1, <2>2 DEF Waits, WaitsForRelease
  <2>4. rendering => Head(queue') = Head(queue)
    <3>1. rendering => Len(queue) >= 1
      BY <2>1 DEF TypeOK
    <3>2. queue # <<>> => Head(queue) = queue[1]
      OBVIOUS
    <3>3. queue' # <<>> => Head(queue') = queue'[1]
      OBVIOUS
    <3> QED BY <2>1, <3>1, <3>2, <3>3
  <2> QED BY <2>2, <2>3, <2>4 DEF Waits, WaitsForRelease
<1>7. CASE RecreateSwapchain
  <2>1. queue' = <<>> /\ reading' = {} /\ pc' = "loop"
    BY <1>7 DEF RecreateSwapchain
  <2> QED BY <2>1 DEF Waits, WaitsForRelease
<1>8. CASE GpuStart
  <2>1. queue \in Seq(Submissions) /\ queue # <<>>
    BY <1>8 DEF GpuStart, TypeOK
  <2>2. Head(queue) = queue[1] /\ Len(queue) \in Nat /\ Len(queue) >= 1
    BY <2>1, MovedUp
  <2> DEFINE h == queue[1].lane
  <2>3. /\ h \in Lanes /\ \A k \in 1 .. Len(queue) : queue[k].lane \in Lanes
        /\ lane \in Lanes /\ image_avail \in [Lanes -> {"clean", "pending", "signaled"}]
    BY <2>2, SubmissionParts DEF TypeOK
  <2>4. /\ image_avail[h] = "signaled"
        /\ \A l \in Lanes : l # h => image_avail'[l] = image_avail[l]
        /\ UNCHANGED <<pc, lane, img, queue, waitsFor, reading>>
    BY <1>8, <2>2, <2>3 DEF GpuStart, MayStart
  <2>5. queue[1].img \notin reading
    BY <2>2, <2>4 DEF Waits, WaitsForRelease
  <2>6. \A k \in 1 .. Len(queue) : queue[k].img \in reading =>
          /\ image_avail'[queue[k].lane] = "pending"
          /\ waitsFor[queue[k].lane] = queue[k].img
    BY <2>2, <2>3, <2>4, <2>5 DEF Waits, WaitsForRelease, LaneUse
  <2>7. pc \in {"reset", "record"} /\ img \in reading =>
          image_avail'[lane] = "pending" /\ waitsFor[lane] = img
    BY <2>3, <2>4 DEF Waits, WaitsForRelease
  <2> QED BY <2>2, <2>4, <2>5, <2>6, <2>7 DEF Waits, WaitsForRelease
<1>9. CASE GpuFinish
  <2>1. /\ Len(queue) \in Nat /\ Len(queue) >= 1 /\ Len(queue') = Len(queue) - 1
        /\ \A k \in 1 .. Len(queue') : queue'[k] = queue[k + 1]
    BY <1>9, QueueMovesUp
  <2>2. /\ rendering' = FALSE
        /\ UNCHANGED <<pc, lane, img, image_avail, waitsFor, reading>>
    BY <1>9 DEF GpuFinish
  <2>3. \A k \in 1 .. Len(queue') : queue'[k].img \in reading =>
          /\ image_avail[queue'[k].lane] = "pending"
          /\ waitsFor[queue'[k].lane] = queue'[k].img
    BY <2>1 DEF Waits, WaitsForRelease
  <2> QED BY <2>2, <2>3 DEF Waits, WaitsForRelease
<1>10. CASE Show
  <2>1. Head(presents) \in Images /\ Head(presents) \in Presented
    BY <1>10, PresentedLess
  <2>2. /\ reading' = reading \cup {Head(presents)}
        /\ render_done[Head(presents)] = "signaled"
        /\ UNCHANGED <<pc, lane, img, image_avail, waitsFor, queue, rendering>>
    BY <1>10 DEF Show
  <2>3. \A k \in 1 .. Len(queue) : queue[k].img # Head(presents)
    BY <2>2 DEF Plates
  <2>4. pc \in {"reset", "record"} => img # Head(presents)
    BY <2>1 DEF Plates
  <2>5. rendering => Head(queue).img # Head(presents)
    <3>1. ASSUME rendering PROVE Head(queue) = queue[1] /\ 1 \in 1 .. Len(queue)
      BY <3>1, MovedUp DEF TypeOK
    <3> QED BY <3>1, <2>3
  <2> QED BY <2>2, <2>3, <2>4, <2>5 DEF Waits, WaitsForRelease
<1>11. ASSUME NEW i \in Images, Release(i) PROVE Waits'
  <2>1. /\ lane \in Lanes /\ waitsFor \in [Lanes -> Images \cup {NoImage}]
        /\ \A k \in 1 .. Len(queue) : queue[k].lane \in Lanes
    BY SubmissionParts DEF TypeOK
  <2>2. /\ reading' = reading \ {i}
        /\ UNCHANGED <<pc, lane, img, queue, rendering>>
        /\ \A l \in Lanes : waitsFor[l] # i =>
             image_avail'[l] = image_avail[l] /\ waitsFor'[l] = waitsFor[l]
    BY <1>11, <2>1 DEF Release
  <2> QED BY <2>1, <2>2 DEF Waits, WaitsForRelease
<1>12. ASSUME NEW l \in Lanes, ReleaseOld(l) PROVE Waits'
  <2>1. /\ lane \in Lanes /\ image_avail \in [Lanes -> {"clean", "pending", "signaled"}]
        /\ \A k \in 1 .. Len(queue) :
             queue[k].lane \in Lanes /\ queue[k].img \in Images
        /\ reading \subseteq Images /\ NoImage \notin Images
    BY SubmissionParts, VkAssumption DEF TypeOK, Images, NoImage
  <2>2. /\ UNCHANGED <<pc, lane, img, queue, rendering, reading, waitsFor>>
        /\ waitsFor[l] = NoImage
        /\ \A m \in Lanes : m # l => image_avail'[m] = image_avail[m]
    BY <1>12, <2>1 DEF ReleaseOld
  <2> QED BY <2>1, <2>2 DEF Waits, WaitsForRelease
<1> QED
  BY <1>1, <1>2, <1>3, <1>4, <1>5, <1>6, <1>7, <1>8, <1>9, <1>10, <1>11, <1>12
     DEF Next, Frame, Acquire, Terminated

\* The GPU never writes an image that the compositor reads, although acquire hands
\* images out before they are free, and whatever resizes come between.
THEOREM NoTearAlways == Spec => []NoTear
<1>1. Init => LaneUse /\ Waits
  BY DEF Init, LaneUse, Waits, WaitsForRelease, OnLane
<1>2. TypeOK /\ LaneUse /\ Plates /\ Waits /\ [Next]_vars => LaneUse' /\ Waits'
  BY LaneUseStep, WaitsStep
<1>3. Waits => NoTear
  BY DEF Waits, NoTear
<1> QED BY <1>1, <1>2, <1>3, PlatesInitially, PlatesStep, TypeCorrect, PTL DEF Spec
==============================================================================
