---------------------------- MODULE InferCellProofs ----------------------------
(***************************************************************************)
(* Theorems of InferCell for any number of outputs and iterations.         *)
(*                                                                         *)
(* FdsAccounted holds whatever fails, times out or is refused.  A step     *)
(* exchanges the tokens of one tensor, or the end resets them all: the     *)
(* lemmas on Held say what that does to the number of files.               *)
(*                                                                         *)
(* ReadyMeansDone needs the fences to work and a WebGPU device that can    *)
(* export them where the consumer needs that.  It rests on JobsPlaced:     *)
(* which queue a job that writes a tensor can be in decides whether the    *)
(* finish the host does instead of a fence is on the right queue.          *)
(*                                                                         *)
(* NoOverrun and ImplementsPromise rest on CellInv, whose parts are        *)
(* OrderInv and DataInv.  OrderInv: each queue has its submissions' order  *)
(* and, while an import and a generator of the producer's tensor are both  *)
(* in flight, the later one waits for a fence the earlier one signals.     *)
(* DataInv: memory holds the current input's result, or a job in flight    *)
(* will write it and nothing later overwrites it before it is read.  Both  *)
(* need the host to wait for its fences however long it takes.             *)
(***************************************************************************)
EXTENDS InferCell, TLAPS, FiniteSetTheorems, SequenceTheorems

------------------------------------------------------------------------------
(* The files that tokens hold *)

Holders(f) == {t \in Tensors : f[t] # NoFd}
Held(f) == Cardinality(Holders(f))

\* A cell has finitely many tensors: the producer's and one per output.
LEMMA TensorsFinite == IsFiniteSet(Tensors)
<1> DEFINE D == {Dst(i) : i \in Outs}
           g == [i \in Outs |-> Dst(i)]
<1>1. IsFiniteSet(Outs)
  BY CellAssumption, FS_Interval DEF Outs
<1>2. g \in Surjection(Outs, D)
  BY DEF Surjection
<1>3. IsFiniteSet(D)
  BY <1>1, <1>2, FS_Surjection
<1>4. IsFiniteSet(D \cup {Src})
  BY <1>3, FS_AddElement
<1>5. Tensors = D \cup {Src}
  BY DEF Tensors
<1> QED
  BY <1>4, <1>5

\* The number of files held is a number.
LEMMA HeldType == ASSUME NEW f PROVE IsFiniteSet(Holders(f)) /\ Held(f) \in Nat
<1>1. Holders(f) \in SUBSET Tensors
  BY DEF Holders
<1>2. IsFiniteSet(Holders(f))
  BY <1>1, TensorsFinite, FS_Subset
<1> QED
  BY <1>2, FS_CardinalityType DEF Held

\* Exchanging the file of one token.
LEMMA HeldChange ==
  ASSUME NEW f, f = [s \in Tensors |-> f[s]], NEW t \in Tensors, NEW v
  PROVE  Held([f EXCEPT ![t] = v]) = Held(f) - Open(f[t]) + Open(v)
<1> DEFINE g == [f EXCEPT ![t] = v]
<1>1. g[t] = v /\ (\A s \in Tensors : s # t => g[s] = f[s])
  OBVIOUS
<1>2. Held(f) \in Nat /\ IsFiniteSet(Holders(f))
  BY HeldType
<1>3. CASE v = NoFd
  <2>1. Holders(g) = Holders(f) \ {t}
    BY <1>1, <1>3 DEF Holders
  <2>2. Held(g) = IF t \in Holders(f) THEN Held(f) - 1 ELSE Held(f)
    BY <1>2, <2>1, FS_RemoveElement DEF Held
  <2> QED
    BY <1>2, <1>3, <2>2 DEF Open, Holders
<1>4. CASE v # NoFd
  <2>1. Holders(g) = Holders(f) \cup {t}
    BY <1>1, <1>4 DEF Holders
  <2>2. Held(g) = IF t \in Holders(f) THEN Held(f) ELSE Held(f) + 1
    BY <1>2, <2>1, FS_AddElement DEF Held
  <2> QED
    BY <1>2, <1>4, <2>2 DEF Open, Holders
<1> QED
  BY <1>3, <1>4

\* After a reset of every token nothing is held.
LEMMA HeldNone == Held([t \in Tensors |-> NoFd]) = 0
BY FS_EmptySet DEF Held, Holders

------------------------------------------------------------------------------
(* What a step does to the tokens *)

\* infer_sync_set and infer_sync_reset on the two tokens of one tensor
Exchanged(t, a, b) ==
  /\ ready' = [ready EXCEPT ![t] = a]
  /\ released' = [released EXCEPT ![t] = b]
  /\ fds' = fds - Open(ready[t]) - Open(released[t]) + Open(a) + Open(b)

TokenStep ==
  \/ UNCHANGED tokenVars
  \/ \E t \in Tensors, a \in Files, b \in Files : Exchanged(t, a, b)
  \/ /\ ready' = [t \in Tensors |-> NoFd] /\ released' = [t \in Tensors |-> NoFd]
     /\ fds' = fds - Held(ready) - Held(released)

TokensOK ==
  /\ ready \in [Tensors -> Files] /\ released \in [Tensors -> Files] /\ fds \in Int

\* Such a step keeps the tokens in their range, and the count exact.
LEMMA TokenStepCounts ==
  ASSUME TokensOK, TokenStep
  PROVE  TokensOK' /\ (FdsAccounted => FdsAccounted')
<1> DEFINE F(r, l, n) == n = Held(r) + Held(l)
<1>0. /\ FdsAccounted <=> F(ready, released, fds)
      /\ FdsAccounted' <=> F(ready', released', fds')
  BY DEF FdsAccounted, Held, Holders
<1>1. NoFd \in Files
  BY DEF Files
<1>2. Held(ready) \in Nat /\ Held(released) \in Nat
  BY HeldType
<1>3. \A f : Open(f) \in Int
  BY DEF Open
<1>4. CASE UNCHANGED tokenVars
  BY <1>0, <1>4 DEF tokenVars, TokensOK
<1>5. ASSUME NEW t \in Tensors, NEW a \in Files, NEW b \in Files, Exchanged(t, a, b)
      PROVE  TokensOK' /\ (FdsAccounted => FdsAccounted')
  <2>1. Held(ready') = Held(ready) - Open(ready[t]) + Open(a)
    BY <1>5, HeldChange DEF Exchanged, TokensOK
  <2>2. Held(released') = Held(released) - Open(released[t]) + Open(b)
    BY <1>5, HeldChange DEF Exchanged, TokensOK
  <2>3. fds' \in Int
    BY <1>3, <1>5 DEF Exchanged, TokensOK
  <2>4. TokensOK'
    BY <1>5, <2>3 DEF Exchanged, TokensOK
  <2>5. fds' = fds - Open(ready[t]) - Open(released[t]) + Open(a) + Open(b)
    BY <1>5 DEF Exchanged
  <2>6. F(ready, released, fds) => F(ready', released', fds')
    <3>1. /\ Open(ready[t]) \in Int /\ Open(released[t]) \in Int /\ Open(a) \in Int
          /\ Open(b) \in Int /\ fds \in Int
      BY <1>3 DEF TokensOK
    <3> QED
      BY <1>2, <2>1, <2>2, <2>5, <3>1
  <2> QED
    BY <1>0, <2>4, <2>6
<1>6. CASE /\ ready' = [t \in Tensors |-> NoFd] /\ released' = [t \in Tensors |-> NoFd]
           /\ fds' = fds - Held(ready) - Held(released)
  <2>1. Held(ready') = 0 /\ Held(released') = 0
    BY <1>6, HeldNone
  <2>2. TokensOK'
    BY <1>1, <1>2, <1>6 DEF TokensOK
  <2>3. F(ready, released, fds) => F(ready', released', fds')
    BY <1>2, <1>6, <2>1
  <2> QED
    BY <1>0, <2>2, <2>3
<1> QED
  BY <1>4, <1>5, <1>6 DEF TokenStep
------------------------------------------------------------------------------
(* Ranges of the helpers *)

TypeInv == TypeOK /\ JobsPlaced /\ FinishPlace

\* What the engine reads and writes is memory of the cell; the APIs have queues.
LEMMA MemoryParts ==
  /\ Src \in Tensors /\ (\A i \in Outs : Dst(i) \in Tensors)
  /\ Tensors \subseteq Memory
  /\ EngineIn \in Memory /\ In \in Memory
  /\ \A i \in Outs : Out(i) \in Memory /\ EngineOut(i) \in Memory
  /\ Apis = {"gl", "vk", "wgpu"}
  /\ NoFd \in Files /\ Ids \subseteq Files
  /\ FromMemory = 0
BY DEF Tensors, Memory, EngineIn, EngineOut, Apis, Files, FromMemory

\* A job's name in the iteration and with the output at hand.
LEMMA IdType ==
  ASSUME TypeOK, NEW stage \in {"gen", "in", "run", "out"}, NEW i \in Nat
  PROVE  Id(stage, i) \in Ids /\ Id(stage, i).stage = stage /\ Id(stage, i).o = i
BY DEF TypeOK, Id, Ids

\* The edges by the domains they join.
LEMMA Edges ==
  ASSUME TypeOK
  PROVE  /\ OutEdge = "upload" => cell.dst \in {"gl", "vk"} /\ cell.ep = "cpu"
         /\ OutEdge = "dmabuf_write" => cell.dst \in {"gl", "vk", "dmabuf"} /\ cell.ep = "webgpu"
         /\ OutEdge = "write_buffer" => cell.dst = "wgpu"
         /\ HandOver(OutEdge) /\ cell.ep = "webgpu" => cell.dst = "wgpu"
         /\ InEdge = "dmabuf_import" => cell.ep = "webgpu"
<1>1. cell.dst \in Domains /\ cell.src \in Domains /\ cell.ep \in Engines
  BY DEF TypeOK, AllCells
<1>2. \/ cell.ep = "cpu" /\ Native(cell.ep) = "cpu"
      \/ cell.ep = "webgpu" /\ Native(cell.ep) = "wgpu"
  BY <1>1 DEF Native, Engines
<1>3. cell.dst \in {"cpu", "gl", "vk", "wgpu", "dmabuf"}
  BY <1>1 DEF Domains
<1>4. cell.src \in {"cpu", "gl", "vk", "wgpu", "dmabuf"}
  BY <1>1 DEF Domains
<1>5. CASE cell.ep = "cpu"
  <2>1. OutEdge = Mechanism("cpu", cell.dst) /\ InEdge = Mechanism(cell.src, "cpu")
    BY <1>2, <1>5 DEF OutEdge, InEdge
  <2>2. /\ cell.dst = "cpu" => OutEdge = "identity"
        /\ cell.dst \in {"gl", "vk"} => OutEdge = "upload"
        /\ cell.dst = "wgpu" => OutEdge = "write_buffer"
        /\ cell.dst = "dmabuf" => OutEdge = "mmap"
    BY <2>1 DEF Mechanism, Apis
  <2>3. InEdge # "dmabuf_import"
    BY <1>4, <2>1 DEF Mechanism, Apis
  <2> QED
    BY <1>3, <1>5, <2>2, <2>3
<1>6. CASE cell.ep = "webgpu"
  <2>1. OutEdge = Mechanism("wgpu", cell.dst)
    BY <1>2, <1>6 DEF OutEdge
  <2>2. /\ cell.dst = "cpu" => OutEdge = "readback"
        /\ cell.dst \in {"gl", "vk", "dmabuf"} => OutEdge = "dmabuf_write"
        /\ cell.dst = "wgpu" => OutEdge = "identity"
    BY <2>1 DEF Mechanism, Apis
  <2> QED
    BY <1>3, <1>6, <2>2 DEF HandOver
<1> QED
  BY <1>2, <1>5, <1>6

------------------------------------------------------------------------------
(* What a step does to the tokens *)

\* Each call exchanges the tokens of at most one tensor; ReleaseTensors resets all.
LEMMA HostTokens == ASSUME TypeInv, Host PROVE TokenStep
<1> USE MemoryParts DEF At
<1>0. /\ ready \in [Tensors -> Files] /\ released \in [Tensors -> Files] /\ fds \in Int
      /\ o \in Outs /\ o \in Nat /\ 0 \in Nat
  BY DEF TypeInv, TypeOK, Outs
<1>1. ready = [ready EXCEPT ![Src] = ready[Src]] /\ ready[Src] \in Files /\ released[Src] \in Files
  BY <1>0
<1>2. \A i \in Outs : ready = [ready EXCEPT ![Dst(i)] = ready[Dst(i)]] /\ ready[Dst(i)] \in Files
                      /\ released = [released EXCEPT ![Dst(i)] = released[Dst(i)]]
                      /\ released[Dst(i)] \in Files
  BY <1>0
<1>3. released = [released EXCEPT ![Src] = released[Src]]
  BY <1>0
<1>4. Id("gen", 0) \in Files /\ Id("in", 0) \in Files /\ Id("out", o) \in Files
  BY <1>0, IdType DEF TypeInv
<1>5. \A f : Open(f) \in Int
  BY DEF Open
<1>6. Open(NoFd) = 0
  BY DEF Open
<1>a. ASSUME NEW t \in Tensors, NEW a \in Files, NEW b \in Files, Exchanged(t, a, b)
      PROVE  TokenStep
  BY <1>a DEF TokenStep
<1>10. CASE GenCpu \/ GenWgpu \/ InView \/ InWrite \/ InReadback \/ RunCpu \/ RunWebgpu
            \/ OutReadback \/ OutWrite \/ WaitReady \/ ReadOutput \/ Check
  BY <1>10 DEF GenCpu, GenWgpu, InView, InWrite, InReadback, RunCpu, RunWebgpu,
               OutReadback, OutWrite, WaitReady, ReadOutput, Check, TokenStep
<1>11. CASE InTimeOut \/ WaitReadyTimeOut
  BY <1>11 DEF InTimeOut, WaitReadyTimeOut, GiveUp, TokenStep
<1>12. CASE GenDmabuf
  <2>1. Exchanged(Src, NoFd, NoFd)
    BY <1>0, <1>5, <1>6, <1>12 DEF GenDmabuf, SetReady, SetReleased, Exchanged
  <2> QED
    BY <2>1, <1>a
<1>13. ASSUME NEW q, NEW t \in Tensors, NEW id \in Files, NEW next, NEW finish, NEW gate,
              HonourReleased(q, t, gate), SignalReady(q, t, id, next, finish),
              ready = [ready EXCEPT ![t] = ready[t]]
       PROVE  TokenStep
  <2>1. released' = [released EXCEPT ![t] = NoFd]
    BY <1>13 DEF HonourReleased, SetReleased
  <2>0. Open(ready[t]) \in Int /\ Open(released[t]) \in Int
    BY <1>5
  <2>2. CASE q \in fenced
    <3>1. PICK f \in {id} \cup (IF MayFail THEN {NoFd} ELSE {}) :
            SetReady(t, f) /\ fds' = fds - Open(released[t]) - Open(ready[t]) + Open(f)
      BY <1>13, <2>2 DEF SignalReady
    <3>2. f \in Files /\ Open(f) \in Int
      BY <1>5, <1>13, <3>1
    <3>3. Exchanged(t, f, NoFd)
      BY <1>0, <1>6, <2>0, <2>1, <3>1, <3>2 DEF SetReady, Exchanged
    <3> QED
      BY <1>13, <3>2, <3>3, <1>a
  <2>3. CASE q \notin fenced
    <3>1. UNCHANGED ready /\ fds' = fds - Open(released[t])
      BY <1>13, <2>3 DEF SignalReady
    <3>2. Exchanged(t, ready[t], NoFd)
      BY <1>0, <1>6, <1>13, <2>0, <2>1, <3>1 DEF Exchanged
    <3>3. ready[t] \in Files
      BY <1>0
    <3> QED
      BY <3>2, <3>3, <1>a
  <2> QED
    BY <2>2, <2>3
<1>14. CASE GenGl
  <2>1. PICK gate : HonourReleased("gl", Src, gate)
    BY <1>14 DEF GenGl
  <2>2. SignalReady("gl", Src, Id("gen", 0), Go("in"), "finish_gen")
    BY <1>14 DEF GenGl
  <2> QED
    BY <1>1, <1>4, <1>13, <2>1, <2>2
<1>15. CASE GenVk
  <2>1. PICK gate : HonourReleased("vk", Src, gate)
    BY <1>15 DEF GenVk
  <2>2. SignalReady("vk", Src, Id("gen", 0), Go("in"), "finish_gen")
    BY <1>15 DEF GenVk
  <2> QED
    BY <1>1, <1>4, <1>13, <2>1, <2>2
<1>16. CASE OutUploadGl
  <2>1. PICK gate : HonourReleased("gl", Dst(o), gate)
    BY <1>16 DEF OutUploadGl
  <2>2. SignalReady("gl", Dst(o), Id("out", o), GoOver("out", "ready"), "finish_out")
    BY <1>16 DEF OutUploadGl
  <2> QED
    BY <1>0, <1>2, <1>4, <1>13, <2>1, <2>2
<1>17. CASE FinishGen
  <2>1. Exchanged(Src, NoFd, released[Src])
    BY <1>0, <1>3, <1>5, <1>6, <1>17 DEF FinishGen, SetReady, Exchange, Exchanged
  <2> QED
    BY <1>1, <2>1, <1>a
<1>18. CASE FinishOut
  <2>1. Exchanged(Dst(o), NoFd, released[Dst(o)])
    BY <1>0, <1>2, <1>5, <1>6, <1>18 DEF FinishOut, SetReady, Exchange, Exchanged
  <2> QED
    BY <1>0, <1>2, <2>1, <1>a
<1>19. CASE InImport
  <2>1. PICK f \in {NoFd, Id("in", 0)} :
          SetReleased(Src, f) /\ Exchange(released[Src], f) /\ UNCHANGED ready
    BY <1>19 DEF InImport
  <2>2. Exchanged(Src, ready[Src], f)
    BY <1>0, <1>1, <1>5, <2>1 DEF SetReleased, Exchange, Exchanged
  <2> QED
    BY <1>1, <1>4, <2>1, <2>2, <1>a
<1>20. CASE OutImport
  <2>1. PICK f \in {NoFd, Id("out", o)} :
          /\ SetReady(Dst(o), f)
          /\ fds' = fds - Open(released[Dst(o)]) - Open(ready[Dst(o)]) + Open(f)
    BY <1>20 DEF OutImport
  <2>2. SetReleased(Dst(o), NoFd)
    BY <1>20 DEF OutImport
  <2>3. Exchanged(Dst(o), f, NoFd)
    BY <1>0, <1>5, <1>6, <2>1, <2>2 DEF SetReady, SetReleased, Exchanged
  <2> QED
    BY <1>0, <1>4, <2>1, <2>3, <1>a
<1>21. CASE OutUploadVk
  <2>1. Exchanged(Dst(o), NoFd, NoFd)
    BY <1>0, <1>5, <1>6, <1>21 DEF OutUploadVk, SetReady, SetReleased, Exchanged
  <2> QED
    BY <1>0, <2>1, <1>a
<1>22. CASE CallFails
  <2>1. CASE UNCHANGED tokenVars
    BY <2>1 DEF TokenStep
  <2>2. CASE SetReleased(Src, NoFd) /\ Exchange(released[Src], NoFd) /\ UNCHANGED ready
    <3>1. Exchanged(Src, ready[Src], NoFd)
      BY <1>0, <1>1, <1>5, <1>6, <2>2 DEF SetReleased, Exchange, Exchanged
    <3> QED
      BY <1>1, <3>1, <1>a
  <2>3. CASE /\ SetReleased(Dst(o), NoFd) /\ SetReady(Dst(o), NoFd)
             /\ fds' = fds - Open(released[Dst(o)]) - Open(ready[Dst(o)])
    <3>1. Exchanged(Dst(o), NoFd, NoFd)
      BY <1>0, <1>5, <1>6, <2>3 DEF SetReady, SetReleased, Exchanged
    <3> QED
      BY <1>0, <3>1, <1>a
  <2> QED
    BY <1>22, <2>1, <2>2, <2>3 DEF CallFails
<1>23. CASE ReleaseTensors
  BY <1>23 DEF ReleaseTensors, TokenStep, Held, Holders
<1> QED
  BY <1>10, <1>11, <1>12, <1>14, <1>15, <1>16, <1>17, <1>18, <1>19, <1>20, <1>21, <1>22, <1>23
     DEF Host, Calls, Gen, OutputEdge
------------------------------------------------------------------------------
(* What a step does to the queues, the memory and the host's place *)

Submitted(q, j) == queue' = [queue EXCEPT ![q] = Append(@, j)]

\* A call submits at most one job, and in the queue where its writes are waited for.
LEMMA HostQueue ==
  ASSUME TypeInv, Host
  PROVE  UNCHANGED queue \/ \E q \in Apis, j \in Jobs : Placed(q, j) /\ Submitted(q, j)
<1> USE MemoryParts DEF At
<1>0. /\ ready \in [Tensors -> Files] /\ released \in [Tensors -> Files]
      /\ mem \in [Memory -> Nat] /\ it \in Nat \ {0}
      /\ o \in Outs /\ o \in Nat /\ 0 \in Nat
  BY DEF TypeInv, TypeOK, Outs
<1>1. /\ Id("gen", 0) \in Ids /\ Id("gen", 0).stage = "gen"
      /\ Id("in", 0) \in Ids /\ Id("in", 0).stage = "in"
      /\ Id("run", 0) \in Ids /\ Id("run", 0).stage = "run"
      /\ Id("out", o) \in Ids /\ Id("out", o).stage = "out" /\ Id("out", o).o = o
  BY <1>0, IdType DEF TypeInv
<1>2. ASSUME NEW q \in Apis, NEW id \in Ids, NEW wait \in Files, NEW data \in Nat,
             Placed(q, [id |-> id, wait |-> wait, data |-> data]), Submit(q, id, wait, data)
      PROVE  \E p \in Apis, j \in Jobs : Placed(p, j) /\ Submitted(p, j)
  <2> DEFINE j == [id |-> id, wait |-> wait, data |-> data]
  <2>1. j \in Jobs
    BY <1>2 DEF Jobs
  <2>2. Submitted(q, j)
    BY <1>2 DEF Submit, Submitted
  <2> QED
    BY <1>2, <2>1, <2>2
<1>3. ready[Src] \in Files /\ released[Src] \in Files
      /\ ready[Dst(o)] \in Files /\ released[Dst(o)] \in Files
      /\ mem[Src] \in Nat /\ mem[Out(o)] \in Nat
  BY <1>0
<1>10. CASE GenCpu \/ GenDmabuf \/ FinishGen \/ InView \/ InReadback \/ RunCpu
            \/ OutReadback \/ FinishOut \/ OutUploadVk \/ WaitReady \/ ReadOutput \/ Check
            \/ ReleaseTensors \/ CallFails
  BY <1>10 DEF GenCpu, GenDmabuf, FinishGen, InView, InReadback, RunCpu, OutReadback,
               FinishOut, OutUploadVk, WaitReady, ReadOutput, Check, ReleaseTensors, CallFails
<1>11. CASE InTimeOut \/ WaitReadyTimeOut
  BY <1>11 DEF InTimeOut, WaitReadyTimeOut, GiveUp
<1>12. CASE GenWgpu
  <2>1. Placed("wgpu", [id |-> Id("gen", 0), wait |-> NoFd, data |-> it])
    BY <1>0, <1>1, <1>12 DEF GenWgpu, Placed
  <2> QED
    BY <1>0, <1>1, <1>2, <1>12, <2>1 DEF GenWgpu
<1>13. CASE GenGl
  <2>1. PICK gate \in Gates(Src) : Submit("gl", Id("gen", 0), gate, it)
    BY <1>13 DEF GenGl
  <2>2. gate \in Files
    BY <1>3 DEF Gates
  <2>3. Placed("gl", [id |-> Id("gen", 0), wait |-> gate, data |-> it])
    BY <1>0, <1>1, <1>13 DEF GenGl, Placed
  <2> QED
    BY <1>0, <1>1, <1>2, <2>1, <2>2, <2>3
<1>14. CASE GenVk
  <2>1. PICK gate \in Gates(Src) : Submit("vk", Id("gen", 0), gate, it)
    BY <1>14 DEF GenVk
  <2>2. gate \in Files
    BY <1>3 DEF Gates
  <2>3. Placed("vk", [id |-> Id("gen", 0), wait |-> gate, data |-> it])
    BY <1>0, <1>1, <1>14 DEF GenVk, Placed
  <2> QED
    BY <1>0, <1>1, <1>2, <2>1, <2>2, <2>3
<1>15. CASE InWrite
  <2>1. Placed("wgpu", [id |-> Id("in", 0), wait |-> NoFd, data |-> mem[Src]])
    BY <1>1 DEF Placed
  <2> QED
    BY <1>1, <1>2, <1>3, <1>15, <2>1 DEF InWrite
<1>16. CASE InImport
  <2>1. PICK f : ImportAccess(Id("in", 0), ready[Src], f)
    BY <1>16 DEF InImport
  <2>2. PICK wait \in {ready[Src], NoFd} : Submit("wgpu", Id("in", 0), wait, FromMemory)
    BY <2>1 DEF ImportAccess, Acquired
  <2>3. Placed("wgpu", [id |-> Id("in", 0), wait |-> wait, data |-> FromMemory])
    BY <1>1 DEF Placed
  <2>4. wait \in Files
    BY <1>3
  <2> QED
    BY <1>0, <1>1, <1>2, <2>2, <2>3, <2>4
<1>17. CASE RunWebgpu
  <2>1. Placed("wgpu", [id |-> Id("run", 0), wait |-> NoFd, data |-> FromMemory])
    BY <1>1, <1>17 DEF RunWebgpu, Placed
  <2> QED
    BY <1>0, <1>1, <1>2, <1>17, <2>1 DEF RunWebgpu
<1>18. CASE OutWrite
  <2>1. Placed("wgpu", [id |-> Id("out", o), wait |-> NoFd, data |-> mem[Out(o)]])
    BY <1>0, <1>1, <1>18 DEF OutWrite, Placed
  <2> QED
    BY <1>1, <1>2, <1>3, <1>18, <2>1 DEF OutWrite
<1>19. CASE OutImport
  <2>1. PICK f : ImportAccess(Id("out", o), released[Dst(o)], f)
    BY <1>19 DEF OutImport
  <2>2. PICK wait \in {released[Dst(o)], NoFd} : Submit("wgpu", Id("out", o), wait, FromMemory)
    BY <2>1 DEF ImportAccess, Acquired
  <2>3. Placed("wgpu", [id |-> Id("out", o), wait |-> wait, data |-> FromMemory])
    BY <1>0, <1>1, <1>19 DEF OutImport, Placed
  <2>4. wait \in Files
    BY <1>3
  <2> QED
    BY <1>0, <1>1, <1>2, <2>2, <2>3, <2>4
<1>20. CASE OutUploadGl
  <2>1. PICK gate \in Gates(Dst(o)) : Submit("gl", Id("out", o), gate, mem[Out(o)])
    BY <1>20 DEF OutUploadGl
  <2>2. gate \in Files
    BY <1>3 DEF Gates
  <2>3. Placed("gl", [id |-> Id("out", o), wait |-> gate, data |-> mem[Out(o)]])
    BY <1>0, <1>1, <1>20 DEF OutUploadGl, Placed
  <2> QED
    BY <1>1, <1>2, <1>3, <2>1, <2>2, <2>3
<1> QED
  BY <1>10, <1>11, <1>12, <1>13, <1>14, <1>15, <1>16, <1>17, <1>18, <1>19, <1>20
     DEF Host, Calls, Gen, OutputEdge

\* The host thread stays in its loops.
LEMMA HostPlace ==
  ASSUME TypeInv, Host
  PROVE  UNCHANGED <<cell, fenced>> /\ it' \in Nat \ {0} /\ o' \in Outs /\ FinishPlace'
<1> USE DEF At, Go
<1>0. it \in Nat \ {0} /\ o \in Outs /\ NOut \in Nat \ {0} /\ Outs = 1 .. NOut
  BY CellAssumption DEF TypeInv, TypeOK, Outs
<1>1. UNCHANGED <<cell, fenced>>
  BY DEF Host, Calls, Gen, GenCpu, GenWgpu, GenDmabuf, GenGl, GenVk, FinishGen, InView, InWrite,
         InImport, InReadback, RunCpu, RunWebgpu, OutputEdge, OutReadback, OutWrite, OutImport,
         OutUploadGl, FinishOut, OutUploadVk, WaitReady, ReadOutput, Check, ReleaseTensors,
         InTimeOut, WaitReadyTimeOut, CallFails
<1>2. OutEdge' = OutEdge
  BY <1>1 DEF OutEdge
<1>3. ASSUME NEW p, NEW q, GoOver(p, q) PROVE it' = it /\ o' \in Outs /\ pc' \in {p, q}
  BY <1>0, <1>3 DEF GoOver
<1>4. ASSUME NEW p, p # "finish_out", Go(p) PROVE it' = it /\ o' \in Outs /\ pc' # "finish_out"
  BY <1>0, <1>4
<1>5. ASSUME it' \in Nat \ {0}, o' \in Outs, pc' # "finish_out"
      PROVE  it' \in Nat \ {0} /\ o' \in Outs /\ FinishPlace'
  BY <1>5 DEF FinishPlace
<1>10. CASE GenCpu \/ GenWgpu \/ GenDmabuf
  BY <1>0, <1>10 DEF GenCpu, GenWgpu, GenDmabuf, FinishPlace
<1>11. CASE GenGl \/ GenVk
  BY <1>0, <1>11 DEF GenGl, GenVk, SignalReady, FinishPlace
<1>12. CASE FinishGen \/ InView \/ InWrite \/ InImport \/ InReadback
  BY <1>0, <1>12 DEF FinishGen, InView, InWrite, InImport, InReadback, FinishPlace
<1>13. CASE InTimeOut \/ WaitReadyTimeOut \/ CallFails \/ ReleaseTensors
  BY <1>0, <1>13 DEF InTimeOut, WaitReadyTimeOut, GiveUp, CallFails, ReleaseTensors, FinishPlace
<1>14. CASE RunCpu \/ RunWebgpu
  <2>1. AfterRun # "finish_out"
    BY DEF AfterRun
  <2> QED
    BY <1>0, <1>1, <1>4, <1>5, <1>14, <2>1 DEF RunCpu, RunWebgpu
<1>15. CASE OutReadback \/ OutWrite \/ OutImport \/ FinishOut \/ OutUploadVk
  <2>1. GoOver("out", "ready")
    BY <1>15 DEF OutReadback, OutWrite, OutImport, FinishOut, OutUploadVk
  <2> QED
    BY <1>0, <1>1, <1>3, <1>5, <2>1
<1>16. CASE OutUploadGl
  <2>1. CASE "gl" \in fenced
    <3>1. GoOver("out", "ready")
      BY <1>16, <2>1 DEF OutUploadGl, SignalReady
    <3> QED
      BY <1>0, <1>1, <1>3, <1>5, <3>1
  <2>2. CASE "gl" \notin fenced
    <3>1. Go("finish_out") /\ OutEdge = "upload" /\ cell.dst = "gl"
      BY <1>16, <2>2 DEF OutUploadGl, SignalReady
    <3> QED
      BY <1>0, <1>1, <1>2, <3>1 DEF FinishPlace
  <2> QED
    BY <2>1, <2>2
<1>17. CASE WaitReady
  BY <1>0, <1>1, <1>3, <1>5, <1>17 DEF WaitReady
<1>18. CASE ReadOutput
  BY <1>0, <1>1, <1>3, <1>5, <1>18 DEF ReadOutput
<1>19. CASE Check
  <2>1. o' = o /\ pc' # "finish_out" /\ it' \in {it, it + 1}
    BY <1>19 DEF Check, NextIteration
  <2> QED
    BY <1>0, <1>1, <1>5, <2>1
<1> QED
  BY <1>1, <1>10, <1>11, <1>12, <1>13, <1>14, <1>15, <1>16, <1>17, <1>18, <1>19
     DEF Host, Calls, Gen, OutputEdge

\* Every write puts an input's number into memory.
LEMMA HostMemory == ASSUME TypeInv, Host PROVE mem' \in [Memory -> Nat]
<1> USE MemoryParts
<1>0. mem \in [Memory -> Nat] /\ it \in Nat /\ o \in Outs
  BY DEF TypeInv, TypeOK
<1>1. CASE GenCpu \/ GenDmabuf
  BY <1>0, <1>1 DEF GenCpu, GenDmabuf
<1>2. CASE InReadback \/ OutReadback \/ OutUploadVk
  BY <1>0, <1>2 DEF InReadback, OutReadback, OutUploadVk
<1>3. CASE RunCpu
  BY <1>0, <1>3 DEF RunCpu
<1>4. CASE UNCHANGED mem
  BY <1>0, <1>4
<1>5. CASE GenWgpu \/ GenGl \/ GenVk \/ FinishGen \/ InView \/ InWrite \/ InImport \/ RunWebgpu
           \/ OutWrite \/ OutImport \/ OutUploadGl \/ FinishOut \/ WaitReady \/ ReadOutput \/ Check
           \/ ReleaseTensors \/ CallFails
  BY <1>4, <1>5 DEF GenWgpu, GenGl, GenVk, FinishGen, InView, InWrite, InImport, RunWebgpu, OutWrite,
                    OutImport, OutUploadGl, FinishOut, WaitReady, ReadOutput, Check,
                    ReleaseTensors, CallFails
<1>6. CASE InTimeOut \/ WaitReadyTimeOut
  BY <1>4, <1>6 DEF InTimeOut, WaitReadyTimeOut, GiveUp
<1> QED
  BY <1>1, <1>2, <1>3, <1>5, <1>6 DEF Host, Calls, Gen, OutputEdge

------------------------------------------------------------------------------
(* The type invariant *)

\* A queue with one more job that is well placed.
LEMMA AppendedQueue ==
  ASSUME TypeInv, UNCHANGED cell, NEW q \in Apis, NEW j \in Jobs, Placed(q, j), Submitted(q, j)
  PROVE  queue' \in [Apis -> Seq(Jobs)] /\ JobsPlaced'
<1>0. queue \in [Apis -> Seq(Jobs)] /\ JobsPlaced
  BY DEF TypeInv, TypeOK
<1>1. queue[q] \in Seq(Jobs) /\ Append(queue[q], j) \in Seq(Jobs)
  BY <1>0
<1>2. queue' = [queue EXCEPT ![q] = Append(queue[q], j)]
  BY DEF Submitted
<1>3. queue' \in [Apis -> Seq(Jobs)]
  BY <1>0, <1>1, <1>2
<1>4. \A p, a : Placed(p, a)' <=> Placed(p, a)
  BY DEF Placed, OutEdge
<1>5. ASSUME NEW p \in Apis, NEW k \in 1 .. Len(queue'[p]) PROVE Placed(p, queue'[p][k])
  <2>1. CASE p # q
    BY <1>0, <1>2, <1>5, <2>1 DEF JobsPlaced
  <2>2. CASE p = q
    <3>1. queue'[p] = Append(queue[q], j)
      BY <1>0, <1>2, <2>2
    <3>2. Len(queue'[p]) = Len(queue[q]) + 1 /\ Len(queue[q]) \in Nat
      BY <1>1, <3>1
    <3>3. CASE k = Len(queue[q]) + 1
      BY <1>1, <2>2, <3>1, <3>3
    <3>4. CASE k \in 1 .. Len(queue[q])
      <4>1. queue'[p][k] = queue[q][k]
        BY <1>1, <3>1, <3>4
      <4> QED
        BY <1>0, <2>2, <3>4, <4>1 DEF JobsPlaced
    <3> QED
      BY <1>5, <3>2, <3>3, <3>4
  <2> QED
    BY <2>1, <2>2
<1>6. JobsPlaced'
  BY <1>4, <1>5 DEF JobsPlaced
<1> QED
  BY <1>3, <1>6

\* A queue without its oldest job: the others keep their place.
LEMMA ShortenedQueue ==
  ASSUME TypeInv, NEW q \in Apis, queue[q] # <<>>, queue' = [queue EXCEPT ![q] = Tail(@)]
  PROVE  /\ queue' \in [Apis -> Seq(Jobs)]
         /\ \A p \in Apis : \A k \in 1 .. Len(queue'[p]) :
              \E i \in 1 .. Len(queue[p]) : queue'[p][k] = queue[p][i]
<1>0. queue \in [Apis -> Seq(Jobs)]
  BY DEF TypeInv, TypeOK
<1>1. queue[q] \in Seq(Jobs) /\ Tail(queue[q]) \in Seq(Jobs)
  BY <1>0
<1>2. queue' \in [Apis -> Seq(Jobs)]
  BY <1>0, <1>1
<1>3. ASSUME NEW p \in Apis, NEW k \in 1 .. Len(queue'[p])
      PROVE  \E i \in 1 .. Len(queue[p]) : queue'[p][k] = queue[p][i]
  <2>1. CASE p # q
    BY <1>0, <1>3, <2>1
  <2>2. CASE p = q
    <3>1. queue'[p] = Tail(queue[q])
      BY <1>0, <2>2
    <3>2. /\ Len(queue'[p]) = Len(queue[q]) - 1 /\ Len(queue[q]) \in Nat
          /\ \A i \in 1 .. Len(queue'[p]) : queue'[p][i] = queue[q][i + 1]
      BY <1>1, <3>1, HeadTailProperties, LenProperties
    <3>3. k + 1 \in 1 .. Len(queue[q]) /\ queue'[p][k] = queue[q][k + 1]
      BY <1>3, <3>1, <3>2
    <3>4. k + 1 \in 1 .. Len(queue[p]) /\ queue'[p][k] = queue[p][k + 1]
      BY <2>2, <3>3
    <3> QED
      BY <3>4, Zenon
  <2> QED
    BY <2>1, <2>2
<1> QED
  BY <1>2, <1>3

\* What a job writes is what it found in memory that exists.
LEMMA ContentsType == ASSUME TypeInv, NEW q \in Apis, NEW j \in Jobs, Placed(q, j) PROVE Contents(j) \in Nat
<1> USE MemoryParts
<1>0. mem \in [Memory -> Nat] /\ j.data \in Nat /\ j.id.stage \in {"gen", "in", "run", "out"}
  BY DEF TypeInv, TypeOK, Jobs, Ids
<1>1. CASE j.data # FromMemory
  BY <1>0, <1>1 DEF Contents
<1>2. CASE j.data = FromMemory
  <2>1. j.id.stage # "gen" /\ (j.id.stage = "out" => j.id.o \in Outs)
    BY <1>2 DEF Placed
  <2>2. \E m \in Memory : Reads(j) = {m}
    <3>1. CASE j.id.stage = "in"
      BY <1>2, <3>1 DEF Reads
    <3>2. CASE j.id.stage = "run"
      BY <1>2, <3>2 DEF Reads
    <3>3. CASE j.id.stage = "out"
      BY <1>2, <2>1, <3>3 DEF Reads
    <3> QED
      BY <1>0, <2>1, <3>1, <3>2, <3>3
  <2>3. PICK m \in Memory : Reads(j) = {m}
    BY <2>2
  <2>4. (CHOOSE x \in Reads(j) : TRUE) = m
    BY <2>3
  <2> QED
    BY <1>0, <1>2, <2>4 DEF Contents
<1> QED
  BY <1>1, <1>2

\* A cell starts with empty queues and without tokens.
LEMMA TypeInit == Init => TypeInv
<1> SUFFICES ASSUME Init PROVE TypeInv
  OBVIOUS
<1>1. cell \in AllCells /\ fenced \subseteq Apis
  BY CellAssumption DEF Init
<1>2. it \in Nat \ {0} /\ o \in Outs
  BY CellAssumption DEF Init, Outs
<1>3. queue = [q \in Apis |-> <<>>] /\ queue \in [Apis -> Seq(Jobs)]
  BY DEF Init
<1>4. /\ mem \in [Memory -> Nat] /\ ready \in [Tensors -> Files]
      /\ released \in [Tensors -> Files] /\ fds \in Int
  BY MemoryParts DEF Init
<1>5. JobsPlaced
  BY <1>3 DEF JobsPlaced
<1>6. FinishPlace
  BY DEF Init, FinishPlace
<1> QED
  BY <1>1, <1>2, <1>3, <1>4, <1>5, <1>6 DEF TypeInv, TypeOK

\* A step of the host: a call submits, exchanges tokens, writes memory.
LEMMA TypeHost == TypeInv /\ Host => TypeInv'
<1> SUFFICES ASSUME TypeInv, Host PROVE TypeInv'
  OBVIOUS
<1>1. UNCHANGED <<cell, fenced>> /\ it' \in Nat \ {0} /\ o' \in Outs /\ FinishPlace'
  BY HostPlace
<1>2. mem' \in [Memory -> Nat]
  BY HostMemory
<1>3. TokensOK'
  BY HostTokens, TokenStepCounts DEF TypeInv, TypeOK, TokensOK
<1>4. queue' \in [Apis -> Seq(Jobs)] /\ JobsPlaced'
  <2>1. CASE UNCHANGED queue
    BY <1>1, <2>1 DEF TypeInv, TypeOK, JobsPlaced, Placed, OutEdge
  <2>2. ASSUME NEW q \in Apis, NEW j \in Jobs, Placed(q, j), Submitted(q, j)
        PROVE  queue' \in [Apis -> Seq(Jobs)] /\ JobsPlaced'
    BY <1>1, <2>2, AppendedQueue
  <2> QED
    BY <2>1, <2>2, HostQueue
<1> QED
  BY <1>1, <1>2, <1>3, <1>4 DEF TypeInv, TypeOK, TokensOK

\* The GPU takes a job out of its queue and writes memory.
LEMMA TypeGpu == ASSUME NEW q \in Apis PROVE TypeInv /\ GpuRuns(q) => TypeInv'
<1> SUFFICES ASSUME TypeInv, GpuRuns(q) PROVE TypeInv'
  OBVIOUS
<1>1. queue[q] # <<>> /\ queue' = [queue EXCEPT ![q] = Tail(@)]
      /\ UNCHANGED <<cell, fenced, hostVars, tokenVars>>
  BY DEF GpuRuns, MayRun
<1>2. queue[q] \in Seq(Jobs) /\ mem \in [Memory -> Nat]
  BY DEF TypeInv, TypeOK
<1>3. Head(queue[q]) \in Jobs /\ Head(queue[q]) = queue[q][1] /\ 1 \in 1 .. Len(queue[q])
  BY <1>1, <1>2
<1>4. Contents(Head(queue[q])) \in Nat
  <2>1. Placed(q, Head(queue[q]))
    BY <1>3 DEF TypeInv, JobsPlaced
  <2> QED
    BY <1>3, <2>1, ContentsType
<1>5. mem' \in [Memory -> Nat]
  BY <1>2, <1>4 DEF GpuRuns
<1>6. queue' \in [Apis -> Seq(Jobs)]
  BY <1>1, ShortenedQueue
<1>7. \A p \in Apis : \A k \in 1 .. Len(queue'[p]) : Placed(p, queue'[p][k])
  BY <1>1, ShortenedQueue DEF TypeInv, JobsPlaced
<1>8. \A p, a : Placed(p, a)' <=> Placed(p, a)
  BY <1>1 DEF Placed, OutEdge
<1>9. JobsPlaced'
  BY <1>7, <1>8 DEF JobsPlaced
<1>10. FinishPlace'
  BY <1>1 DEF TypeInv, FinishPlace, hostVars, OutEdge
<1> QED
  BY <1>1, <1>5, <1>6, <1>9, <1>10 DEF TypeInv, TypeOK, hostVars, tokenVars

\* Every step keeps TypeInv.
LEMMA TypeStep == TypeInv /\ [Next]_vars => TypeInv'
<1> SUFFICES ASSUME TypeInv, UNCHANGED vars PROVE TypeInv'
  BY TypeHost, TypeGpu DEF Next, Terminated
<1> QED
  BY DEF vars, hostVars, tokenVars, checkVars, TypeInv, TypeOK, JobsPlaced, FinishPlace, Placed, OutEdge

\* The type invariant, for any number of outputs and iterations and every cell: a
\* job is only ever in a queue of the API whose finish or fence stands for it.
THEOREM TypeInvAlways == Spec => []TypeInv
BY TypeInit, TypeStep, PTL DEF Spec

------------------------------------------------------------------------------
(* FdsAccounted *)

\* The count is exact at the start and kept by every step.
LEMMA FdsStep == TypeInv /\ FdsAccounted /\ [Next]_vars => FdsAccounted'
<1> SUFFICES ASSUME TypeInv, FdsAccounted, [Next]_vars PROVE FdsAccounted'
  OBVIOUS
<1>1. TokensOK
  BY DEF TypeInv, TypeOK, TokensOK
<1>2. TokenStep
  <2>1. CASE Host
    BY <2>1, HostTokens
  <2>2. CASE \E q \in Apis : GpuRuns(q)
    BY <2>2 DEF GpuRuns, TokenStep
  <2>3. CASE UNCHANGED vars
    BY <2>3 DEF vars, TokenStep
  <2> QED
    BY <2>1, <2>2, <2>3 DEF Next, Terminated
<1> QED
  BY <1>1, <1>2, TokenStepCounts

\* For every cell and any number of outputs, whatever fails, times out or is refused
\* in any call: the open sync files are those that tokens hold, none is lost or
\* closed twice.
THEOREM FdsAccountedAlways == Spec => []FdsAccounted
<1>1. Init => FdsAccounted
  <2> SUFFICES ASSUME Init PROVE FdsAccounted
    OBVIOUS
  <2>1. ready = [t \in Tensors |-> NoFd] /\ released = [t \in Tensors |-> NoFd] /\ fds = 0
    BY DEF Init
  <2>2. Held(ready) = 0 /\ Held(released) = 0
    BY <2>1, HeldNone
  <2> QED
    BY <2>1, <2>2 DEF FdsAccounted, Held, Holders
<1> QED
  BY <1>1, TypeInit, TypeStep, FdsStep, PTL DEF Spec

------------------------------------------------------------------------------
(* ReadyMeansDone *)

\* GL, Vulkan and dma-buf memory has a token that counts.
LEMMA ForeignParts ==
  ASSUME TypeOK, NEW t \in Tensors, Foreign(t)
  PROVE  \/ t = Src /\ cell.src \in {"gl", "vk", "dmabuf"}
         \/ (\E i \in Outs : t = Dst(i)) /\ cell.dst \in {"gl", "vk", "dmabuf"}
BY DEF Foreign, Tensors, Dst, Src

\* The jobs that write such memory: the generator's in the producer's queue, and
\* the output edge's; never the engine.
LEMMA Writers ==
  ASSUME TypeOK, NEW q \in Apis, NEW j \in Jobs, Placed(q, j), NEW t \in Tensors, Foreign(t),
         t \in Writes(j)
  PROVE  \/ t = Src /\ j.id.stage = "gen" /\ q = cell.src
         \/ /\ j.id.stage = "out" /\ t = Dst(j.id.o) /\ j.id.o \in Outs
            /\ OutEdge = "upload" => q = "gl" /\ cell.dst = "gl"
<1>1. j.id.stage \in {"gen", "in", "run", "out"}
  BY DEF Jobs, Ids
<1>2. CASE j.id.stage = "gen"
  BY <1>2 DEF Writes, Placed
<1>3. CASE j.id.stage = "in"
  <2>1. Writes(j) = {In}
    BY <1>3 DEF Writes
  <2> QED
    BY <2>1, ForeignParts DEF In, Src, Dst
<1>4. CASE j.id.stage = "run"
  <2>1. Writes(j) = {EngineOut(i) : i \in Outs} /\ cell.ep = "webgpu"
    BY <1>4 DEF Writes, Placed
  <2>2. PICK i \in Outs : t = EngineOut(i)
    BY <2>1
  <2>3. t # Out(i)
    BY ForeignParts DEF Out, Src, Dst
  <2>4. t = Dst(i) /\ HandOver(OutEdge)
    BY <2>2, <2>3 DEF EngineOut
  <2>5. cell.dst = "wgpu"
    BY <2>1, <2>4, Edges
  <2>6. t # Src
    BY <2>4 DEF Src, Dst
  <2> QED
    BY <2>5, <2>6, ForeignParts
<1>5. CASE j.id.stage = "out"
  <2>1. Writes(j) = {Dst(j.id.o)}
    BY <1>5 DEF Writes
  <2> QED
    BY <1>5, <2>1 DEF Placed
<1> QED
  BY <1>1, <1>2, <1>3, <1>4, <1>5

\* Fences can be created, imported and exported, and the consumers that need a
\* file of WebGPU's are in the setups with one.
FencesWork ==
  /\ MayFail = FALSE
  /\ \A s \in Setups : "wgpu" \in s[2] \/ s[1].ep = "cpu" \/ s[1].dst \in {"cpu", "wgpu"}

\* The cell and its drivers are one of the setups.
CellGiven == <<cell, fenced>> \in Setups

ReadyInv == TypeInv /\ CellGiven /\ QuietWhenReady

\* No job in any queue writes t.
Unwritten(t) == \A q \in Apis : \A k \in 1 .. Len(queue[q]) : t \notin Writes(queue[q][k])

\* How a step can keep QuietWhenReady: what was not awaited still is not, unless a
\* token has taken its place or nothing writes it.
LEMMA QuietKept ==
  ASSUME TypeInv, QuietWhenReady, UNCHANGED <<cell, queue>>, pc \notin {"release", "done"},
         \A t \in Tensors : ready'[t] = NoFd /\ Foreign(t) /\ ~Unfinished(t)' =>
           \/ ready[t] = NoFd /\ ~Unfinished(t)
           \/ Unwritten(t)
  PROVE  QuietWhenReady'
<1>1. \A t : Foreign(t)' <=> Foreign(t)
  BY DEF Foreign
<1>2. \A j : Writes(j)' = Writes(j)
  BY DEF Writes, EngineOut, OutEdge
<1>3. ASSUME NEW t \in Tensors, ready'[t] = NoFd, Foreign(t), ~Unfinished(t)'
      PROVE  Unwritten(t)
  BY <1>3 DEF QuietWhenReady, Unwritten
<1> QED
  BY <1>1, <1>2, <1>3 DEF QuietWhenReady, Unwritten

\* A submitted job: the memory it writes has a token, or waits to be finished.
LEMMA QuietSubmit ==
  ASSUME TypeInv, QuietWhenReady, UNCHANGED cell, pc \notin {"release", "done"},
         NEW q \in Apis, NEW j, Submitted(q, j),
         \A t \in Tensors : ready'[t] = NoFd /\ Foreign(t) /\ ~Unfinished(t)' =>
           ready[t] = NoFd /\ ~Unfinished(t) /\ t \notin Writes(j)
  PROVE  QuietWhenReady'
<1>1. \A t : Foreign(t)' <=> Foreign(t)
  BY DEF Foreign
<1>2. \A a : Writes(a)' = Writes(a)
  BY DEF Writes, EngineOut, OutEdge
<1>3. queue \in [Apis -> Seq(Jobs)] /\ queue' = [queue EXCEPT ![q] = Append(queue[q], j)]
  BY DEF TypeInv, TypeOK, Submitted
<1>4. ASSUME NEW t \in Tensors, ready'[t] = NoFd, Foreign(t), ~Unfinished(t)',
             NEW p \in Apis, NEW k \in 1 .. Len(queue'[p])
      PROVE  t \notin Writes(queue'[p][k])
  <2>1. Unwritten(t) /\ t \notin Writes(j)
    BY <1>4 DEF QuietWhenReady, Unwritten
  <2>2. CASE p # q
    BY <1>3, <1>4, <2>1, <2>2 DEF Unwritten
  <2>3. CASE p = q
    <3>1. queue'[p] = Append(queue[q], j)
      BY <1>3, <2>3
    <3>2. queue[q] \in Seq(Jobs)
      BY <1>3
    <3>3. Len(queue'[p]) = Len(queue[q]) + 1 /\ Len(queue[q]) \in Nat
      BY <3>1, <3>2
    <3>4. CASE k = Len(queue[q]) + 1
      BY <2>1, <3>1, <3>2, <3>4
    <3>5. CASE k \in 1 .. Len(queue[q])
      <4>1. queue'[p][k] = queue[q][k]
        BY <3>1, <3>2, <3>5
      <4> QED
        BY <2>1, <3>5, <4>1 DEF Unwritten
    <3> QED
      BY <1>4, <3>3, <3>4, <3>5
  <2> QED
    BY <2>2, <2>3
<1> QED
  BY <1>1, <1>2, <1>4 DEF QuietWhenReady

\* The calls that submit a job.
LEMMA QuietSubmitters ==
  ASSUME FencesWork, ReadyInv,
         GenWgpu \/ GenGl \/ GenVk \/ InWrite \/ InImport \/ RunWebgpu \/ OutWrite \/ OutImport
         \/ OutUploadGl
  PROVE  QuietWhenReady'
<1> USE MemoryParts DEF At, Go, ReadyInv
<1>0. /\ TypeInv /\ TypeOK /\ QuietWhenReady /\ UNCHANGED cell
      /\ ready \in [Tensors -> Files] /\ o \in Outs /\ o \in Nat /\ 0 \in Nat
      /\ MayFail = FALSE
  BY DEF TypeInv, TypeOK, Outs, FencesWork, GenWgpu, GenGl, GenVk, InWrite, InImport, RunWebgpu,
         OutWrite, OutImport, OutUploadGl
<1>1. /\ \A i \in Outs : Dst(i) # Src /\ Dst(i) # In /\ In # Src
      /\ \A i, k \in Outs : Dst(i) = Dst(k) => i = k
      /\ \A i, k \in Outs : Out(i) # Dst(k) /\ Out(i) # Src
  BY DEF Dst, Src, In, Out
<1>2. \A stage, i : Id(stage, i) # NoFd \/ stage = "none"
  BY DEF Id, NoFd
<1>3. \A t \in Tensors : Unfinished(t) => pc \in {"finish_gen", "finish_out"}
  BY DEF Unfinished
<1>4. \A t \in Tensors : Foreign(t) =>
         \/ t = Src /\ cell.src \in {"gl", "vk", "dmabuf"}
         \/ (\E i \in Outs : t = Dst(i)) /\ cell.dst \in {"gl", "vk", "dmabuf"}
  BY <1>0, ForeignParts
<1>5. \A q \in Apis, i \in Nat, stage \in {"gen", "in", "run", "out"} : \A wait, data :
        Submit(q, Id(stage, i), wait, data) =>
          Submitted(q, [id |-> Id(stage, i), wait |-> wait, data |-> data])
  BY DEF Submit, Submitted
<1>6. \A i \in Nat : \A wait, data :
        /\ Writes([id |-> Id("gen", i), wait |-> wait, data |-> data]) = {Src}
        /\ Writes([id |-> Id("in", i), wait |-> wait, data |-> data]) = {In}
        /\ Writes([id |-> Id("run", i), wait |-> wait, data |-> data]) = {EngineOut(k) : k \in Outs}
        /\ Writes([id |-> Id("out", i), wait |-> wait, data |-> data]) = {Dst(i)}
  BY DEF Writes, Id
<1>10. CASE GenWgpu
  <2> DEFINE j == [id |-> Id("gen", 0), wait |-> NoFd, data |-> it]
  <2>1. pc = "gen" /\ cell.src = "wgpu" /\ Submitted("wgpu", j) /\ UNCHANGED ready
    BY <1>0, <1>5, <1>10 DEF GenWgpu, tokenVars
  <2>2. Writes(j) = {Src}
    BY <1>0, <1>6
  <2>3. ASSUME NEW t \in Tensors, ready'[t] = NoFd, Foreign(t), ~Unfinished(t)'
        PROVE  ready[t] = NoFd /\ ~Unfinished(t) /\ t \notin Writes(j)
    BY <1>0, <1>1, <1>3, <1>4, <2>1, <2>2, <2>3
  <2> QED
    BY <1>0, <2>1, <2>3, QuietSubmit
<1>11. ASSUME NEW q \in Apis, NEW t \in Tensors, NEW id, NEW next, NEW gate, NEW data,
              NEW finish \in {"finish_gen", "finish_out"}, id # NoFd, pc \notin {"release", "done"},
              pc \notin {"finish_gen", "finish_out"},
              SignalReady(q, t, id, next, finish),
              pc' = finish => Unfinished(t)',
              NEW j, Submitted(q, j), Writes(j) = {t}
       PROVE  QuietWhenReady'
  <2>1. CASE q \in fenced
    <3>1. ready' = [ready EXCEPT ![t] = id]
      BY <1>0, <1>11, <2>1 DEF SignalReady, SetReady
    <3>2. ASSUME NEW u \in Tensors, ready'[u] = NoFd
          PROVE  ready[u] = NoFd /\ ~Unfinished(u) /\ u \notin Writes(j)
      BY <1>0, <1>3, <1>11, <3>1, <3>2
    <3> QED
      BY <1>0, <1>11, <3>2, QuietSubmit
  <2>2. CASE q \notin fenced
    <3>1. UNCHANGED ready /\ pc' = finish
      BY <1>11, <2>2 DEF SignalReady
    <3>2. ASSUME NEW u \in Tensors, ready'[u] = NoFd, ~Unfinished(u)'
          PROVE  ready[u] = NoFd /\ ~Unfinished(u) /\ u \notin Writes(j)
      BY <1>0, <1>3, <1>11, <3>1, <3>2
    <3> QED
      BY <1>0, <1>11, <3>2, QuietSubmit
  <2> QED
    BY <2>1, <2>2
<1>12. CASE GenGl \/ GenVk
  <2>1. PICK q \in {"gl", "vk"}, gate \in Gates(Src) : Submit(q, Id("gen", 0), gate, it)
            /\ SignalReady(q, Src, Id("gen", 0), Go("in"), "finish_gen")
    BY <1>12 DEF GenGl, GenVk
  <2> DEFINE j == [id |-> Id("gen", 0), wait |-> gate, data |-> it]
  <2>2. Submitted(q, j) /\ Writes(j) = {Src} /\ q \in Apis
    BY <1>0, <1>5, <1>6, <2>1
  <2>3. pc = "gen"
    BY <1>12 DEF GenGl, GenVk
  <2>4. pc' = "finish_gen" => Unfinished(Src)'
    BY DEF Unfinished
  <2> QED
    BY <1>2, <1>11, <2>1, <2>2, <2>3, <2>4
<1>13. CASE OutUploadGl
  <2>1. PICK gate \in Gates(Dst(o)) : Submit("gl", Id("out", o), gate, mem[Out(o)])
    BY <1>13 DEF OutUploadGl
  <2> DEFINE j == [id |-> Id("out", o), wait |-> gate, data |-> mem[Out(o)]]
  <2>2. Submitted("gl", j) /\ Writes(j) = {Dst(o)}
    BY <1>0, <1>5, <1>6, <2>1
  <2>3. /\ pc = "out"
        /\ SignalReady("gl", Dst(o), Id("out", o), GoOver("out", "ready"), "finish_out")
    BY <1>13 DEF OutUploadGl
  <2>4. CASE "gl" \in fenced
    <3>1. pc' # "finish_out"
      BY <2>3, <2>4 DEF SignalReady, GoOver
    <3> QED
      BY <1>0, <1>2, <1>11, <2>2, <2>3, <3>1
  <2>5. CASE "gl" \notin fenced
    <3>1. o' = o
      BY <2>3, <2>5 DEF SignalReady
    <3>2. PICK t \in Tensors : t = Dst(o)
      BY <1>0
    <3>3. pc' = "finish_out" => Unfinished(t)'
      BY <3>1, <3>2 DEF Unfinished
    <3> QED
      BY <1>0, <1>2, <1>11, <2>2, <2>3, <3>2, <3>3
  <2> QED
    BY <2>4, <2>5
<1>14. CASE InWrite \/ InImport
  <2>1. pc = "in" /\ UNCHANGED ready
    BY <1>14 DEF InWrite, InImport, tokenVars
  <2>2. \E wait, data : Submit("wgpu", Id("in", 0), wait, data)
    BY <1>14 DEF InWrite, InImport, ImportAccess
  <2>3. PICK wait, data : Submit("wgpu", Id("in", 0), wait, data)
    BY <2>2
  <2> DEFINE j == [id |-> Id("in", 0), wait |-> wait, data |-> data]
  <2>4. Submitted("wgpu", j) /\ Writes(j) = {In}
    BY <1>0, <1>5, <1>6, <2>3
  <2>5. ASSUME NEW t \in Tensors, ready'[t] = NoFd, Foreign(t), ~Unfinished(t)'
        PROVE  ready[t] = NoFd /\ ~Unfinished(t) /\ t \notin Writes(j)
    BY <1>0, <1>1, <1>3, <1>4, <2>1, <2>4, <2>5
  <2> QED
    BY <1>0, <2>1, <2>4, <2>5, QuietSubmit
<1>15. CASE RunWebgpu
  <2> DEFINE j == [id |-> Id("run", 0), wait |-> NoFd, data |-> FromMemory]
  <2>1. pc = "run" /\ UNCHANGED ready /\ Submitted("wgpu", j) /\ cell.ep = "webgpu"
    BY <1>0, <1>5, <1>15 DEF RunWebgpu, tokenVars
  <2>2. Writes(j) = {EngineOut(k) : k \in Outs}
    BY <1>0, <1>6
  <2>3. ASSUME NEW t \in Tensors, ready'[t] = NoFd, Foreign(t), ~Unfinished(t)'
        PROVE  ready[t] = NoFd /\ ~Unfinished(t) /\ t \notin Writes(j)
    <3>1. ASSUME NEW k \in Outs, t = EngineOut(k) PROVE FALSE
      <4>1. t # Out(k)
        BY <1>1, <1>4, <2>3
      <4>2. t = Dst(k) /\ HandOver(OutEdge)
        BY <3>1, <4>1 DEF EngineOut
      <4>3. cell.dst = "wgpu"
        BY <1>0, <2>1, <4>2, Edges
      <4> QED
        BY <1>1, <1>4, <2>3, <4>2, <4>3
    <3> QED
      BY <1>3, <2>1, <2>2, <2>3, <3>1
  <2> QED
    BY <1>0, <2>1, <2>3, QuietSubmit
<1>16. CASE OutWrite
  <2> DEFINE j == [id |-> Id("out", o), wait |-> NoFd, data |-> mem[Out(o)]]
  <2>1. pc = "out" /\ UNCHANGED ready /\ Submitted("wgpu", j) /\ cell.dst = "wgpu"
    BY <1>0, <1>5, <1>16, Edges DEF OutWrite, tokenVars
  <2>2. Writes(j) = {Dst(o)}
    BY <1>0, <1>6
  <2>3. ASSUME NEW t \in Tensors, ready'[t] = NoFd, Foreign(t), ~Unfinished(t)'
        PROVE  ready[t] = NoFd /\ ~Unfinished(t) /\ t \notin Writes(j)
    BY <1>0, <1>1, <1>3, <1>4, <2>1, <2>2, <2>3
  <2> QED
    BY <1>0, <2>1, <2>3, QuietSubmit
<1>17. CASE OutImport
  <2>1. /\ pc = "out" /\ cell.ep = "webgpu" /\ cell.dst \in {"gl", "vk", "dmabuf"}
    BY <1>0, <1>17, Edges DEF OutImport
  <2>2. "wgpu" \in fenced
    BY <2>1 DEF FencesWork, CellGiven
  <2>3. PICK f : ImportAccess(Id("out", o), released[Dst(o)], f) /\ SetReady(Dst(o), f)
    BY <1>17 DEF OutImport
  <2>4. f = Id("out", o) /\ f # NoFd
    BY <1>0, <1>2, <2>2, <2>3 DEF ImportAccess
  <2>5. PICK wait : Submit("wgpu", Id("out", o), wait, FromMemory)
    BY <2>3 DEF ImportAccess
  <2> DEFINE j == [id |-> Id("out", o), wait |-> wait, data |-> FromMemory]
  <2>6. Submitted("wgpu", j) /\ Writes(j) = {Dst(o)}
    BY <1>0, <1>5, <1>6, <2>5
  <2>7. ready' = [ready EXCEPT ![Dst(o)] = f]
    BY <2>3 DEF SetReady
  <2>8. ASSUME NEW t \in Tensors, ready'[t] = NoFd
        PROVE  ready[t] = NoFd /\ ~Unfinished(t) /\ t \notin Writes(j)
    BY <1>0, <1>3, <2>1, <2>4, <2>6, <2>7, <2>8
  <2> QED
    BY <1>0, <2>1, <2>6, <2>8, QuietSubmit
<1> QED
  BY <1>10, <1>12, <1>13, <1>14, <1>15, <1>16, <1>17

\* A tensor whose writers are all in one idle queue, or nowhere, is written no more.
LEMMA NoWriters ==
  ASSUME TypeInv, NEW t \in Tensors, Foreign(t),
         \/ t = Src /\ (cell.src \in Apis => queue[cell.src] = <<>>)
         \/ t # Src /\ OutEdge = "upload" /\ (cell.dst = "gl" => queue["gl"] = <<>>)
  PROVE  Unwritten(t)
<1>1. SUFFICES ASSUME NEW q \in Apis, NEW k \in 1 .. Len(queue[q]), t \in Writes(queue[q][k])
               PROVE  FALSE
  BY DEF Unwritten
<1>2. queue[q] \in Seq(Jobs) /\ queue[q] # <<>>
  <2>1. queue[q] \in Seq(Jobs)
    BY DEF TypeInv, TypeOK
  <2> QED
    BY <1>1, <2>1
<1>3. queue[q][k] \in Jobs
  BY <1>1, <1>2
<1>4. Placed(q, queue[q][k])
  BY <1>1 DEF TypeInv, JobsPlaced
<1>5. \/ t = Src /\ q = cell.src
      \/ t # Src /\ (OutEdge = "upload" => q = "gl" /\ cell.dst = "gl")
  <2>1. \A i : Dst(i) # Src
    BY DEF Dst, Src
  <2> QED
    BY <1>1, <1>3, <1>4, <2>1, Writers DEF TypeInv
<1> QED
  BY <1>1, <1>2, <1>5

\* The calls that reset a ready token: every writer has run, or there was none.
LEMMA QuietReset ==
  ASSUME ReadyInv, GenDmabuf \/ FinishGen \/ FinishOut \/ OutUploadVk
  PROVE  QuietWhenReady'
<1> USE MemoryParts DEF At
<1>0. /\ TypeInv /\ QuietWhenReady /\ UNCHANGED <<cell, queue>> /\ pc \notin {"release", "done"}
      /\ ready \in [Tensors -> Files] /\ o \in Outs
  BY DEF ReadyInv, TypeInv, TypeOK, GenDmabuf, FinishGen, FinishOut, OutUploadVk
<1>1. \A i : Dst(i) # Src
  BY DEF Dst, Src
<1>2. ASSUME NEW t \in Tensors, ready' = [ready EXCEPT ![t] = NoFd],
             \A u \in Tensors : u # t => ~Unfinished(u),
             Foreign(t) => Unwritten(t)
      PROVE  QuietWhenReady'
  <2>1. ASSUME NEW u \in Tensors, ready'[u] = NoFd, Foreign(u)
        PROVE  (ready[u] = NoFd /\ ~Unfinished(u)) \/ Unwritten(u)
    BY <1>0, <1>2, <2>1
  <2> QED
    BY <1>0, <2>1, QuietKept
<1>3. CASE GenDmabuf
  <2>1. cell.src = "dmabuf" /\ pc = "gen" /\ ready' = [ready EXCEPT ![Src] = NoFd]
    BY <1>3 DEF GenDmabuf, SetReady
  <2>2. Foreign(Src) => Unwritten(Src)
    BY <1>0, <2>1, NoWriters
  <2>3. \A u \in Tensors : ~Unfinished(u)
    BY <2>1 DEF Unfinished
  <2> QED
    BY <1>2, <2>1, <2>2, <2>3
<1>4. CASE FinishGen
  <2>1. queue[cell.src] = <<>> /\ pc = "finish_gen" /\ ready' = [ready EXCEPT ![Src] = NoFd]
    BY <1>4 DEF FinishGen, Finished, Idle, SetReady
  <2>2. Foreign(Src) => Unwritten(Src)
    BY <1>0, <2>1, NoWriters
  <2>3. \A u \in Tensors : u # Src => ~Unfinished(u)
    BY <2>1 DEF Unfinished
  <2> QED
    BY <1>2, <2>1, <2>2, <2>3
<1>5. CASE FinishOut
  <2>1. /\ queue[cell.dst] = <<>> /\ pc = "finish_out"
        /\ ready' = [ready EXCEPT ![Dst(o)] = NoFd]
    BY <1>5 DEF FinishOut, Finished, Idle, SetReady
  <2>2. OutEdge = "upload" /\ cell.dst = "gl"
    BY <1>0, <2>1 DEF TypeInv, FinishPlace
  <2>3. Foreign(Dst(o)) => Unwritten(Dst(o))
    BY <1>0, <1>1, <2>1, <2>2, NoWriters
  <2>4. \A u \in Tensors : u # Dst(o) => ~Unfinished(u)
    BY <2>1 DEF Unfinished
  <2> QED
    BY <1>0, <1>2, <2>1, <2>3, <2>4
<1>6. CASE OutUploadVk
  <2>1. /\ OutEdge = "upload" /\ cell.dst = "vk" /\ pc = "out"
        /\ ready' = [ready EXCEPT ![Dst(o)] = NoFd]
    BY <1>6 DEF OutUploadVk, SetReady
  <2>2. Foreign(Dst(o)) => Unwritten(Dst(o))
    BY <1>0, <1>1, <2>1, NoWriters
  <2>3. \A u \in Tensors : ~Unfinished(u)
    BY <2>1 DEF Unfinished
  <2> QED
    BY <1>0, <1>2, <2>1, <2>2, <2>3
<1> QED
  BY <1>3, <1>4, <1>5, <1>6

\* Every step of the host keeps QuietWhenReady.
LEMMA QuietHost == ASSUME FencesWork, ReadyInv, Host PROVE QuietWhenReady'
<1>1. CASE GenWgpu \/ GenGl \/ GenVk \/ InWrite \/ InImport \/ RunWebgpu \/ OutWrite
           \/ OutImport \/ OutUploadGl
  BY <1>1, QuietSubmitters
<1>2. CASE GenDmabuf \/ FinishGen \/ FinishOut \/ OutUploadVk
  BY <1>2, QuietReset
<1>3. CASE GenCpu \/ InView \/ InReadback \/ RunCpu \/ OutReadback \/ WaitReady \/ ReadOutput \/ Check
  <2>1. /\ pc \in {"gen", "in", "run", "out", "ready", "read", "check"}
        /\ UNCHANGED <<cell, queue, ready>>
    BY <1>3 DEF GenCpu, InView, InReadback, RunCpu, OutReadback, WaitReady, ReadOutput, Check,
                At, tokenVars
  <2>2. \A t \in Tensors : ~Unfinished(t)
    BY <2>1 DEF Unfinished
  <2> QED
    BY <2>1, <2>2, QuietKept DEF ReadyInv
<1>4. CASE InTimeOut \/ WaitReadyTimeOut \/ CallFails \/ ReleaseTensors
  <2>1. pc' \in {"release", "done"}
    BY <1>4 DEF InTimeOut, WaitReadyTimeOut, GiveUp, CallFails, ReleaseTensors, Go
  <2> QED
    BY <2>1 DEF QuietWhenReady
<1> QED
  BY <1>1, <1>2, <1>3, <1>4 DEF Host, Calls, Gen, OutputEdge

\* A GPU that runs a job leaves a queue with fewer writers.
LEMMA QuietGpu == ASSUME ReadyInv, NEW q \in Apis, GpuRuns(q) PROVE QuietWhenReady'
<1>1. /\ queue[q] # <<>> /\ queue' = [queue EXCEPT ![q] = Tail(@)]
      /\ UNCHANGED <<cell, fenced, pc, it, o, ready>>
  BY DEF GpuRuns, MayRun, hostVars, tokenVars
<1>2. \A p \in Apis : \A k \in 1 .. Len(queue'[p]) :
        \E i \in 1 .. Len(queue[p]) : queue'[p][k] = queue[p][i]
  BY <1>1, ShortenedQueue DEF ReadyInv
<1>3. \A t : (Foreign(t)' <=> Foreign(t)) /\ (Unfinished(t)' <=> Unfinished(t))
  BY <1>1 DEF Foreign, Unfinished
<1>4. \A j : Writes(j)' = Writes(j)
  BY <1>1 DEF Writes, EngineOut, OutEdge
<1>5. ASSUME pc \notin {"release", "done"}, NEW t \in Tensors, ready[t] = NoFd, Foreign(t),
             ~Unfinished(t), NEW p \in Apis, NEW k \in 1 .. Len(queue'[p])
      PROVE  t \notin Writes(queue'[p][k])
  <2>1. PICK i \in 1 .. Len(queue[p]) : queue'[p][k] = queue[p][i]
    BY <1>2, <1>5
  <2> QED
    BY <1>5, <2>1 DEF ReadyInv, QuietWhenReady
<1> QED
  BY <1>1, <1>3, <1>4, <1>5 DEF QuietWhenReady

\* At the start nothing is submitted.
LEMMA ReadyInit == Init => ReadyInv
<1> SUFFICES ASSUME Init PROVE ReadyInv
  OBVIOUS
<1>1. CellGiven
  <2>1. PICK s \in Setups : cell = s[1] /\ fenced = s[2]
    BY DEF Init
  <2>2. s = <<s[1], s[2]>>
    BY CellAssumption
  <2> QED
    BY <2>1, <2>2 DEF CellGiven
<1>2. QuietWhenReady
  BY DEF Init, QuietWhenReady
<1> QED
  BY <1>1, <1>2, TypeInit DEF ReadyInv

\* Every step keeps ReadyInv.
LEMMA ReadyStep == ASSUME FencesWork PROVE ReadyInv /\ [Next]_vars => ReadyInv'
<1> SUFFICES ASSUME ReadyInv, [Next]_vars PROVE ReadyInv'
  OBVIOUS
<1>1. TypeInv'
  BY TypeStep DEF ReadyInv
<1>2. CellGiven'
  <2>1. UNCHANGED <<cell, fenced>>
    BY HostPlace DEF ReadyInv, Next, GpuRuns, Terminated, vars
  <2> QED
    BY <2>1 DEF ReadyInv, CellGiven
<1>3. QuietWhenReady'
  <2>1. CASE Host
    BY <2>1, QuietHost
  <2>2. CASE \E q \in Apis : GpuRuns(q)
    BY <2>2, QuietGpu
  <2>3. CASE UNCHANGED vars
    BY <2>3 DEF vars, hostVars, tokenVars, ReadyInv, QuietWhenReady, Foreign, Unfinished, Writes,
                EngineOut, OutEdge
  <2> QED
    BY <2>1, <2>2, <2>3 DEF Next, Terminated
<1> QED
  BY <1>1, <1>2, <1>3 DEF ReadyInv

\* Where the library waits or reads, nothing is unfinished.
LEMMA QuietIsReady == ReadyInv => ReadyMeansDone
<1> SUFFICES ASSUME ReadyInv, pc \in {"in", "run", "out", "ready", "read", "check"},
                    NEW t \in Tensors, ready[t] = NoFd, Foreign(t), NEW j \in InFlight
             PROVE  t \notin Writes(j)
  BY DEF ReadyMeansDone, Foreign
<1>1. PICK q \in Apis : j \in {queue[q][k] : k \in 1 .. Len(queue[q])}
  BY DEF InFlight
<1>3. PICK k \in 1 .. Len(queue[q]) : j = queue[q][k]
  BY <1>1
<1>2. ~Unfinished(t)
  BY DEF Unfinished
<1> QED
  BY <1>2, <1>3 DEF ReadyInv, QuietWhenReady

\* infer.h's "-1 = already signaled / nothing to wait for", for any number of outputs
\* and iterations and whatever is refused or times out: where fences can be created,
\* imported and exported, a tensor of GL, Vulkan or dma-buf memory whose ready token is
\* -1 is written by no job in flight.
THEOREM ReadyMeansDoneAlways == ASSUME FencesWork PROVE Spec => []ReadyMeansDone
BY ReadyInit, ReadyStep, QuietIsReady, PTL DEF Spec

------------------------------------------------------------------------------
(* The order of the jobs in flight, and what they leave in memory *)

\* The jobs of a queue.
On(q) == {queue[q][k] : k \in 1 .. Len(queue[q])}

\* a comes before b: it is earlier, or both write outputs of one iteration.
Follows(a, b) == Earlier(a, b) \/ (a.stage = "out" /\ b.stage = "out" /\ a.it = b.it)

\* Each queue is in the order of the submissions.
Sorted ==
  \A q \in Apis : \A k, l \in 1 .. Len(queue[q]) : k < l => Follows(queue[q][k].id, queue[q][l].id)

\* The stages submitted by now in this iteration.
Done ==
  CASE pc = "gen"                  -> {}
    [] pc \in {"finish_gen", "in"} -> {"gen"}
    [] pc = "run"                  -> {"gen", "in"}
    [] OTHER                       -> {"gen", "in", "run", "out"}

\* A stage that has been submitted.
Started(a) == a.it < it \/ (a.it = it /\ a.stage \in Done)

\* Which job is in which queue, and with which data.
Right(q, j) ==
  /\ j.data \in {FromMemory, j.id.it} /\ j.id.it > 0
  /\ j.id.stage = "gen" => q = cell.src /\ j.data = j.id.it
  /\ j.id.stage = "in" =>
       /\ q = "wgpu" /\ cell.ep = "webgpu"
       /\ IF j.data = FromMemory THEN cell.src \in {"gl", "vk", "dmabuf"} ELSE cell.src = "cpu"
  /\ j.id.stage = "run" => q = "wgpu" /\ cell.ep = "webgpu"
  /\ j.id.stage = "out" =>
       /\ j.id.o \in Outs
       /\ \/ cell.ep = "cpu" /\ q = cell.dst /\ q # "vk" /\ j.data = j.id.it
          \/ cell.ep = "webgpu" /\ q = "wgpu" /\ cell.dst \in {"gl", "vk", "dmabuf"}

\* Every job in flight is in its queue and was submitted.
JobsRight == \A q \in Apis : \A j \in On(q) : Right(q, j) /\ Started(j.id)

\* The names of the jobs of input n.
GenId(n) == [stage |-> "gen", o |-> 0, it |-> n]
InId(n) == [stage |-> "in", o |-> 0, it |-> n]
OutId(i, n) == [stage |-> "out", o |-> i, it |-> n]

\* A token that stands for jobs in flight.
Holds(f, id) == f = id /\ ~Signaled(f)

\* The two tokens of the producer's tensor, once they are in jobs: an import waits for
\* its input to be generated, a generator for the import of the last one.
InTurn ==
  \A p, q \in Apis : \A g \in On(p), i \in On(q) :
    g.id.stage = "gen" /\ i.id.stage = "in" =>
      /\ g.id.it <= i.id.it => Holds(i.wait, GenId(i.id.it))
      /\ i.id.it < g.id.it => Holds(g.wait, InId(g.id.it - 1))

\* The same tokens while the host has them.
ReadyHeld ==
  pc = "in" /\ cell.src \in {"gl", "vk"} =>
    \A q \in Apis : \A g \in On(q) : g.id.stage = "gen" => Holds(ready[Src], GenId(it))

\* The consumer's token, before the generator takes it and after the import made it.
ReleasedHeld ==
  cell.src \in {"gl", "vk", "dmabuf"} =>
    \A q \in Apis : \A i \in On(q) : i.id.stage = "in" =>
      /\ pc = "gen" => Holds(released[Src], InId(it - 1))
      /\ pc \in {"run", "out", "finish_out", "ready", "read", "check"} /\ "wgpu" \in fenced =>
           Holds(released[Src], InId(it))

\* A consumer that is the host or WebGPU waits for the whole queue.
ConsumerIdle ==
  /\ cell.ep = "webgpu" /\ cell.dst \in {"cpu", "wgpu"}
  /\ pc \in {"read", "check", "gen"} \/ (cell.dst = "cpu" /\ pc = "ready")
  => Idle("wgpu")

\* The order of the jobs in flight and the tokens it rests on.
OrderInv ==
  /\ Sorted /\ JobsRight /\ InTurn /\ ReadyHeld /\ ReleasedHeld /\ ConsumerIdle

------------------------------------------------------------------------------
\* The outputs that have been written, or will be by jobs in flight.
Delivered(i) ==
  \/ pc \in {"ready", "read", "check"}
  \/ pc \in {"out", "finish_out"} /\ i < o

\* The token of an output that a job still writes.
Awaited ==
  cell.dst \in {"gl", "vk", "dmabuf"} =>
    \A i \in Outs : Delivered(i) =>
      \A q \in Apis : \A j \in On(q) :
        j.id.stage = "out" /\ j.id.o = i => Holds(ready[Dst(i)], OutId(i, it))

\* Once the jobs in flight up to input n have run, m holds n.
Due(m, n) ==
  \/ \E q \in Apis : \E j \in On(q) : m \in Writes(j) /\ j.id.it = n
  \/ mem[m] = n /\ \A q \in Apis : \A j \in On(q) : m \in Writes(j) => j.id.it > n

\* A job that reads memory when it runs finds its own input's result there.
ReadersDue ==
  \A q \in Apis : \A j \in On(q) : \A m \in Reads(j) : Due(m, j.id.it)

\* What the stages behind the host have made or will make of the current input.
HostDue ==
  /\ pc \notin {"gen", "release", "done"} => Due(Src, it)
  /\ pc \in {"run", "out", "finish_out", "ready", "read", "check"} => Due(EngineIn, it)
  /\ pc \in {"out", "finish_out", "ready", "read", "check"} => \A i \in Outs : Due(EngineOut(i), it)
  /\ \A i \in Outs : Delivered(i) \/ (pc = "finish_out" /\ i = o) => Due(Dst(i), it)

\* What the consumer has seen.
Checked ==
  /\ exact /\ seen \in [Outs -> Nat]
  /\ pc = "read" => \A i \in Outs : i < o => seen[i] = it
  /\ pc = "check" => seen = [i \in Outs |-> it]
  /\ pc \notin {"release", "done"} => prev = [i \in Outs |-> it - 1]
  /\ pc \notin {"out", "finish_out", "ready", "read"} => o = 1 \/ pc \in {"release", "done"}

\* What is in memory, or will be once the jobs in flight have run.
DataInv == Awaited /\ ReadersDue /\ HostDue /\ Checked

\* The inductive invariant of both theorems.
CellInv == TypeInv /\ CellGiven /\ OrderInv /\ DataInv

\* The host waits for its fences, however long it takes.
HostWaits == MayGiveUp = FALSE

------------------------------------------------------------------------------
(* What the cell decides *)

\* infer_registry_init and the engine's domain: the mechanisms by the domains they join.
LEMMA Ways ==
  ASSUME TypeOK
  PROVE  /\ cell.ep \in {"cpu", "webgpu"}
         /\ cell.src \in {"cpu", "gl", "vk", "wgpu", "dmabuf"}
         /\ cell.dst \in {"cpu", "gl", "vk", "wgpu", "dmabuf"}
         /\ HandOver(InEdge) <=> \/ cell.ep = "cpu" /\ cell.src \in {"cpu", "dmabuf"}
                                 \/ cell.ep = "webgpu" /\ cell.src = "wgpu"
         /\ InEdge = "readback" <=> cell.ep = "cpu" /\ cell.src \in {"gl", "vk", "wgpu"}
         /\ InEdge = "write_buffer" <=> cell.ep = "webgpu" /\ cell.src = "cpu"
         /\ InEdge = "dmabuf_import" <=> cell.ep = "webgpu" /\ cell.src \in {"gl", "vk", "dmabuf"}
         /\ HandOver(OutEdge) <=> \/ cell.ep = "cpu" /\ cell.dst \in {"cpu", "dmabuf"}
                                  \/ cell.ep = "webgpu" /\ cell.dst = "wgpu"
         /\ OutEdge = "readback" <=> cell.ep = "webgpu" /\ cell.dst = "cpu"
         /\ OutEdge = "write_buffer" <=> cell.ep = "cpu" /\ cell.dst = "wgpu"
         /\ OutEdge = "upload" <=> cell.ep = "cpu" /\ cell.dst \in {"gl", "vk"}
         /\ OutEdge = "dmabuf_write" <=> cell.ep = "webgpu" /\ cell.dst \in {"gl", "vk", "dmabuf"}
<1>1. /\ cell.ep \in {"cpu", "webgpu"}
      /\ cell.src \in {"cpu", "gl", "vk", "wgpu", "dmabuf"}
      /\ cell.dst \in {"cpu", "gl", "vk", "wgpu", "dmabuf"}
  BY DEF TypeOK, AllCells, Domains, Engines
<1>2. /\ InEdge = Mechanism(cell.src, IF cell.ep = "webgpu" THEN "wgpu" ELSE "cpu")
      /\ OutEdge = Mechanism(IF cell.ep = "webgpu" THEN "wgpu" ELSE "cpu", cell.dst)
  BY DEF InEdge, OutEdge, Native
<1>3. ASSUME NEW d \in {"cpu", "gl", "vk", "wgpu", "dmabuf"}
      PROVE  /\ Mechanism(d, "cpu") = CASE d = "cpu" -> "identity" [] d = "dmabuf" -> "mmap"
                                        [] OTHER -> "readback"
             /\ Mechanism(d, "wgpu") = CASE d = "wgpu" -> "identity" [] d = "cpu" -> "write_buffer"
                                        [] OTHER -> "dmabuf_import"
             /\ Mechanism("cpu", d) = CASE d = "cpu" -> "identity" [] d = "dmabuf" -> "mmap"
                                        [] d = "wgpu" -> "write_buffer" [] OTHER -> "upload"
             /\ Mechanism("wgpu", d) = CASE d = "wgpu" -> "identity" [] d = "cpu" -> "readback"
                                        [] OTHER -> "dmabuf_write"
  BY <1>3 DEF Mechanism, Apis
<1>4. CASE cell.ep = "cpu"
  BY <1>1, <1>2, <1>3, <1>4 DEF HandOver
<1>5. CASE cell.ep = "webgpu"
  BY <1>1, <1>2, <1>3, <1>5 DEF HandOver
<1> QED
  BY <1>1, <1>4, <1>5

\* The memories of a cell are different ones.
LEMMA Distinct ==
  /\ Src # In
  /\ \A i : Out(i) # Src /\ Out(i) # In /\ Dst(i) # Src /\ Dst(i) # In
  /\ \A i, k : Out(i) # Dst(k)
  /\ \A i, k : (Out(i) = Out(k) => i = k) /\ (Dst(i) = Dst(k) => i = k)
BY DEF Src, In, Out, Dst

\* A cell's edges do not change.
LEMMA CellKept ==
  ASSUME UNCHANGED cell
  PROVE  /\ InEdge' = InEdge /\ OutEdge' = OutEdge /\ EngineIn' = EngineIn
         /\ \A i : EngineOut(i)' = EngineOut(i)
         /\ \A j : Reads(j)' = Reads(j) /\ Writes(j)' = Writes(j)
         /\ \A q, j : Right(q, j)' <=> Right(q, j)
BY DEF InEdge, OutEdge, EngineIn, EngineOut, Reads, Writes, Right

\* Which job writes a memory.
LEMMA WrittenBy ==
  ASSUME TypeOK, NEW q, NEW j \in Jobs, Right(q, j), NEW m \in Writes(j)
  PROVE  \/ m = Src /\ j.id.stage = "gen"
         \/ m = In /\ j.id.stage = "in"
         \/ \E i \in Outs : m = Out(i) /\ j.id.stage = "run"
         \/ \E i \in Outs : m = Dst(i) /\ j.id.stage = "run" /\ cell.dst = "wgpu"
         \/ m = Dst(j.id.o) /\ j.id.stage = "out"
<1>1. j.id.stage \in {"gen", "in", "run", "out"}
  BY DEF Jobs, Ids
<1>2. CASE j.id.stage = "run"
  <2>1. PICK i \in Outs : m = EngineOut(i)
    BY <1>2 DEF Writes
  <2>2. cell.ep = "webgpu"
    BY <1>2 DEF Right
  <2> QED
    BY <1>2, <2>1, <2>2, Ways DEF EngineOut
<1>3. CASE j.id.stage # "run"
  BY <1>1, <1>3 DEF Writes
<1> QED
  BY <1>2, <1>3

\* Which job reads a memory, if its data were not fixed when it was submitted.
LEMMA ReadBy ==
  ASSUME TypeOK, NEW q, NEW j \in Jobs, Right(q, j), NEW m \in Reads(j)
  PROVE  /\ cell.ep = "webgpu" /\ q = "wgpu" /\ j.data = FromMemory
         /\ \/ m = Src /\ j.id.stage = "in" /\ cell.src \in {"gl", "vk", "dmabuf"}
            \/ m = EngineIn /\ j.id.stage = "run"
            \/ m = Out(j.id.o) /\ j.id.stage = "out" /\ j.id.o \in Outs
               /\ cell.dst \in {"gl", "vk", "dmabuf"}
<1>1. j.id.stage \in {"gen", "in", "run", "out"} /\ j.id.it \in Nat
  BY DEF Jobs, Ids
<1>2. j.data = FromMemory
  BY DEF Reads
<1>3. j.data # j.id.it
  BY <1>2 DEF Right, FromMemory
<1>4. j.id.stage # "gen"
  BY <1>3 DEF Right
<1> QED
  BY <1>1, <1>2, <1>3, <1>4 DEF Reads, Right

------------------------------------------------------------------------------
(* What submitting and running do to the queues *)

\* A queue has jobs, and none when it is idle.
LEMMA OnJobs ==
  ASSUME TypeOK, NEW q \in Apis
  PROVE  On(q) \subseteq Jobs /\ (Idle(q) <=> On(q) = {})
<1>1. queue[q] \in Seq(Jobs)
  BY DEF TypeOK
<1>2. \A k \in 1 .. Len(queue[q]) : queue[q][k] \in Jobs
  BY <1>1
<1>3. queue[q] = <<>> <=> Len(queue[q]) = 0
  BY <1>1
<1>4. Len(queue[q]) # 0 => 1 \in 1 .. Len(queue[q])
  BY <1>1
<1>5. ASSUME Len(queue[q]) # 0 PROVE On(q) # {}
  <2>1. queue[q][1] \in On(q)
    BY <1>4, <1>5 DEF On
  <2> QED
    BY <2>1
<1>6. Len(queue[q]) = 0 => On(q) = {}
  BY DEF On
<1> QED
  BY <1>2, <1>3, <1>5, <1>6 DEF On, Idle

\* A fence has signaled when no job in any queue is to signal it.
LEMMA SignaledOn == \A f : Signaled(f) <=> \A q \in Apis : \A j \in On(q) : j.id # f
BY DEF Signaled, InFlight, On

\* A submitted job is its queue's last; the others keep their places.
LEMMA Submits ==
  ASSUME TypeOK, NEW q \in Apis, NEW j, Submitted(q, j)
  PROVE  /\ On(q)' = On(q) \cup {j}
         /\ \A p \in Apis : p # q => On(p)' = On(p)
         /\ (Sorted /\ \A a \in On(q) : Follows(a.id, j.id)) => Sorted'
<1>1. queue[q] \in Seq(Jobs) /\ queue' = [queue EXCEPT ![q] = Append(queue[q], j)]
  BY DEF TypeOK, Submitted
<1>2. queue'[q] = Append(queue[q], j) /\ \A p \in Apis : p # q => queue'[p] = queue[p]
  BY <1>1 DEF TypeOK
<1>3. /\ Len(queue'[q]) = Len(queue[q]) + 1 /\ Len(queue[q]) \in Nat
      /\ queue'[q][Len(queue[q]) + 1] = j
      /\ \A k \in 1 .. Len(queue[q]) : queue'[q][k] = queue[q][k]
  BY <1>1, <1>2
<1>4. On(q)' = On(q) \cup {j}
  <2>1. ASSUME NEW a \in On(q)' PROVE a \in On(q) \cup {j}
    <3>1. PICK k \in 1 .. Len(queue'[q]) : a = queue'[q][k]
      BY <2>1 DEF On
    <3>2. k = Len(queue[q]) + 1 \/ k \in 1 .. Len(queue[q])
      BY <1>3, <3>1
    <3> QED
      BY <1>3, <3>1, <3>2 DEF On
  <2>2. ASSUME NEW a \in On(q) PROVE a \in On(q)'
    <3>1. PICK k \in 1 .. Len(queue[q]) : a = queue[q][k]
      BY <2>2 DEF On
    <3>2. k \in 1 .. Len(queue'[q]) /\ queue'[q][k] = a
      BY <1>3, <3>1
    <3> QED
      BY <3>2 DEF On
  <2>3. j \in On(q)'
    <3>1. Len(queue[q]) + 1 \in 1 .. Len(queue'[q])
      BY <1>3
    <3> QED
      BY <1>3, <3>1 DEF On
  <2> QED
    BY <2>1, <2>2, <2>3
<1>5. \A p \in Apis : p # q => On(p)' = On(p)
  BY <1>2 DEF On
<1>6. ASSUME Sorted, \A a \in On(q) : Follows(a.id, j.id) PROVE Sorted'
  <2>1. ASSUME NEW p \in Apis, NEW k \in 1 .. Len(queue'[p]), NEW l \in 1 .. Len(queue'[p]), k < l
        PROVE  Follows(queue'[p][k].id, queue'[p][l].id)
    <3>1. CASE p # q
      BY <1>2, <1>6, <2>1, <3>1 DEF Sorted
    <3>2. CASE p = q
      <4>1. k \in 1 .. Len(queue[q]) /\ (l = Len(queue[q]) + 1 \/ l \in 1 .. Len(queue[q]))
        BY <1>3, <2>1, <3>2
      <4>2. queue[q][k] \in On(q)
        BY <4>1 DEF On
      <4> QED
        BY <1>3, <1>6, <2>1, <3>2, <4>1, <4>2 DEF Sorted
    <3> QED
      BY <3>1, <3>2
  <2> QED
    BY <2>1 DEF Sorted, Follows, Earlier
<1> QED
  BY <1>4, <1>5, <1>6

\* The oldest job leaves; the others of its queue come after it.
LEMMA Leaves ==
  ASSUME TypeOK, Sorted, NEW q \in Apis, GpuRuns(q)
  PROVE  /\ Head(queue[q]) \in On(q)
         /\ On(q) = On(q)' \cup {Head(queue[q])}
         /\ \A j \in On(q)' : Follows(Head(queue[q]).id, j.id)
         /\ \A p \in Apis : p # q => On(p)' = On(p)
         /\ Sorted'
<1>1. /\ queue[q] \in Seq(Jobs) /\ queue[q] # <<>> /\ queue' = [queue EXCEPT ![q] = Tail(queue[q])]
  BY DEF TypeOK, GpuRuns, MayRun
<1>2. queue'[q] = Tail(queue[q]) /\ \A p \in Apis : p # q => queue'[p] = queue[p]
  BY <1>1 DEF TypeOK
<1>3. /\ Len(queue[q]) \in Nat \ {0} /\ Len(queue'[q]) \in Nat
      /\ Len(queue'[q]) = Len(queue[q]) - 1 /\ Head(queue[q]) = queue[q][1]
      /\ \A k \in 1 .. Len(queue'[q]) : queue'[q][k] = queue[q][k + 1]
  <2>0. queue[q] \in Seq(Jobs) /\ queue[q] # <<>>
    BY <1>1
  <2>1. Len(queue[q]) \in Nat /\ Len(queue[q]) # 0 /\ Head(queue[q]) = queue[q][1]
    <3>1. Len(queue[q]) \in Nat
      BY <2>0
    <3>2. 1 \in 1 .. Len(queue[q]) /\ Head(queue[q]) = queue[q][1]
      BY <2>0
    <3> QED
      BY <3>1, <3>2
  <2>2. /\ Len(Tail(queue[q])) = Len(queue[q]) - 1
        /\ \A k \in 1 .. Len(Tail(queue[q])) : Tail(queue[q])[k] = queue[q][k + 1]
    BY <2>0, HeadTailProperties
  <2> QED
    BY <1>2, <2>1, <2>2
<1>4. 1 \in 1 .. Len(queue[q])
  BY <1>3
<1>5. Head(queue[q]) \in On(q)
  BY <1>3, <1>4 DEF On
<1>6. ASSUME NEW j \in On(q)' PROVE j \in On(q) /\ Follows(Head(queue[q]).id, j.id)
  <2>1. PICK k \in 1 .. Len(queue'[q]) : j = queue'[q][k]
    BY <1>6 DEF On
  <2>2. k + 1 \in 1 .. Len(queue[q]) /\ j = queue[q][k + 1] /\ 1 < k + 1
    BY <1>3, <2>1
  <2> QED
    BY <1>3, <1>4, <2>2 DEF On, Sorted
<1>7. ASSUME NEW j \in On(q), j # Head(queue[q]) PROVE j \in On(q)'
  <2>1. PICK k \in 1 .. Len(queue[q]) : j = queue[q][k]
    BY <1>7 DEF On
  <2>2. k - 1 \in 1 .. Len(queue'[q]) /\ j = queue'[q][k - 1]
    BY <1>3, <1>7, <2>1
  <2> QED
    BY <2>2 DEF On
<1>8. \A p \in Apis : p # q => On(p)' = On(p)
  BY <1>2 DEF On
<1>9. ASSUME NEW p \in Apis, NEW k \in 1 .. Len(queue'[p]), NEW l \in 1 .. Len(queue'[p]), k < l
      PROVE  Follows(queue'[p][k].id, queue'[p][l].id)
  <2>1. CASE p # q
    BY <1>2, <1>9, <2>1 DEF Sorted
  <2>2. CASE p = q
    <3>1. k + 1 \in 1 .. Len(queue[q]) /\ l + 1 \in 1 .. Len(queue[q]) /\ k + 1 < l + 1
      BY <1>3, <1>9, <2>2
    <3> QED
      BY <1>3, <1>9, <2>2, <3>1 DEF Sorted
  <2> QED
    BY <2>1, <2>2
<1>10. Sorted'
  BY <1>9 DEF Sorted, Follows, Earlier
<1>11. On(q) = On(q)' \cup {Head(queue[q])}
  BY <1>5, <1>6, <1>7
<1> QED
  BY <1>5, <1>6, <1>8, <1>10, <1>11

------------------------------------------------------------------------------
(* NoOverrun follows from the order of the jobs *)

\* The stages of one input have an order.
LEMMA Ranks ==
  /\ Rank("gen") = 1 /\ Rank("in") = 2 /\ Rank("run") = 3 /\ Rank("out") = 4
  /\ \A s \in {"gen", "in", "run", "out"} : Rank(s) \in 1 .. 4
BY DEF Rank

\* In one queue a job that is earlier than another comes before it.
LEMMA NotBoth ==
  ASSUME NEW a \in Ids, NEW b \in Ids, Follows(a, b)
  PROVE  ~Earlier(b, a)
<1>1. a.it \in Nat /\ b.it \in Nat /\ Rank(a.stage) \in 1 .. 4 /\ Rank(b.stage) \in 1 .. 4
  BY Ranks DEF Ids
<1> QED
  BY <1>1 DEF Follows, Earlier

\* Within a queue the order is the queue's; across two queues a fence keeps it.
LEMMA OrderMeansNoOverrun ==
  ASSUME TypeOK, OrderInv
  PROVE  NoOverrun
<1> SUFFICES ASSUME NEW q \in Apis, MayRun(q), NEW j \in InFlight,
                    Earlier(j.id, Head(queue[q]).id), Conflict(j, Head(queue[q]))
             PROVE  FALSE
  BY DEF NoOverrun
<1> DEFINE h == Head(queue[q])
<1>1. PICK p \in Apis : j \in On(p)
  BY DEF InFlight, On
<1>2. h \in On(q) /\ h = queue[q][1] /\ 1 \in 1 .. Len(queue[q])
  <2>1. queue[q] \in Seq(Jobs) /\ queue[q] # <<>>
    BY DEF TypeOK, MayRun
  <2>2. h = queue[q][1] /\ 1 \in 1 .. Len(queue[q])
    BY <2>1
  <2> QED
    BY <2>2 DEF On
<1> HIDE DEF h
<1>3. j \in Jobs /\ h \in Jobs /\ Right(p, j) /\ Right(q, h) /\ Started(j.id) /\ Started(h.id)
  BY <1>1, <1>2, OnJobs DEF OrderInv, JobsRight
<1>4. /\ j.id \in Ids /\ h.id \in Ids /\ j.id.it \in Nat /\ h.id.it \in Nat
      /\ j.id.stage \in {"gen", "in", "run", "out"} /\ h.id.stage \in {"gen", "in", "run", "out"}
  BY <1>3 DEF Jobs, Ids
<1>5. Earlier(j.id, h.id) /\ Conflict(j, h)
  BY DEF h
<1>6. p # q
  <2> SUFFICES ASSUME p = q PROVE FALSE
    OBVIOUS
  <2>1. PICK k \in 1 .. Len(queue[q]) : j = queue[q][k]
    BY <1>1 DEF On
  <2>2. CASE k = 1
    <3>1. Earlier(h.id, h.id)
      BY <1>2, <1>5, <2>1, <2>2
    <3> QED
      BY <1>4, <3>1, Ranks DEF Earlier
  <2>3. CASE k # 1
    <3>1. Follows(h.id, j.id)
      BY <1>2, <2>1, <2>3 DEF OrderInv, Sorted
    <3> QED
      BY <1>4, <1>5, <3>1, NotBoth
  <2> QED
    BY <2>2, <2>3
<1>7. PICK m : \/ m \in Writes(j) /\ m \in Writes(h)
               \/ m \in Writes(j) /\ m \in Reads(h)
               \/ m \in Reads(j) /\ m \in Writes(h)
  BY <1>5 DEF Conflict
<1>8. cell.ep \in {"cpu", "webgpu"} /\ (cell.ep = "webgpu" /\ cell.src # "wgpu" => EngineIn = In)
  BY Ways DEF EngineIn
<1>9. \/ j.id.stage = "gen" /\ h.id.stage = "in"
      \/ j.id.stage = "in" /\ h.id.stage = "gen"
  <2>1. CASE cell.ep = "cpu"
    <3>1. m \in Writes(j) /\ m \in Writes(h)
      BY <1>3, <1>7, <2>1, ReadBy
    <3>2. /\ j.id.stage \in {"gen", "out"} /\ h.id.stage \in {"gen", "out"}
      BY <1>3, <1>4, <2>1 DEF Right
    <3>3. j.id.stage = h.id.stage
      BY <1>3, <3>1, <3>2, WrittenBy, Distinct
    <3> QED
      BY <1>3, <1>6, <2>1, <3>2, <3>3 DEF Right
  <2>2. CASE cell.ep = "webgpu"
    <3>1. /\ j.id.stage # "gen" => p = "wgpu"
          /\ h.id.stage # "gen" => q = "wgpu"
          /\ j.id.stage = "gen" => p = cell.src
          /\ h.id.stage = "gen" => q = cell.src
      BY <1>3, <1>4, <2>2 DEF Right
    <3>2. EngineIn = In
      BY <1>6, <1>8, <2>2, <3>1
    <3>3. CASE j.id.stage = "gen"
      <4>1. m = Src /\ h.id.stage # "gen"
        BY <1>3, <1>6, <1>7, <3>1, <3>3, WrittenBy, ReadBy
      <4>2. h.id.stage \notin {"run", "out"}
        BY <1>3, <1>7, <3>2, <4>1, WrittenBy, ReadBy, Distinct
      <4> QED
        BY <1>4, <3>3, <4>1, <4>2
    <3>4. CASE h.id.stage = "gen"
      <4>1. m = Src /\ j.id.stage # "gen"
        BY <1>3, <1>6, <1>7, <3>1, <3>4, WrittenBy, ReadBy
      <4>2. j.id.stage \notin {"run", "out"}
        BY <1>3, <1>7, <3>2, <4>1, WrittenBy, ReadBy, Distinct
      <4> QED
        BY <1>4, <3>4, <4>1, <4>2
    <3> QED
      BY <1>6, <3>1, <3>3, <3>4
  <2> QED
    BY <1>8, <2>1, <2>2
<1>10. Signaled(h.wait)
  BY DEF MayRun, h
<1>11. CASE j.id.stage = "gen" /\ h.id.stage = "in"
  <2>1. j.id.it <= h.id.it
    BY <1>4, <1>5 DEF Earlier
  <2>2. Holds(h.wait, GenId(h.id.it))
    BY <1>1, <1>2, <1>11, <2>1 DEF OrderInv, InTurn
  <2> QED
    BY <1>10, <2>2 DEF Holds
<1>12. CASE j.id.stage = "in" /\ h.id.stage = "gen"
  <2>1. j.id.it < h.id.it
    BY <1>4, <1>5, <1>12, Ranks DEF Earlier
  <2>2. Holds(h.wait, InId(h.id.it - 1))
    BY <1>1, <1>2, <1>12, <2>1 DEF OrderInv, InTurn
  <2> QED
    BY <1>10, <2>2 DEF Holds
<1> QED
  BY <1>9, <1>11, <1>12

------------------------------------------------------------------------------
(* Every step keeps the order of the jobs *)

\* A submission signals nothing.
LEMMA HoldsSubmitted ==
  ASSUME TypeOK, NEW q \in Apis, NEW j, Submitted(q, j), NEW f, NEW id, Holds(f, id)
  PROVE  Holds(f, id)'
<1>1. PICK p \in Apis : \E k \in On(p) : k.id = f
  BY SignaledOn DEF Holds
<1> PICK k \in On(p) : k.id = f
  BY <1>1
<1>2. k \in On(p)'
  BY Submits
<1>3. ~Signaled(f)'
  <2>1. \E k1 \in InFlight' : k1.id = f
    BY <1>2 DEF InFlight, On
  <2> QED
    BY <2>1 DEF Signaled
<1> QED
  BY <1>3 DEF Holds

\* The stages of this iteration so far are submitted before the next one.
LEMMA StartedFirst ==
  ASSUME NEW a \in Ids, NEW b \in Ids, Started(a), it \in Nat, b.it = it,
         \/ pc = "gen" /\ b.stage = "gen"
         \/ pc = "in" /\ b.stage = "in"
         \/ pc = "run" /\ b.stage = "run"
         \/ pc = "out" /\ b.stage = "out"
  PROVE  Follows(a, b)
<1>1. a.it \in Nat /\ a.stage \in {"gen", "in", "run", "out"}
  BY DEF Ids
<1>2. CASE a.it < it
  BY <1>2 DEF Follows, Earlier
<1>3. CASE a.it = it /\ a.stage \in Done
  BY <1>1, <1>3, Ranks DEF Done, Follows, Earlier
<1> QED
  BY <1>2, <1>3 DEF Started

\* The host goes on: what was started stays started.
LEMMA StartedKept ==
  ASSUME it \in Nat, it' \in Nat,
         \/ it' = it /\ Done \subseteq Done'
         \/ it' = it + 1,
         NEW a \in Ids, Started(a)
  PROVE  Started(a)'
<1>1. a.it \in Nat
  BY DEF Ids
<1> QED
  BY <1>1 DEF Started

\* A step of the host that submits nothing.
LEMMA OrderKept ==
  ASSUME TypeOK, OrderInv, UNCHANGED <<cell, queue>>, it' \in Nat,
         \/ it' = it /\ Done \subseteq Done'
         \/ it' = it + 1,
         ReadyHeld', ReleasedHeld', ConsumerIdle'
  PROVE  OrderInv'
<1>1. \A q \in Apis : On(q)' = On(q) /\ On(q) \subseteq Jobs
  BY OnJobs DEF On
<1>2. \A f, id : Holds(f, id)' <=> Holds(f, id)
  BY DEF Holds, Signaled, InFlight
<1>3. Sorted'
  BY DEF OrderInv, Sorted, Follows, Earlier
<1>4. InTurn'
  BY <1>1, <1>2 DEF OrderInv, InTurn, GenId, InId
<1>5. JobsRight'
  <2>1. ASSUME NEW q \in Apis, NEW j \in On(q) PROVE Right(q, j)' /\ Started(j.id)'
    <3>1. j.id \in Ids /\ Right(q, j) /\ Started(j.id)
      BY <1>1, <2>1 DEF OrderInv, JobsRight, Jobs
    <3>2. Started(j.id)'
      BY <3>1, StartedKept DEF TypeOK
    <3> QED
      BY <3>1, <3>2, CellKept
  <2> QED
    BY <1>1, <2>1 DEF JobsRight
<1> QED
  BY <1>3, <1>4, <1>5 DEF OrderInv

\* A step of the host that submits a job.
LEMMA OrderSubmitted ==
  ASSUME TypeOK, OrderInv, UNCHANGED <<cell, it>>, NEW q \in Apis, NEW j \in Jobs, Submitted(q, j),
         Right(q, j), j.id.it = it,
         \/ pc = "gen" /\ j.id.stage = "gen"
         \/ pc = "in" /\ j.id.stage = "in"
         \/ pc = "run" /\ j.id.stage = "run"
         \/ pc = "out" /\ j.id.stage = "out",
         Done \subseteq Done', j.id.stage \in Done',
         j.id.stage = "gen" =>
           \A p \in Apis : \A i \in On(p) : i.id.stage = "in" => Holds(j.wait, InId(it - 1)),
         j.id.stage = "in" =>
           \A p \in Apis : \A g \in On(p) : g.id.stage = "gen" => Holds(j.wait, GenId(it)),
         ReadyHeld', ReleasedHeld', ConsumerIdle'
  PROVE  OrderInv'
<1>0. it \in Nat /\ j.id \in Ids /\ \A p \in Apis : On(p) \subseteq Jobs
  BY OnJobs DEF TypeOK, Jobs
<1>1. /\ On(q)' = On(q) \cup {j}
      /\ \A p \in Apis : p # q => On(p)' = On(p)
  BY Submits
<1>2. \A p \in Apis : \A a \in On(p) : a.id \in Ids /\ Started(a.id) /\ Right(p, a)
  BY <1>0 DEF OrderInv, JobsRight, Jobs
<1>3. Sorted'
  <2>1. \A a \in On(q) : Follows(a.id, j.id)
    BY <1>0, <1>2, StartedFirst
  <2> QED
    BY <2>1, Submits DEF OrderInv
<1>4. JobsRight'
  <2>1. ASSUME NEW p \in Apis, NEW a \in On(p)' PROVE Right(p, a)' /\ Started(a.id)'
    <3>1. CASE a \in On(p)
      BY <1>0, <1>2, <3>1, StartedKept, CellKept
    <3>2. CASE p = q /\ a = j
      <4>1. Started(j.id)'
        BY DEF Started
      <4> QED
        BY <3>2, <4>1, CellKept
    <3> QED
      BY <1>1, <2>1, <3>1, <3>2
  <2> QED
    BY <2>1 DEF JobsRight
<1>5. InTurn'
  <2>1. ASSUME NEW p \in Apis, NEW r \in Apis, NEW g \in On(p)', NEW i \in On(r)',
               g.id.stage = "gen", i.id.stage = "in"
        PROVE  /\ g.id.it <= i.id.it => Holds(i.wait, GenId(i.id.it))'
               /\ i.id.it < g.id.it => Holds(g.wait, InId(g.id.it - 1))'
    <3>1. (g \in On(p) \/ (p = q /\ g = j)) /\ (i \in On(r) \/ (r = q /\ i = j))
      BY <1>1, <2>1
    <3>2. CASE g \in On(p) /\ i \in On(r)
      <4>1. /\ g.id.it <= i.id.it => Holds(i.wait, GenId(i.id.it))
            /\ i.id.it < g.id.it => Holds(g.wait, InId(g.id.it - 1))
        BY <2>1, <3>2 DEF OrderInv, InTurn
      <4> QED
        BY <4>1, HoldsSubmitted DEF GenId, InId
    <3>3. CASE g = j /\ i \in On(r)
      <4>1. pc = "gen" /\ Holds(j.wait, InId(it - 1))
        BY <2>1, <3>3
      <4>2. i.id.it < it
        BY <1>2, <2>1, <3>3, <4>1 DEF Started, Done
      <4>3. i.id.it \in Nat
        BY <1>2, <3>3 DEF Ids
      <4>4. Holds(j.wait, InId(it - 1))'
        BY <4>1, HoldsSubmitted DEF InId
      <4> QED
        BY <1>0, <3>3, <4>2, <4>3, <4>4 DEF InId
    <3>4. CASE g \in On(p) /\ i = j
      <4>1. Holds(j.wait, GenId(it))
        BY <2>1, <3>4
      <4>2. g.id.it \in Nat /\ g.id.it <= it
        BY <1>0, <1>2, <3>4 DEF Ids, Started
      <4>3. Holds(j.wait, GenId(it))'
        BY <4>1, HoldsSubmitted DEF GenId
      <4> QED
        BY <1>0, <3>4, <4>2, <4>3 DEF GenId
    <3> QED
      BY <2>1, <3>1, <3>2, <3>3, <3>4
  <2> QED
    BY <2>1 DEF InTurn, GenId, InId
<1> QED
  BY <1>3, <1>4, <1>5 DEF OrderInv

------------------------------------------------------------------------------
(* What the host reads *)

\* No job in flight writes m.
Settled(m) == \A q \in Apis : \A j \in On(q) : m \notin Writes(j)

\* Without a writer in flight memory holds what is due.
LEMMA DueNow == ASSUME NEW m, NEW n, Due(m, n), Settled(m) PROVE mem[m] = n
BY DEF Due, Settled

\* The GPU writes the producer's tensor if it is in the producer's queue, the engine's
\* input and outputs if the engine is in WebGPU.
LEMMA SettledOnHost ==
  ASSUME TypeOK, OrderInv
  PROVE  /\ cell.src \notin Apis => Settled(Src)
         /\ cell.ep = "cpu" => Settled(In) /\ \A i \in Outs : Settled(Out(i))
         /\ cell.ep = "cpu" /\ cell.dst \notin Apis => \A i \in Outs : Settled(Dst(i))
<1>1. \A q \in Apis : \A j \in On(q) : j \in Jobs /\ Right(q, j)
  BY OnJobs DEF OrderInv, JobsRight
<1>2. ASSUME cell.src \notin Apis PROVE Settled(Src)
  <2>1. ASSUME NEW q \in Apis, NEW j \in On(q), Src \in Writes(j) PROVE FALSE
    <3>1. j.id.stage = "gen"
      BY <1>1, <2>1, WrittenBy, Distinct
    <3> QED
      BY <1>1, <1>2, <2>1, <3>1 DEF Right
  <2> QED
    BY <2>1 DEF Settled
<1>3. ASSUME cell.ep = "cpu", NEW m, m = In \/ \E i \in Outs : m = Out(i) PROVE Settled(m)
  <2>1. ASSUME NEW q \in Apis, NEW j \in On(q), m \in Writes(j) PROVE FALSE
    <3>1. j.id.stage \in {"in", "run"}
      BY <1>1, <1>3, <2>1, WrittenBy, Distinct
    <3> QED
      BY <1>1, <1>3, <2>1, <3>1 DEF Right
  <2> QED
    BY <2>1 DEF Settled
<1>4. ASSUME cell.ep = "cpu", cell.dst \notin Apis, NEW i \in Outs PROVE Settled(Dst(i))
  <2>1. ASSUME NEW q \in Apis, NEW j \in On(q), Dst(i) \in Writes(j) PROVE FALSE
    <3>1. j.id.stage \in {"run", "out"}
      BY <1>1, <1>4, <2>1, WrittenBy, Distinct
    <3> QED
      BY <1>1, <1>4, <2>1, <3>1 DEF Right
  <2> QED
    BY <2>1 DEF Settled
<1> QED
  BY <1>2, <1>3, <1>4

\* What is submitted with its data fixed has the current input's.
LEMMA DataFixed ==
  ASSUME CellInv
  PROVE  /\ pc = "in" /\ InEdge = "write_buffer" => mem[Src] = it
         /\ pc = "out" /\ OutEdge \in {"write_buffer", "upload"} => mem[Out(o)] = it
<1>0. TypeOK /\ OrderInv /\ HostDue /\ o \in Outs
  BY DEF CellInv, TypeInv, TypeOK, DataInv
<1>1. ASSUME pc = "in", InEdge = "write_buffer" PROVE mem[Src] = it
  <2>1. Due(Src, it)
    BY <1>0, <1>1 DEF HostDue
  <2>2. Settled(Src)
    BY <1>0, <1>1, Ways, SettledOnHost DEF Apis
  <2> QED
    BY <2>1, <2>2, DueNow
<1>2. ASSUME pc = "out", OutEdge \in {"write_buffer", "upload"} PROVE mem[Out(o)] = it
  <2>1. cell.ep = "cpu" /\ ~HandOver(OutEdge)
    BY <1>0, <1>2, Ways DEF HandOver
  <2>2. Due(Out(o), it)
    BY <1>0, <1>2, <2>1 DEF HostDue, EngineOut
  <2>3. Settled(Out(o))
    BY <1>0, <2>1, SettledOnHost
  <2> QED
    BY <2>2, <2>3, DueNow
<1> QED
  BY <1>1, <1>2

------------------------------------------------------------------------------
(* The submitters *)

\* What the two tokens of the producer's tensor say about the jobs in flight.
LEMMA TokensSay ==
  ASSUME TypeOK, OrderInv
  PROVE  /\ cell.src \notin {"gl", "vk", "dmabuf"} /\ cell.src # "cpu" =>
              \A q \in Apis : \A i \in On(q) : i.id.stage # "in"
         /\ cell.ep = "cpu" => \A q \in Apis : \A i \in On(q) : i.id.stage # "in"
         /\ cell.src \notin Apis => \A q \in Apis : \A g \in On(q) : g.id.stage # "gen"
         /\ pc = "gen" /\ cell.src \in {"gl", "vk", "dmabuf"} =>
              \A q \in Apis : \A i \in On(q) : i.id.stage = "in" =>
                 released[Src] = InId(it - 1) /\ ~Signaled(released[Src])
         /\ pc = "in" /\ cell.src \in {"gl", "vk"} =>
              \A q \in Apis : \A g \in On(q) : g.id.stage = "gen" =>
                 ready[Src] = GenId(it) /\ ~Signaled(ready[Src])
<1>1. \A q \in Apis : \A j \in On(q) : Right(q, j)
  BY DEF OrderInv, JobsRight
<1>2. ASSUME NEW q \in Apis, NEW i \in On(q), i.id.stage = "in"
      PROVE  cell.src \in {"gl", "vk", "dmabuf", "cpu"} /\ cell.ep = "webgpu"
  BY <1>1, <1>2 DEF Right
<1>3. ASSUME NEW q \in Apis, NEW g \in On(q), g.id.stage = "gen"
      PROVE  cell.src \in Apis
  BY <1>1, <1>3 DEF Right
<1> QED
  BY <1>2, <1>3 DEF OrderInv, ReadyHeld, ReleasedHeld, Holds

\* A generator on GL or Vulkan behind the fence of the last import.
LEMMA OrderGenForeign ==
  ASSUME FencesWork, HostWaits, CellInv, GenGl \/ GenVk
  PROVE  OrderInv'
<1>0. /\ TypeOK /\ OrderInv /\ it \in Nat \ {0} /\ 0 \in Nat
      /\ released[Src] \in Files /\ NoFd \in Files
      /\ ready \in [Tensors -> Files] /\ Src \in Tensors
  BY MemoryParts DEF CellInv, TypeInv, TypeOK
<1>1. PICK q \in {"gl", "vk"} :
        /\ cell.src = q /\ pc = "gen" /\ UNCHANGED <<cell, fenced>>
        /\ \E gate \in Gates(Src) :
             /\ HonourReleased(q, Src, gate)
             /\ Submit(q, Id("gen", 0), gate, it)
        /\ SignalReady(q, Src, Id("gen", 0), Go("in"), "finish_gen")
  BY DEF GenGl, GenVk, At
<1>2. PICK gate \in Gates(Src) : HonourReleased(q, Src, gate) /\ Submit(q, Id("gen", 0), gate, it)
  BY <1>1
<1> DEFINE j == [id |-> Id("gen", 0), wait |-> gate, data |-> it]
<1>3. Submitted(q, j) /\ q \in Apis
  BY <1>2 DEF Submit, Submitted, Apis
<1>4. j \in Jobs /\ j.id = GenId(it) /\ j.id.stage = "gen" /\ j.id.it = it /\ j.data = it
      /\ j.wait = gate
  BY <1>0, IdType DEF Jobs, Gates, Id, GenId
<1>5. it' = it /\ pc' \in {"in", "finish_gen"} /\ (pc' = "in" => ready' = [ready EXCEPT ![Src] = j.id])
  BY <1>1 DEF SignalReady, Go, SetReady, FencesWork
<1>6. Right(q, j)
  BY <1>0, <1>1, <1>4 DEF Right
<1>7. ASSUME NEW p \in Apis, NEW i \in On(p), i.id.stage = "in" PROVE Holds(gate, InId(it - 1))
  <2>1. released[Src] = InId(it - 1) /\ ~Signaled(released[Src])
    BY <1>0, <1>1, <1>7, TokensSay
  <2>2. released[Src] # NoFd
    BY <2>1 DEF InId, NoFd
  <2>3. gate = released[Src]
    BY <1>2, <2>1, <2>2 DEF HonourReleased, WaitOrGiveUp, HostWaits
  <2> QED
    BY <2>1, <2>3 DEF Holds
<1>8. Done = {} /\ "gen" \in Done'
  BY <1>1, <1>5 DEF Done
<1>9. ReadyHeld'
  <2>1. SUFFICES ASSUME pc' = "in" PROVE Holds(ready[Src], GenId(it))'
    BY DEF ReadyHeld
  <2>2. ready'[Src] = GenId(it)
    BY <1>0, <1>4, <1>5, <2>1
  <2>3. j \in On(q)'
    BY <1>0, <1>3, Submits
  <2>4. ~Signaled(GenId(it))'
    <3>1. \E k \in InFlight' : k.id = GenId(it)
      BY <1>3, <1>4, <2>3 DEF InFlight, On
    <3> QED
      BY <1>5, <3>1 DEF Signaled, GenId
  <2> QED
    BY <1>5, <2>2, <2>4 DEF Holds, GenId, Signaled
<1>10. ReleasedHeld' /\ ConsumerIdle'
  BY <1>5 DEF ReleasedHeld, ConsumerIdle
<1> HIDE DEF j
<1> QED
  BY <1>0, <1>1, <1>3, <1>4, <1>5, <1>6, <1>7, <1>8, <1>9, <1>10, OrderSubmitted

\* The input edges that submit: an upload, or an import behind the generator's fence.
LEMMA OrderInput ==
  ASSUME FencesWork, HostWaits, CellInv, InWrite \/ InImport
  PROVE  OrderInv'
<1>0. /\ TypeOK /\ OrderInv /\ it \in Nat \ {0} /\ 0 \in Nat
      /\ ready[Src] \in Files /\ NoFd \in Files /\ mem \in [Memory -> Nat]
      /\ released \in [Tensors -> Files] /\ Src \in Tensors /\ Src \in Memory /\ "wgpu" \in Apis
  BY MemoryParts DEF CellInv, TypeInv, TypeOK
<1>1. pc = "in" /\ pc' = "run" /\ UNCHANGED <<cell, fenced, it>>
  BY DEF InWrite, InImport, At, Go
<1>2. \E wait \in Files, data \in Nat :
        /\ Submit("wgpu", Id("in", 0), wait, data)
        /\ \/ InEdge = "write_buffer" /\ data = it
           \/ /\ InEdge = "dmabuf_import" /\ data = FromMemory
              /\ \/ "wgpu" \in fenced /\ wait = ready[Src]
                                      /\ released' = [released EXCEPT ![Src] = Id("in", 0)]
                 \/ "wgpu" \notin fenced /\ Signaled(ready[Src])
  <2>1. CASE InWrite
    <3>1. Submit("wgpu", Id("in", 0), NoFd, mem[Src]) /\ InEdge = "write_buffer"
      BY <2>1 DEF InWrite
    <3>2. mem[Src] = it /\ mem[Src] \in Nat
      BY <1>0, <1>1, <3>1, DataFixed
    <3> QED
      BY <1>0, <3>1, <3>2
  <2>2. CASE InImport
    <3>1. PICK f \in {NoFd, Id("in", 0)} :
            ImportAccess(Id("in", 0), ready[Src], f) /\ SetReleased(Src, f)
      BY <2>2 DEF InImport
    <3>2. InEdge = "dmabuf_import" /\ FromMemory \in Nat
      BY <2>2 DEF InImport, FromMemory
    <3>3. CASE "wgpu" \in fenced
      <4>1. Submit("wgpu", Id("in", 0), ready[Src], FromMemory) /\ f = Id("in", 0)
        BY <3>1, <3>3 DEF ImportAccess, Acquired, FencesWork
      <4> QED
        BY <1>0, <3>1, <3>2, <3>3, <4>1 DEF SetReleased
    <3>4. CASE "wgpu" \notin fenced
      <4>1. Submit("wgpu", Id("in", 0), NoFd, FromMemory) /\ Signaled(ready[Src])
        BY <3>1, <3>4 DEF ImportAccess, WaitOrGiveUp, HostWaits
      <4> QED
        BY <1>0, <3>2, <3>4, <4>1
    <3> QED
      BY <3>3, <3>4
  <2> QED
    BY <2>1, <2>2
<1>3. PICK wait \in Files, data \in Nat :
        /\ Submit("wgpu", Id("in", 0), wait, data)
        /\ \/ InEdge = "write_buffer" /\ data = it
           \/ /\ InEdge = "dmabuf_import" /\ data = FromMemory
              /\ \/ "wgpu" \in fenced /\ wait = ready[Src]
                                      /\ released' = [released EXCEPT ![Src] = Id("in", 0)]
                 \/ "wgpu" \notin fenced /\ Signaled(ready[Src])
  BY <1>2
<1> DEFINE j == [id |-> Id("in", 0), wait |-> wait, data |-> data]
<1>4. /\ j \in Jobs /\ j.id = InId(it) /\ j.id.stage = "in" /\ j.id.it = it
      /\ j.data = data /\ j.wait = wait
  BY <1>0, IdType DEF Jobs, Id, InId
<1>5. Submitted("wgpu", j)
  BY <1>3 DEF Submit, Submitted
<1>6. Right("wgpu", j)
  <2>1. \/ cell.ep = "webgpu" /\ cell.src = "cpu" /\ data = it /\ data # FromMemory
        \/ cell.ep = "webgpu" /\ cell.src \in {"gl", "vk", "dmabuf"} /\ data = FromMemory
    BY <1>0, <1>3, Ways DEF FromMemory
  <2> QED
    BY <1>0, <1>4, <2>1 DEF Right
<1>7. ASSUME NEW p \in Apis, NEW g \in On(p), g.id.stage = "gen" PROVE Holds(wait, GenId(it))
  <2>1. cell.src \in {"gl", "vk"} /\ InEdge = "dmabuf_import"
    BY <1>0, <1>3, <1>7, TokensSay, Ways DEF Apis
  <2>2. ready[Src] = GenId(it) /\ ~Signaled(ready[Src])
    BY <1>0, <1>1, <1>7, <2>1, TokensSay
  <2>3. wait = ready[Src]
    BY <1>3, <2>1, <2>2
  <2> QED
    BY <2>2, <2>3 DEF Holds
<1>8. Done \subseteq Done' /\ "in" \in Done'
  BY <1>1 DEF Done
<1>9. ReadyHeld' /\ ConsumerIdle'
  BY <1>1 DEF ReadyHeld, ConsumerIdle
<1>10. ReleasedHeld'
  <2>1. SUFFICES ASSUME cell.src \in {"gl", "vk", "dmabuf"}, "wgpu" \in fenced
                 PROVE  Holds(released[Src], InId(it))'
    BY <1>1 DEF ReleasedHeld
  <2>2. released'[Src] = InId(it)
    BY <1>0, <1>3, <1>4, <2>1, Ways
  <2>3. j \in On("wgpu")'
    BY <1>0, <1>5, Submits
  <2>4. ~Signaled(InId(it))'
    <3>1. \E k \in InFlight' : k.id = InId(it)
      BY <1>0, <1>4, <2>3 DEF InFlight, On
    <3> QED
      BY <1>1, <3>1 DEF Signaled, InId
  <2> QED
    BY <1>1, <2>2, <2>4 DEF Holds, InId, Signaled
<1> HIDE DEF j
<1> QED
  BY <1>0, <1>1, <1>4, <1>5, <1>6, <1>7, <1>8, <1>9, <1>10, OrderSubmitted

\* While the input is in flight, its consumer's fence stays with the host.
LEMMA ReleasedKept ==
  ASSUME TypeOK, OrderInv, UNCHANGED <<cell, fenced, it>>, released'[Src] = released[Src],
         NEW q \in Apis, NEW j, Submitted(q, j), j.id.stage # "in",
         pc \in {"run", "out"}, pc' \in {"run", "out", "finish_out", "ready"}
  PROVE  ReleasedHeld'
<1>1. SUFFICES ASSUME cell.src \in {"gl", "vk", "dmabuf"}, "wgpu" \in fenced,
                      NEW p \in Apis, NEW i \in On(p)', i.id.stage = "in"
               PROVE  Holds(released[Src], InId(it))'
  BY DEF ReleasedHeld
<1>2. i \in On(p)
  BY <1>1, Submits
<1>3. Holds(released[Src], InId(it))
  BY <1>1, <1>2 DEF OrderInv, ReleasedHeld
<1> QED
  BY <1>3, HoldsSubmitted DEF Holds, InId, Signaled

\* The generator and the engine on WebGPU, and the output edges that submit.
LEMMA OrderWgpu ==
  ASSUME CellInv, GenWgpu \/ RunWebgpu
  PROVE  OrderInv'
<1>0. /\ TypeOK /\ OrderInv /\ it \in Nat \ {0} /\ 0 \in Nat /\ NoFd \in Files /\ FromMemory \in Nat
      /\ "wgpu" \in Apis
  BY MemoryParts DEF CellInv, TypeInv, TypeOK
<1>1. CASE GenWgpu
  <2> DEFINE j == [id |-> Id("gen", 0), wait |-> NoFd, data |-> it]
  <2>1. pc = "gen" /\ pc' = "in" /\ UNCHANGED <<cell, it>> /\ cell.src = "wgpu" /\ Submitted("wgpu", j)
    BY <1>1 DEF GenWgpu, At, Go, Submit, Submitted
  <2>2. j \in Jobs /\ j.id.stage = "gen" /\ j.id.it = it /\ j.data = it
    BY <1>0, IdType DEF Jobs, Id
  <2>3. Right("wgpu", j)
    BY <1>0, <2>1, <2>2 DEF Right
  <2>4. \A p \in Apis : \A i \in On(p) : i.id.stage # "in"
    BY <1>0, <2>1, TokensSay
  <2>5. Done \subseteq Done' /\ "gen" \in Done'
    BY <2>1 DEF Done
  <2>6. ReadyHeld' /\ ReleasedHeld' /\ ConsumerIdle'
    BY <2>1 DEF ReadyHeld, ReleasedHeld, ConsumerIdle
  <2> HIDE DEF j
  <2> QED
    BY <1>0, <2>1, <2>2, <2>3, <2>4, <2>5, <2>6, OrderSubmitted
<1>2. CASE RunWebgpu
  <2> DEFINE j == [id |-> Id("run", 0), wait |-> NoFd, data |-> FromMemory]
  <2>1. /\ pc = "run" /\ pc' \in {"out", "ready"} /\ UNCHANGED <<cell, fenced, it, released>>
        /\ cell.ep = "webgpu" /\ Submitted("wgpu", j) /\ (pc' = "ready" => HandOver(OutEdge))
    BY <1>2 DEF RunWebgpu, At, Go, Submit, Submitted, AfterRun, tokenVars
  <2>2. j \in Jobs /\ j.id.stage = "run" /\ j.id.it = it /\ j.data = FromMemory
    BY <1>0, IdType DEF Jobs, Id
  <2>3. Right("wgpu", j)
    BY <1>0, <2>1, <2>2 DEF Right
  <2>5. Done \subseteq Done' /\ "run" \in Done'
    BY <2>1 DEF Done
  <2>6. ReleasedHeld'
    BY <1>0, <2>1, <2>2, ReleasedKept
  <2>7. ReadyHeld' /\ ConsumerIdle'
    BY <1>0, <2>1, Ways DEF ReadyHeld, ConsumerIdle
  <2> HIDE DEF j
  <2> QED
    BY <1>0, <2>1, <2>2, <2>3, <2>5, <2>6, <2>7, OrderSubmitted
<1> QED
  BY <1>1, <1>2

\* An output edge that uploads on its consumer's own API, or imports for it.
LEMMA OrderOutput ==
  ASSUME CellInv, OutWrite \/ OutImport \/ OutUploadGl
  PROVE  OrderInv'
<1>0. /\ TypeOK /\ OrderInv /\ it \in Nat \ {0} /\ o \in Outs /\ o \in Nat /\ NoFd \in Files
      /\ FromMemory \in Nat /\ ready \in [Tensors -> Files] /\ released \in [Tensors -> Files]
      /\ Src \in Tensors /\ Dst(o) \in Tensors /\ Dst(o) # Src /\ released[Dst(o)] \in Files
  BY MemoryParts, Distinct DEF CellInv, TypeInv, TypeOK, Outs
<1>1. pc = "out" /\ pc' \in {"out", "finish_out", "ready"} /\ UNCHANGED <<cell, fenced, it>>
  BY DEF OutWrite, OutImport, OutUploadGl, At, GoOver, SignalReady, Go
<1>2. released'[Src] = released[Src]
  BY <1>0 DEF OutWrite, OutImport, OutUploadGl, HonourReleased, SetReleased, tokenVars
<1>3. \E q \in Apis, wait \in Files, data \in Nat :
        /\ Submit(q, Id("out", o), wait, data)
        /\ \/ cell.ep = "cpu" /\ q = cell.dst /\ q # "vk" /\ data = it
           \/ /\ cell.ep = "webgpu" /\ q = "wgpu" /\ data = FromMemory
              /\ cell.dst \in {"gl", "vk", "dmabuf"}
  <2>1. CASE OutWrite
    <3>1. Submit("wgpu", Id("out", o), NoFd, mem[Out(o)]) /\ OutEdge = "write_buffer"
      BY <2>1 DEF OutWrite
    <3>2. mem[Out(o)] = it /\ cell.ep = "cpu" /\ cell.dst = "wgpu"
      BY <1>0, <1>1, <3>1, DataFixed, Ways
    <3> QED
      BY <1>0, <3>1, <3>2, MemoryParts
  <2>2. CASE OutImport
    <3>1. PICK f : ImportAccess(Id("out", o), released[Dst(o)], f)
      BY <2>2 DEF OutImport
    <3>2. PICK wait \in {released[Dst(o)], NoFd} : Submit("wgpu", Id("out", o), wait, FromMemory)
      BY <3>1 DEF ImportAccess, Acquired
    <3>3. cell.ep = "webgpu" /\ cell.dst \in {"gl", "vk", "dmabuf"} /\ wait \in Files
      BY <1>0, <2>2, Ways DEF OutImport
    <3> QED
      BY <1>0, <3>2, <3>3, MemoryParts
  <2>3. CASE OutUploadGl
    <3>1. PICK gate \in Gates(Dst(o)) : Submit("gl", Id("out", o), gate, mem[Out(o)])
      BY <2>3 DEF OutUploadGl
    <3>2. OutEdge = "upload" /\ cell.dst = "gl" /\ gate \in Files
      BY <1>0, <2>3 DEF OutUploadGl, Gates
    <3>3. mem[Out(o)] = it /\ cell.ep = "cpu"
      BY <1>0, <1>1, <3>2, DataFixed, Ways
    <3> QED
      BY <1>0, <3>1, <3>2, <3>3, MemoryParts
  <2> QED
    BY <2>1, <2>2, <2>3
<1>4. PICK q \in Apis, wait \in Files, data \in Nat :
        /\ Submit(q, Id("out", o), wait, data)
        /\ \/ cell.ep = "cpu" /\ q = cell.dst /\ q # "vk" /\ data = it
           \/ /\ cell.ep = "webgpu" /\ q = "wgpu" /\ data = FromMemory
              /\ cell.dst \in {"gl", "vk", "dmabuf"}
  BY <1>3
<1> DEFINE j == [id |-> Id("out", o), wait |-> wait, data |-> data]
<1>5. j \in Jobs /\ j.id.stage = "out" /\ j.id.it = it /\ j.id.o = o /\ j.data = data
  BY <1>0, IdType DEF Jobs, Id
<1>6. Submitted(q, j)
  BY <1>4 DEF Submit, Submitted
<1>7. Right(q, j)
  BY <1>0, <1>4, <1>5 DEF Right
<1>8. Done \subseteq Done' /\ "out" \in Done'
  BY <1>1 DEF Done
<1>9. ReleasedHeld'
  BY <1>0, <1>1, <1>2, <1>5, <1>6, ReleasedKept
<1>10. ReadyHeld' /\ ConsumerIdle'
  BY <1>1, <1>4 DEF ReadyHeld, ConsumerIdle
<1> HIDE DEF j
<1> QED
  BY <1>0, <1>1, <1>5, <1>6, <1>7, <1>8, <1>9, <1>10, OrderSubmitted

\* The other calls: only the ends of the loops ask what is still in flight.
LEMMA OrderOthers ==
  ASSUME FencesWork, HostWaits, CellInv, Host,
         ~(GenGl \/ GenVk \/ InWrite \/ InImport \/ GenWgpu \/ RunWebgpu),
         ~(OutWrite \/ OutImport \/ OutUploadGl)
  PROVE  OrderInv'
<1>0. /\ TypeOK /\ TypeInv /\ CellGiven /\ OrderInv /\ it \in Nat \ {0} /\ it' \in Nat
      /\ UNCHANGED <<cell, fenced>>
      /\ \A q \in Apis : On(q) \subseteq Jobs
      /\ released \in [Tensors -> Files] /\ Src \in Tensors
  BY HostPlace, OnJobs, MemoryParts DEF CellInv, TypeInv, TypeOK
<1>1. \A q \in Apis : \A j \in On(q) : Right(q, j)
  BY <1>0 DEF OrderInv, JobsRight
<1>2. ASSUME UNCHANGED queue,
             pc' \in {"in", "run", "out", "ready", "read", "check", "release", "done"},
             it' = it, Done \subseteq Done',
             pc' \in {"run", "out", "ready", "read", "check"} =>
               \/ cell.src \notin {"gl", "vk", "dmabuf"} \/ cell.ep = "cpu"
               \/ released'[Src] = released[Src] /\ pc \in {"run", "out", "ready", "read", "check"},
             pc' = "in" => \A q \in Apis : \A g \in On(q) : g.id.stage # "gen",
             /\ cell.ep = "webgpu" /\ cell.dst \in {"cpu", "wgpu"}
             /\ pc' \in {"read", "check"} \/ (cell.dst = "cpu" /\ pc' = "ready")
             => Idle("wgpu")
      PROVE  OrderInv'
  <2>1. \A q \in Apis : On(q)' = On(q)
    BY <1>2 DEF On
  <2>3. ReadyHeld'
    BY <1>0, <1>2, <2>1 DEF ReadyHeld
  <2>4. ReleasedHeld'
    <3>1. SUFFICES ASSUME cell.src \in {"gl", "vk", "dmabuf"}, NEW q \in Apis, NEW i \in On(q),
                          i.id.stage = "in",
                          pc' \in {"run", "out", "ready", "read", "check"}, "wgpu" \in fenced
                   PROVE  Holds(released[Src], InId(it))'
      BY <1>0, <1>2, <2>1 DEF ReleasedHeld
    <3>2. cell.ep # "cpu"
      BY <1>1, <3>1 DEF Right
    <3>3. released'[Src] = released[Src] /\ Holds(released[Src], InId(it))
      BY <1>0, <1>2, <3>1, <3>2 DEF OrderInv, ReleasedHeld
    <3> QED
      BY <1>2, <3>3 DEF Holds, Signaled, InFlight, InId
  <2>5. ConsumerIdle'
    BY <1>0, <1>2 DEF ConsumerIdle, Idle
  <2> QED
    BY <1>0, <1>2, <2>3, <2>4, <2>5, OrderKept
<1>3. CASE GenCpu \/ GenDmabuf \/ FinishGen
  <2>1. /\ UNCHANGED <<queue, it>> /\ pc \in {"gen", "finish_gen"} /\ pc' = "in"
        /\ \/ cell.src \in {"cpu", "dmabuf"}
           \/ cell.src \in Apis /\ On(cell.src) = {}
           \/ cell.src \notin Apis
    BY <1>0, <1>3, OnJobs DEF GenCpu, GenDmabuf, FinishGen, Finished, Go, At
  <2>2. \A q \in Apis : \A g \in On(q) : g.id.stage # "gen"
    BY <1>1, <2>1 DEF Right, Apis
  <2>3. Done \subseteq Done'
    BY <2>1 DEF Done
  <2> QED
    BY <1>2, <2>1, <2>2, <2>3
<1>4. CASE InView \/ InReadback
  <2>1. /\ UNCHANGED <<queue, it>> /\ pc = "in" /\ pc' = "run"
        /\ cell.src \in {"gl", "vk", "dmabuf"} => cell.ep = "cpu"
    BY <1>0, <1>4, Ways DEF InView, InReadback, Go, At
  <2>2. Done \subseteq Done'
    BY <2>1 DEF Done
  <2> QED
    BY <1>2, <2>1, <2>2
<1>5. CASE RunCpu
  <2>1. UNCHANGED <<queue, it>> /\ pc = "run" /\ pc' \in {"ready", "out"} /\ cell.ep = "cpu"
    BY <1>5 DEF RunCpu, Go, AfterRun, At
  <2>2. Done \subseteq Done'
    BY <2>1 DEF Done
  <2> QED
    BY <1>2, <2>1, <2>2
<1>6. CASE OutReadback \/ FinishOut \/ OutUploadVk \/ WaitReady \/ ReadOutput
  <2>1. /\ UNCHANGED <<queue, it>> /\ pc \in {"out", "finish_out", "ready", "read"}
        /\ pc' \in {"out", "ready", "read", "check"}
    BY <1>6 DEF OutReadback, FinishOut, OutUploadVk, WaitReady, ReadOutput, At, GoOver
  <2>2. released'[Src] = released[Src] /\ (pc = "finish_out" => cell.ep = "cpu")
    BY <1>0, <1>6, Distinct, Ways DEF OutReadback, FinishOut, OutUploadVk, WaitReady, ReadOutput,
       SetReleased, tokenVars, TypeInv, FinishPlace
  <2>3. Done \subseteq Done'
    BY <2>1 DEF Done
  <2>4. /\ cell.ep = "webgpu" /\ cell.dst \in {"cpu", "wgpu"}
        /\ pc' \in {"read", "check"} \/ (cell.dst = "cpu" /\ pc' = "ready")
        => Idle("wgpu")
    <3>1. CASE OutReadback
      BY <1>0, <2>1, <3>1, Ways DEF OutReadback, ReadbackWgpu
    <3>2. CASE FinishOut \/ OutUploadVk
      BY <1>0, <2>2, <3>2, Ways DEF FinishOut, OutUploadVk, At
    <3>3. CASE WaitReady
      <4>1. pc = "ready" /\ (cell.dst = "wgpu" => Idle("wgpu"))
        BY <3>3 DEF WaitReady, At
      <4> QED
        BY <1>0, <4>1 DEF OrderInv, ConsumerIdle
    <3>4. CASE ReadOutput
      <4>1. pc = "read"
        BY <3>4 DEF ReadOutput, At
      <4> QED
        BY <1>0, <4>1 DEF OrderInv, ConsumerIdle
    <3> QED
      BY <1>6, <3>1, <3>2, <3>3, <3>4
  <2> QED
    BY <1>2, <2>1, <2>2, <2>3, <2>4
<1>7. CASE InTimeOut \/ WaitReadyTimeOut \/ CallFails \/ ReleaseTensors
  <2>1. UNCHANGED <<queue, it>> /\ pc' \in {"release", "done"}
    BY <1>7 DEF InTimeOut, WaitReadyTimeOut, GiveUp, CallFails, ReleaseTensors, Go
  <2>2. Done \subseteq Done'
    BY <2>1 DEF Done
  <2> QED
    BY <1>2, <2>1, <2>2
<1>8. CASE Check
  <2>1. UNCHANGED <<queue, released>> /\ pc = "check"
        /\ \/ pc' = "gen" /\ it' = it + 1
           \/ pc' = "release" /\ it' = it
    BY <1>8 DEF Check, NextIteration, At, tokenVars
  <2>2. ReadyHeld'
    BY <2>1 DEF ReadyHeld
  <2>3. ConsumerIdle'
    BY <1>0, <2>1 DEF OrderInv, ConsumerIdle, Idle
  <2>4. ReleasedHeld'
    <3>1. \A q \in Apis : On(q)' = On(q)
      BY <2>1 DEF On
    <3>2. SUFFICES ASSUME cell.src \in {"gl", "vk", "dmabuf"}, NEW q \in Apis, NEW i \in On(q),
                          i.id.stage = "in", pc' = "gen"
                   PROVE  Holds(released[Src], InId(it - 1))'
      BY <1>0, <2>1, <3>1 DEF ReleasedHeld
    <3>3. cell.ep = "webgpu" /\ q = "wgpu" /\ ~Idle("wgpu")
      BY <1>0, <1>1, <3>2, OnJobs DEF Right
    <3>4. cell.dst \notin {"cpu", "wgpu"}
      BY <1>0, <2>1, <3>3 DEF OrderInv, ConsumerIdle
    <3>5. "wgpu" \in fenced
      BY <1>0, <3>3, <3>4 DEF FencesWork, CellGiven
    <3>6. Holds(released[Src], InId(it))
      BY <1>0, <2>1, <3>2, <3>5 DEF OrderInv, ReleasedHeld
    <3>7. it' - 1 = it
      BY <1>0, <2>1, <3>2
    <3> QED
      BY <2>1, <3>6, <3>7 DEF Holds, Signaled, InFlight, InId
  <2>5. it' = it + 1 \/ (it' = it /\ Done \subseteq Done')
    BY <2>1 DEF Done
  <2> QED
    BY <1>0, <2>1, <2>2, <2>3, <2>4, <2>5, OrderKept
<1> QED
  BY <1>3, <1>4, <1>5, <1>6, <1>7, <1>8 DEF Host, Calls, Gen, OutputEdge

\* Every call of the host keeps the order.
LEMMA OrderHost == ASSUME FencesWork, HostWaits, CellInv, Host PROVE OrderInv'
BY OrderGenForeign, OrderInput, OrderWgpu, OrderOutput, OrderOthers

------------------------------------------------------------------------------
(* A job runs *)

\* A fence that jobs of its own stage still come before is not the one that signals.
LEMMA StillHeld ==
  ASSUME TypeOK, OrderInv, NEW q \in Apis, GpuRuns(q), NEW f, NEW id \in Ids, Holds(f, id),
         NEW p \in Apis, NEW a \in On(p)', a.id.stage = id.stage, id.stage \in {"gen", "in"},
         a.id.it <= id.it
  PROVE  Holds(f, id)'
<1>1. PICK r \in Apis : \E k \in On(r) : k.id = f
  BY SignaledOn DEF Holds
<1>2. PICK k \in On(r) : k.id = id /\ k.id = f
  BY <1>1 DEF Holds
<1>3. /\ Head(queue[q]) \in On(q)
      /\ On(q) = On(q)' \cup {Head(queue[q])}
      /\ \A j \in On(q)' : Follows(Head(queue[q]).id, j.id)
      /\ \A s \in Apis : s # q => On(s)' = On(s)
  BY Leaves DEF OrderInv
<1>4. \A s \in Apis : \A j \in On(s) : j \in Jobs /\ Right(s, j)
  BY OnJobs DEF OrderInv, JobsRight
<1>5. k \in On(r)'
  <2>1. CASE r # q
    BY <1>2, <1>3, <2>1
  <2>2. CASE r = q /\ k # Head(queue[q])
    BY <1>2, <1>3, <2>2
  <2>3. CASE r = q /\ k = Head(queue[q])
    <3>1. a \in On(p) /\ Right(p, a) /\ a \in Jobs
      BY <1>3, <1>4
    <3>2. Right(q, k)
      BY <1>2, <1>4, <2>3
    <3>3. p = q
      BY <1>2, <3>1, <3>2 DEF Right
    <3>4. Follows(k.id, a.id)
      BY <1>3, <2>3, <3>3
    <3>5. id.it \in Nat /\ a.id.it \in Nat
      BY <3>1 DEF Ids, Jobs
    <3>6. id.it < a.id.it
      BY <1>2, <3>4, <3>5, Ranks DEF Follows, Earlier
    <3> QED
      BY <3>5, <3>6
  <2> QED
    BY <2>1, <2>2, <2>3
<1>6. ~Signaled(f)'
  <2>1. \E k1 \in InFlight' : k1.id = f
    BY <1>2, <1>5 DEF InFlight, On
  <2> QED
    BY <2>1 DEF Signaled
<1> QED
  BY <1>6 DEF Holds

\* A job that runs was the oldest of its queue, and its fence had been waited for.
LEMMA OrderGpu ==
  ASSUME TypeOK, OrderInv, NEW q \in Apis, GpuRuns(q)
  PROVE  OrderInv'
<1>0. UNCHANGED <<cell, fenced, pc, it, o, ready, released>> /\ it \in Nat \ {0}
  BY DEF GpuRuns, hostVars, tokenVars, TypeOK
<1>1. /\ On(q) = On(q)' \cup {Head(queue[q])}
      /\ \A s \in Apis : s # q => On(s)' = On(s)
      /\ Sorted'
  BY Leaves DEF OrderInv
<1>2. \A p \in Apis : On(p)' \subseteq On(p)
  BY <1>1
<1>3. \A p \in Apis : \A j \in On(p)' : /\ j \in On(p) /\ j.id \in Ids /\ j.id.it \in Nat
                                        /\ Right(p, j) /\ Started(j.id)
  BY <1>2, OnJobs DEF OrderInv, JobsRight, Jobs, Ids
<1>4. JobsRight'
  <2>1. \A a : Started(a)' <=> Started(a)
    BY <1>0 DEF Started, Done
  <2> QED
    BY <1>0, <1>3, <2>1, CellKept DEF JobsRight
<1>5. \A n \in Nat : GenId(n) \in Ids /\ InId(n) \in Ids
                     /\ GenId(n).it = n /\ InId(n).it = n
                     /\ GenId(n).stage = "gen" /\ InId(n).stage = "in"
  BY DEF GenId, InId, Ids
<1>6. InTurn'
  <2>1. ASSUME NEW p \in Apis, NEW r \in Apis, NEW g \in On(p)', NEW i \in On(r)',
               g.id.stage = "gen", i.id.stage = "in"
        PROVE  /\ g.id.it <= i.id.it => Holds(i.wait, GenId(i.id.it))'
               /\ i.id.it < g.id.it => Holds(g.wait, InId(g.id.it - 1))'
    <3>1. g \in On(p) /\ i \in On(r) /\ g.id.it \in Nat /\ i.id.it \in Nat
      BY <1>3
    <3>2. ASSUME g.id.it <= i.id.it PROVE Holds(i.wait, GenId(i.id.it))'
      <4>1. Holds(i.wait, GenId(i.id.it))
        BY <2>1, <3>1, <3>2 DEF OrderInv, InTurn
      <4> QED
        BY <1>5, <2>1, <3>1, <3>2, <4>1, StillHeld
    <3>3. ASSUME i.id.it < g.id.it PROVE Holds(g.wait, InId(g.id.it - 1))'
      <4>1. Holds(g.wait, InId(g.id.it - 1))
        BY <2>1, <3>1, <3>3 DEF OrderInv, InTurn
      <4>2. g.id.it - 1 \in Nat /\ i.id.it <= g.id.it - 1
        BY <3>1, <3>3
      <4> QED
        BY <1>5, <2>1, <4>1, <4>2, StillHeld
    <3> QED
      BY <3>2, <3>3
  <2> QED
    BY <2>1 DEF InTurn, GenId, InId
<1>7. ReadyHeld'
  <2>1. SUFFICES ASSUME pc = "in", cell.src \in {"gl", "vk"}, NEW p \in Apis, NEW g \in On(p)',
                        g.id.stage = "gen"
                 PROVE  Holds(ready[Src], GenId(it))'
    BY <1>0 DEF ReadyHeld
  <2>2. Holds(ready[Src], GenId(it))
    BY <1>3, <2>1 DEF OrderInv, ReadyHeld
  <2>3. g.id.it <= it
    BY <1>0, <1>3 DEF Started
  <2>4. Holds(ready[Src], GenId(it))'
    <3>1. Holds(ready[Src], GenId(it)) => ready[Src] = GenId(it)
      BY DEF Holds
    <3>2. ~Signaled(GenId(it))'
      <4>1. Holds(GenId(it), GenId(it))
        BY <2>2, <3>1 DEF Holds
      <4>2. Holds(GenId(it), GenId(it))'
        BY <1>0, <1>5, <2>1, <2>3, <4>1, StillHeld
      <4> QED
        BY <4>2 DEF Holds
    <3> QED
      BY <1>0, <2>2, <3>1, <3>2 DEF Holds, GenId, Signaled
  <2> QED
    BY <2>4
<1>8. ReleasedHeld'
  <2>1. SUFFICES ASSUME cell.src \in {"gl", "vk", "dmabuf"}, NEW p \in Apis, NEW i \in On(p)',
                        i.id.stage = "in", NEW n \in Nat, i.id.it <= n,
                        Holds(released[Src], InId(n))
                 PROVE  Holds(released[Src], InId(n))'
    BY <1>0, <1>3 DEF ReleasedHeld, OrderInv, Started, Done
  <2>2. released[Src] = InId(n) /\ Holds(InId(n), InId(n))
    BY <2>1 DEF Holds
  <2>3. Holds(InId(n), InId(n))'
    BY <1>5, <2>1, <2>2, StillHeld
  <2> QED
    BY <1>0, <2>2, <2>3 DEF Holds, InId, Signaled
<1>9. ConsumerIdle'
  <2>1. Idle("wgpu") => Idle("wgpu")'
    BY DEF GpuRuns, MayRun, Idle, TypeOK
  <2> QED
    BY <1>0, <2>1 DEF OrderInv, ConsumerIdle
<1> QED
  BY <1>1, <1>4, <1>6, <1>7, <1>8, <1>9 DEF OrderInv

------------------------------------------------------------------------------
(* What the jobs in flight leave in memory *)

\* Neither memory nor queues change.
LEMMA DueUnchanged ==
  ASSUME UNCHANGED <<cell, queue>>, NEW m, NEW n, mem'[m] = mem[m], Due(m, n)
  PROVE  Due(m, n)'
BY CellKept DEF Due, On

\* The host writes memory that no job in flight writes.
LEMMA DueWritten ==
  ASSUME UNCHANGED <<cell, queue>>, NEW m, NEW n, mem'[m] = n, Settled(m)
  PROVE  Due(m, n)'
BY CellKept DEF Due, On, Settled

\* A submitted job comes after what is due, or writes what is due of its own input.
LEMMA DueSubmitted ==
  ASSUME TypeOK, UNCHANGED <<cell, mem>>, NEW q \in Apis, NEW j, Submitted(q, j),
         NEW m, NEW n \in Nat, j.id.it \in Nat, n <= j.id.it,
         Due(m, n) \/ (m \in Writes(j) /\ n = j.id.it)
  PROVE  Due(m, n)'
<1>1. /\ On(q)' = On(q) \cup {j}
      /\ \A p \in Apis : p # q => On(p)' = On(p)
  BY Submits
<1>2. \A a : Writes(a)' = Writes(a)
  BY CellKept
<1>3. CASE m \in Writes(j) /\ n = j.id.it
  <2>1. j \in On(q)' /\ m \in Writes(j)' /\ j.id.it = n
    BY <1>1, <1>2, <1>3
  <2> QED
    BY <2>1 DEF Due
<1>4. CASE \E p \in Apis : \E a \in On(p) : m \in Writes(a) /\ a.id.it = n
  <2>1. PICK p \in Apis : \E a \in On(p) : m \in Writes(a) /\ a.id.it = n
    BY <1>4
  <2>2. PICK a \in On(p) : m \in Writes(a) /\ a.id.it = n
    BY <2>1
  <2>3. a \in On(p)' /\ m \in Writes(a)' /\ a.id.it = n
    BY <1>1, <1>2, <2>2
  <2> QED
    BY <2>3 DEF Due
<1>5. CASE /\ mem[m] = n /\ \A p \in Apis : \A a \in On(p) : m \in Writes(a) => a.id.it > n
           /\ ~(m \in Writes(j) /\ n = j.id.it)
  <2>1. ASSUME NEW p \in Apis, NEW a \in On(p)', m \in Writes(a)' PROVE a.id.it > n
    <3>1. CASE a \in On(p)
      BY <1>2, <1>5, <2>1, <3>1
    <3>2. CASE a = j
      BY <1>2, <1>5, <2>1, <3>2
    <3> QED
      BY <1>1, <2>1, <3>1, <3>2
  <2> QED
    BY <1>5, <2>1 DEF Due
<1> QED
  BY <1>3, <1>4, <1>5 DEF Due

\* The writers of one memory are jobs of one queue.
LEMMA SameQueue ==
  ASSUME TypeOK, NEW p \in Apis, NEW q \in Apis, NEW a \in Jobs, NEW b \in Jobs,
         Right(p, a), Right(q, b), NEW m, m \in Writes(a), m \in Writes(b)
  PROVE  p = q
<1>1. cell.ep \in {"cpu", "webgpu"}
  BY Ways
<1>2. a.id.stage = b.id.stage \/ (p = "wgpu" /\ q = "wgpu")
  <2>1. CASE m = Src \/ m = In \/ \E i \in Outs : m = Out(i)
    BY <2>1, WrittenBy, Distinct
  <2>2. CASE ~(m = Src \/ m = In \/ \E i \in Outs : m = Out(i))
    <3>1. /\ a.id.stage = "out" \/ (a.id.stage = "run" /\ cell.dst = "wgpu")
          /\ b.id.stage = "out" \/ (b.id.stage = "run" /\ cell.dst = "wgpu")
      BY <2>2, WrittenBy
    <3> QED
      BY <3>1 DEF Right
  <2> QED
    BY <2>1, <2>2
<1>3. a.id.stage \in {"gen", "in", "run", "out"}
  BY DEF Jobs, Ids
<1> QED
  BY <1>1, <1>2, <1>3 DEF Right

\* What a job that may run writes is its input's result.
LEMMA ContentsRight ==
  ASSUME TypeOK, OrderInv, ReadersDue, NEW q \in Apis, MayRun(q)
  PROVE  Contents(Head(queue[q])) = Head(queue[q]).id.it
<1> DEFINE h == Head(queue[q])
<1>1. h \in On(q)
  <2>1. queue[q] \in Seq(Jobs) /\ queue[q] # <<>>
    BY DEF TypeOK, MayRun
  <2>2. h = queue[q][1] /\ 1 \in 1 .. Len(queue[q])
    BY <2>1
  <2> QED
    BY <2>2 DEF On
<1>2. NoOverrun
  BY OrderMeansNoOverrun
<1>3. \A j \in InFlight : Earlier(j.id, h.id) => ~Conflict(j, h)
  BY <1>2 DEF NoOverrun
<1> HIDE DEF h
<1>4. \A p \in Apis : \A j \in On(p) : j \in Jobs /\ Right(p, j)
  BY OnJobs DEF OrderInv, JobsRight
<1>5. h \in Jobs /\ Right(q, h) /\ h.id.stage \in {"gen", "in", "run", "out"}
  BY <1>1, <1>4 DEF Jobs, Ids
<1>6. CASE h.data # FromMemory
  BY <1>5, <1>6 DEF Contents, Right, h
<1>7. CASE h.data = FromMemory
  <2>1. h.id.stage # "gen"
    <3>1. h.id.it # FromMemory
      BY <1>5 DEF Right, FromMemory, Jobs, Ids
    <3> QED
      BY <1>5, <1>7, <3>1 DEF Right
  <2>2. \E m : Reads(h) = {m}
    BY <1>5, <1>7, <2>1 DEF Reads
  <2>3. PICK m : Reads(h) = {m}
    BY <2>2
  <2>4. Due(m, h.id.it)
    BY <1>1, <2>3 DEF ReadersDue
  <2>5. ASSUME NEW p \in Apis, NEW j \in On(p), m \in Writes(j), j.id.it = h.id.it PROVE FALSE
    <3>1. Rank(j.id.stage) < Rank(h.id.stage)
      <4>1. /\ \/ m = Src /\ h.id.stage = "in"
               \/ m = EngineIn /\ h.id.stage = "run"
               \/ (\E i \in Outs : m = Out(i)) /\ h.id.stage = "out"
        BY <1>5, <2>3, ReadBy
      <4>2. EngineIn \in {Src, In}
        BY DEF EngineIn
      <4>3. j \in Jobs /\ Right(p, j)
        BY <1>4, <2>5
      <4>4. \/ h.id.stage = "in" /\ j.id.stage = "gen"
            \/ h.id.stage = "run" /\ j.id.stage \in {"gen", "in"}
            \/ h.id.stage = "out" /\ j.id.stage = "run"
        BY <2>5, <4>1, <4>2, <4>3, WrittenBy, Distinct
      <4> QED
        BY <4>4, Ranks
    <3>2. Earlier(j.id, h.id)
      BY <2>5, <3>1 DEF Earlier
    <3>3. Conflict(j, h)
      BY <2>3, <2>5 DEF Conflict
    <3>4. j \in InFlight
      BY <2>5 DEF InFlight, On
    <3> QED
      BY <1>3, <3>2, <3>3, <3>4
  <2>6. mem[m] = h.id.it
    BY <2>4, <2>5 DEF Due
  <2>7. (CHOOSE x \in Reads(h) : TRUE) = m
    BY <2>3
  <2> QED
    BY <1>7, <2>6, <2>7 DEF Contents, h
<1> QED
  BY <1>6, <1>7

\* A job that runs brings what is due, or leaves it alone.
LEMMA DueGpu ==
  ASSUME TypeOK, OrderInv, ReadersDue, NEW q \in Apis, GpuRuns(q), NEW m \in Memory, NEW n \in Nat,
         Due(m, n), m \in Writes(Head(queue[q])) => Head(queue[q]).id.it <= n
  PROVE  Due(m, n)'
<1> DEFINE h == Head(queue[q])
<1>1. /\ h \in On(q)
      /\ On(q) = On(q)' \cup {h}
      /\ \A j \in On(q)' : Follows(h.id, j.id)
      /\ \A p \in Apis : p # q => On(p)' = On(p)
  BY Leaves DEF OrderInv
<1>2. UNCHANGED cell /\ Contents(h) = h.id.it
  BY ContentsRight DEF GpuRuns
<1>3. mem'[m] = IF m \in Writes(h) THEN h.id.it ELSE mem[m]
  BY <1>2 DEF GpuRuns
<1> HIDE DEF h
<1>4. \A a : Writes(a)' = Writes(a)
  BY <1>2, CellKept
<1>5. \A p \in Apis : \A j \in On(p) : j \in Jobs /\ Right(p, j) /\ j.id \in Ids /\ j.id.it \in Nat
  BY OnJobs DEF OrderInv, JobsRight, Jobs, Ids
<1>6. CASE m \notin Writes(h)
  <2>1. CASE \E p \in Apis : \E a \in On(p) : m \in Writes(a) /\ a.id.it = n
    <3>1. PICK p \in Apis : \E a \in On(p) : m \in Writes(a) /\ a.id.it = n
      BY <2>1
    <3>2. PICK a \in On(p) : m \in Writes(a) /\ a.id.it = n
      BY <3>1
    <3>3. a \in On(p)' /\ m \in Writes(a)'
      BY <1>1, <1>4, <1>6, <3>2
    <3> QED
      BY <3>2, <3>3 DEF Due
  <2>2. CASE mem[m] = n /\ \A p \in Apis : \A a \in On(p) : m \in Writes(a) => a.id.it > n
    <3>1. mem'[m] = n
      BY <1>3, <1>6, <2>2
    <3>2. \A p \in Apis : \A a \in On(p)' : m \in Writes(a)' => a.id.it > n
      BY <1>1, <1>4, <2>2
    <3> QED
      BY <3>1, <3>2 DEF Due
  <2> QED
    BY <2>1, <2>2 DEF Due
<1>7. CASE m \in Writes(h)
  <2>1. ASSUME NEW p \in Apis, NEW a \in On(p)', m \in Writes(a)
        PROVE  a.id.it \in Nat /\ h.id.it <= a.id.it /\ p = q
    <3>1. a \in On(p)
      BY <1>1, <2>1
    <3>2. p = q
      BY <1>1, <1>5, <1>7, <2>1, <3>1, SameQueue
    <3>3. Follows(h.id, a.id)
      BY <1>1, <2>1, <3>2
    <3> QED
      BY <1>1, <1>5, <3>1, <3>2, <3>3 DEF Follows, Earlier
  <2>2. h.id.it \in Nat /\ h.id.it <= n
    BY <1>1, <1>5, <1>7 DEF h
  <2>3. h.id.it = n \/ \E p \in Apis : \E a \in On(p) : m \in Writes(a) /\ a.id.it = n
    BY <1>1, <1>7, <2>2 DEF Due
  <2>4. CASE \E p \in Apis : \E a \in On(p)' : m \in Writes(a) /\ a.id.it = n
    BY <1>4, <2>4 DEF Due
  <2>5. CASE ~\E p \in Apis : \E a \in On(p)' : m \in Writes(a) /\ a.id.it = n
    <3>1. h.id.it = n
      BY <1>1, <2>3, <2>5
    <3>2. mem'[m] = n
      BY <1>3, <1>7, <3>1
    <3>3. \A p \in Apis : \A a \in On(p)' : m \in Writes(a)' => a.id.it > n
      BY <1>4, <2>1, <2>5, <3>1
    <3> QED
      BY <3>2, <3>3 DEF Due
  <2> QED
    BY <2>4, <2>5
<1> QED
  BY <1>6, <1>7

------------------------------------------------------------------------------
(* A job runs: the data *)

\* Every memory a job uses is memory of the cell.
LEMMA UsesMemory ==
  ASSUME TypeOK, NEW q, NEW j \in Jobs, Right(q, j)
  PROVE  Reads(j) \subseteq Memory
BY MemoryParts, ReadBy

\* A job that runs writes what is due.
LEMMA DataGpu ==
  ASSUME TypeOK, OrderInv, DataInv, NEW q \in Apis, GpuRuns(q)
  PROVE  DataInv'
<1> DEFINE h == Head(queue[q])
<1>0. /\ UNCHANGED <<cell, fenced, pc, it, o, ready, released, seen, prev, exact>>
      /\ it \in Nat \ {0} /\ MayRun(q)
  BY DEF GpuRuns, hostVars, tokenVars, checkVars, TypeOK
<1>1. /\ h \in On(q)
      /\ On(q) = On(q)' \cup {h}
      /\ \A j \in On(q)' : Follows(h.id, j.id)
      /\ \A p \in Apis : p # q => On(p)' = On(p)
  BY Leaves DEF OrderInv
<1>2. \A p \in Apis : \A j \in On(p) : /\ j \in Jobs /\ Right(p, j) /\ Started(j.id)
                                       /\ j.id \in Ids /\ j.id.it \in Nat
  BY OnJobs DEF OrderInv, JobsRight, Jobs, Ids
<1>3. \A m \in Memory : \A n \in Nat : Due(m, n) /\ (m \in Writes(h) => h.id.it <= n) => Due(m, n)'
  BY DueGpu DEF DataInv
<1>4. ReadersDue'
  <2>1. ASSUME NEW p \in Apis, NEW j \in On(p)', NEW m \in Reads(j) PROVE Due(m, j.id.it)'
    <3>1. j \in On(p) /\ m \in Memory
      BY <1>1, <1>2, <2>1, UsesMemory
    <3>2. Due(m, j.id.it)
      BY <2>1, <3>1 DEF DataInv, ReadersDue
    <3>3. ASSUME m \in Writes(h) PROVE h.id.it <= j.id.it
      <4>1. NoOverrun
        BY OrderMeansNoOverrun
      <4>2. j \in InFlight
        BY <3>1 DEF InFlight, On
      <4>3. Earlier(j.id, h.id) => ~Conflict(j, h)
        BY <1>0, <4>1, <4>2 DEF NoOverrun
      <4>4. Conflict(j, h)
        BY <2>1, <3>3 DEF Conflict
      <4> QED
        BY <1>1, <1>2, <3>1, <4>3, <4>4 DEF Earlier
    <3> QED
      BY <1>2, <1>3, <3>1, <3>2, <3>3
  <2>2. \A j : Reads(j)' = Reads(j)
    BY <1>0, CellKept
  <2> QED
    BY <2>1, <2>2 DEF ReadersDue
<1>5. HostDue'
  <2>1. h.id.it <= it /\ it \in Nat /\ h.id.it \in Nat
    BY <1>0, <1>1, <1>2 DEF Started
  <2>2. \A m \in Memory : Due(m, it) => Due(m, it)'
    <3>1. \A m \in Memory : Due(m, it) /\ (m \in Writes(h) => h.id.it <= it) => Due(m, it)'
      BY <1>0, DueGpu DEF DataInv, Due
    <3> QED
      BY <2>1, <3>1
  <2>3. /\ EngineIn' = EngineIn /\ \A i : EngineOut(i)' = EngineOut(i)
    BY <1>0, CellKept
  <2>4. /\ Src \in Memory /\ EngineIn \in Memory
        /\ \A i \in Outs : EngineOut(i) \in Memory /\ Dst(i) \in Memory
    BY MemoryParts
  <2> QED
    BY <1>0, <2>2, <2>3, <2>4 DEF DataInv, HostDue, Delivered, Due
<1>6. Awaited'
  <2>1. SUFFICES ASSUME cell.dst \in {"gl", "vk", "dmabuf"}, NEW i \in Outs, Delivered(i),
                        NEW p \in Apis, NEW j \in On(p)', j.id.stage = "out", j.id.o = i
                 PROVE  Holds(ready[Dst(i)], OutId(i, it))'
    BY <1>0 DEF Awaited, Delivered
  <2>2. j \in On(p) /\ Right(p, j) /\ j.id \in Ids /\ j.id.it \in Nat /\ j \in Jobs
    BY <1>1, <1>2
  <2>3. Holds(ready[Dst(i)], OutId(i, it))
    BY <2>1, <2>2 DEF DataInv, Awaited
  <2>4. \E r \in Apis : \E k \in On(r)' : k.id = OutId(i, it)
    <3>1. \E r \in Apis : \E k \in On(r) : k.id = OutId(i, it)
      BY <2>3, SignaledOn DEF Holds
    <3>2. PICK r \in Apis : \E k \in On(r) : k.id = OutId(i, it)
      BY <3>1
    <3>3. PICK k \in On(r) : k.id = OutId(i, it)
      BY <3>2
    <3>4. k \in On(r)' \/ (r = q /\ k = h)
      BY <1>1, <3>3
    <3>5. CASE k \in On(r)'
      BY <3>3, <3>5
    <3>6. CASE r = q /\ k = h
      <4>1. h.id.stage = "out" /\ h.id.it = it /\ Right(q, h) /\ h.id.o = i
        BY <1>1, <1>2, <3>3, <3>6 DEF OutId
      <4>2. p = q
        BY <2>1, <2>2, <4>1 DEF Right
      <4>3. Follows(h.id, j.id) /\ Started(j.id)
        BY <1>1, <1>2, <2>1, <2>2, <4>2
      <4>4. j.id.it = it
        BY <1>0, <2>1, <2>2, <4>1, <4>3 DEF Follows, Earlier, Started
      <4>5. j.id = OutId(i, it)
        BY <2>1, <2>2, <4>4 DEF OutId, Ids
      <4> QED
        BY <4>5
    <3> QED
      BY <3>4, <3>5, <3>6
  <2>5. ~Signaled(OutId(i, it))'
    <3>1. \E k \in InFlight' : k.id = OutId(i, it)
      BY <2>4 DEF InFlight, On
    <3> QED
      BY <1>0, <3>1 DEF Signaled, OutId
  <2> QED
    BY <1>0, <2>3, <2>5 DEF Holds, OutId, Signaled
<1>7. Checked'
  BY <1>0 DEF DataInv, Checked
<1> QED
  BY <1>4, <1>5, <1>6, <1>7 DEF DataInv

------------------------------------------------------------------------------
(* The host's calls: the data *)

\* The host changes no memory that a job in flight reads.
LEMMA ReadersKept ==
  ASSUME UNCHANGED <<cell, queue>>, ReadersDue,
         \A q \in Apis : \A j \in On(q) : \A m \in Reads(j) : mem'[m] = mem[m]
  PROVE  ReadersDue'
<1>1. \A q \in Apis : On(q)' = On(q)
  BY DEF On
<1>2. \A j : Reads(j)' = Reads(j)
  BY CellKept
<1>3. ASSUME NEW q \in Apis, NEW j \in On(q), NEW m \in Reads(j) PROVE Due(m, j.id.it)'
  <2>1. Due(m, j.id.it) /\ mem'[m] = mem[m]
    BY <1>3 DEF ReadersDue
  <2> QED
    BY <2>1, DueUnchanged
<1> QED
  BY <1>1, <1>2, <1>3 DEF ReadersDue

\* A submitted reader finds what is due now.
LEMMA ReadersSubmitted ==
  ASSUME TypeOK, OrderInv, ReadersDue, UNCHANGED <<cell, mem>>, NEW q \in Apis, NEW j \in Jobs,
         Submitted(q, j), j.id.it = it, \A m \in Reads(j) : Due(m, it)
  PROVE  ReadersDue'
<1>1. /\ On(q)' = On(q) \cup {j}
      /\ \A p \in Apis : p # q => On(p)' = On(p)
  BY Submits
<1>2. \A a : Reads(a)' = Reads(a)
  BY CellKept
<1>3. it \in Nat /\ \A p \in Apis : \A a \in On(p) : a.id.it \in Nat /\ a.id.it <= it
  <2>1. it \in Nat
    BY DEF TypeOK
  <2>2. ASSUME NEW p \in Apis, NEW a \in On(p) PROVE a.id.it \in Nat /\ a.id.it <= it
    <3>1. a \in Jobs /\ Started(a.id)
      BY <2>2, OnJobs DEF OrderInv, JobsRight
    <3>2. a.id.it \in Nat
      BY <3>1 DEF Jobs, Ids
    <3> QED
      BY <2>1, <3>1, <3>2 DEF Started
  <2> QED
    BY <2>1, <2>2
<1>4. ASSUME NEW p \in Apis, NEW a \in On(p)', NEW m \in Reads(a) PROVE Due(m, a.id.it)'
  <2>1. a.id.it \in Nat /\ a.id.it <= j.id.it /\ Due(m, a.id.it)
    BY <1>1, <1>3, <1>4 DEF ReadersDue
  <2> QED
    BY <1>3, <2>1, DueSubmitted
<1> QED
  BY <1>2, <1>4 DEF ReadersDue

\* The jobs of the submitting calls.
LEMMA SubmittedJobs ==
  ASSUME CellInv
  PROVE  /\ GenWgpu \/ GenGl \/ GenVk =>
              \E q \in Apis, j \in Jobs : Submitted(q, j) /\ j.id = GenId(it) /\ Reads(j) = {}
         /\ InWrite \/ InImport =>
              \E q \in Apis, j \in Jobs : Submitted(q, j) /\ j.id = InId(it) /\ Reads(j) \subseteq {Src}
         /\ RunWebgpu =>
              \E q \in Apis, j \in Jobs : /\ Submitted(q, j) /\ j.id.stage = "run" /\ j.id.it = it
                                          /\ Reads(j) = {EngineIn}
         /\ OutWrite \/ OutImport \/ OutUploadGl =>
              \E q \in Apis, j \in Jobs : /\ Submitted(q, j) /\ j.id = OutId(o, it)
                                          /\ Reads(j) \subseteq {Out(o)}
<1>0. /\ TypeOK /\ it \in Nat \ {0} /\ o \in Nat /\ 0 \in Nat /\ NoFd \in Files
      /\ mem \in [Memory -> Nat] /\ FromMemory = 0 /\ Apis = {"gl", "vk", "wgpu"}
      /\ ready[Src] \in Files /\ released[Src] \in Files /\ released[Dst(o)] \in Files
      /\ mem[Src] \in Nat /\ mem[Out(o)] \in Nat
  BY MemoryParts DEF CellInv, TypeInv, TypeOK, Outs
<1>1. ASSUME NEW q \in Apis, NEW stage \in {"gen", "in", "run", "out"}, NEW i \in Nat,
             NEW wait \in Files, NEW data \in Nat, Submit(q, Id(stage, i), wait, data)
      PROVE  \E j \in Jobs : /\ Submitted(q, j) /\ j.id = [stage |-> stage, o |-> i, it |-> it]
                             /\ j.data = data
  <2> DEFINE j == [id |-> Id(stage, i), wait |-> wait, data |-> data]
  <2>1. j \in Jobs
    BY <1>0, IdType DEF Jobs
  <2>2. Submitted(q, j)
    BY <1>1 DEF Submit, Submitted
  <2> QED
    BY <2>1, <2>2 DEF Id
<1>2. ASSUME GenWgpu \/ GenGl \/ GenVk
      PROVE  \E q \in Apis, j \in Jobs : Submitted(q, j) /\ j.id = GenId(it) /\ Reads(j) = {}
  <2>1. \E q \in Apis, wait \in Files : Submit(q, Id("gen", 0), wait, it)
    BY <1>0, <1>2 DEF GenWgpu, GenGl, GenVk, Gates
  <2>2. PICK q \in Apis, wait \in Files : Submit(q, Id("gen", 0), wait, it)
    BY <2>1
  <2>3. PICK j \in Jobs : /\ Submitted(q, j) /\ j.id = [stage |-> "gen", o |-> 0, it |-> it]
                          /\ j.data = it
    BY <1>0, <1>1, <2>2
  <2>4. Reads(j) = {}
    BY <1>0, <2>3 DEF Reads
  <2> QED
    BY <2>3, <2>4 DEF GenId
<1>3. ASSUME InWrite \/ InImport
      PROVE  \E q \in Apis, j \in Jobs : Submitted(q, j) /\ j.id = InId(it) /\ Reads(j) \subseteq {Src}
  <2>1. \E wait \in Files, data \in Nat : Submit("wgpu", Id("in", 0), wait, data)
    BY <1>0, <1>3 DEF InWrite, InImport, ImportAccess, Acquired
  <2>2. PICK wait \in Files, data \in Nat : Submit("wgpu", Id("in", 0), wait, data)
    BY <2>1
  <2>3. PICK j \in Jobs : /\ Submitted("wgpu", j) /\ j.id = [stage |-> "in", o |-> 0, it |-> it]
                          /\ j.data = data
    BY <1>0, <1>1, <2>2
  <2>4. Reads(j) \subseteq {Src}
    BY <1>0, <2>3 DEF Reads
  <2> QED
    BY <1>0, <2>3, <2>4 DEF InId
<1>4. ASSUME RunWebgpu
      PROVE  \E q \in Apis, j \in Jobs : /\ Submitted(q, j) /\ j.id.stage = "run" /\ j.id.it = it
                                         /\ Reads(j) = {EngineIn}
  <2>2. Submit("wgpu", Id("run", 0), NoFd, FromMemory)
    BY <1>4 DEF RunWebgpu
  <2>3. PICK j \in Jobs : /\ Submitted("wgpu", j) /\ j.id = [stage |-> "run", o |-> 0, it |-> it]
                          /\ j.data = FromMemory
    BY <1>0, <1>1, <2>2
  <2>4. Reads(j) = {EngineIn}
    BY <1>0, <2>3 DEF Reads
  <2> QED
    BY <1>0, <2>3, <2>4
<1>5. ASSUME OutWrite \/ OutImport \/ OutUploadGl
      PROVE  \E q \in Apis, j \in Jobs : /\ Submitted(q, j) /\ j.id = OutId(o, it)
                                         /\ Reads(j) \subseteq {Out(o)}
  <2>1. \E q \in Apis, wait \in Files, data \in Nat : Submit(q, Id("out", o), wait, data)
    BY <1>0, <1>5 DEF OutWrite, OutImport, OutUploadGl, ImportAccess, Acquired, Gates
  <2>2. PICK q \in Apis, wait \in Files, data \in Nat : Submit(q, Id("out", o), wait, data)
    BY <2>1
  <2>3. PICK j \in Jobs : /\ Submitted(q, j) /\ j.id = [stage |-> "out", o |-> o, it |-> it]
                          /\ j.data = data
    BY <1>0, <1>1, <2>2
  <2>4. Reads(j) \subseteq {Out(o)}
    BY <1>0, <2>3 DEF Reads
  <2> QED
    BY <1>0, <2>3, <2>4 DEF OutId
<1> QED
  BY <1>2, <1>3, <1>4, <1>5

\* What is due stays due when a job of this input is submitted.
LEMMA DueStays ==
  ASSUME CellInv, UNCHANGED <<cell, mem, it>>, NEW q \in Apis, NEW j \in Jobs, Submitted(q, j), j.id.it = it
  PROVE  /\ \A m : Due(m, it) \/ m \in Writes(j) => Due(m, it)'
         /\ (\A m \in Reads(j) : Due(m, it)) => ReadersDue'
         /\ EngineIn' = EngineIn /\ \A i : EngineOut(i)' = EngineOut(i)
<1>1. TypeOK /\ OrderInv /\ ReadersDue /\ it \in Nat
  BY DEF CellInv, TypeInv, TypeOK, DataInv
<1>2. \A m : Due(m, it) \/ m \in Writes(j) => Due(m, it)'
  <2>1. ASSUME NEW m, Due(m, it) \/ m \in Writes(j) PROVE Due(m, it)'
    <3>1. ASSUME NEW n \in Nat, n = j.id.it PROVE Due(m, n)'
      BY <1>1, <2>1, <3>1, DueSubmitted
    <3> QED
      BY <1>1, <3>1
  <2> QED
    BY <2>1
<1> QED
  BY <1>1, <1>2, ReadersSubmitted, CellKept

\* The calls that submit a job.
LEMMA DataSubmitters ==
  ASSUME FencesWork, CellInv,
         \/ GenWgpu \/ GenGl \/ GenVk
         \/ InWrite \/ InImport
         \/ RunWebgpu
         \/ OutWrite \/ OutImport \/ OutUploadGl
  PROVE  DataInv'
<1>0. /\ TypeOK /\ OrderInv /\ DataInv /\ it \in Nat \ {0} /\ o \in Outs /\ o \in Nat
      /\ Outs = 1 .. NOut /\ NOut \in Nat \ {0} /\ \A i \in Outs : i \in Nat
      /\ ready \in [Tensors -> Files] /\ \A i \in Outs : Dst(i) \in Tensors
  BY CellAssumption, MemoryParts DEF CellInv, TypeInv, TypeOK, Outs
<1>1. UNCHANGED <<cell, fenced, it, mem, seen, prev, exact>>
  BY DEF GenWgpu, GenGl, GenVk, InWrite, InImport, RunWebgpu, OutWrite, OutImport, OutUploadGl,
         At, Go, GoOver, SignalReady, checkVars
<1>2. Checked /\ HostDue /\ Awaited
  BY <1>0 DEF DataInv
<1>3. CASE GenWgpu \/ GenGl \/ GenVk
  <2>1. PICK q \in Apis, j \in Jobs : Submitted(q, j) /\ j.id = GenId(it) /\ Reads(j) = {}
    BY <1>3, SubmittedJobs
  <2>2. j.id.it = it /\ Src \in Writes(j)
    BY <2>1 DEF GenId, Writes
  <2>3. pc = "gen" /\ pc' \in {"in", "finish_gen"} /\ o' = o
    BY <1>3 DEF GenWgpu, GenGl, GenVk, At, Go, SignalReady
  <2>4. Due(Src, it)' /\ ReadersDue'
    BY <1>1, <2>1, <2>2, DueStays
  <2>5. HostDue'
    BY <2>3, <2>4 DEF HostDue, Delivered
  <2>6. Awaited' /\ Checked'
    BY <1>1, <1>2, <2>3 DEF Awaited, Delivered, Checked
  <2> QED
    BY <2>4, <2>5, <2>6 DEF DataInv
<1>4. CASE InWrite \/ InImport
  <2>1. PICK q \in Apis, j \in Jobs : /\ Submitted(q, j) /\ j.id = InId(it)
                                      /\ Reads(j) \subseteq {Src}
    BY <1>4, SubmittedJobs
  <2>2. j.id.it = it /\ In \in Writes(j)
    BY <2>1 DEF InId, Writes
  <2>3. pc = "in" /\ pc' = "run" /\ o' = o /\ InEdge \in {"write_buffer", "dmabuf_import"}
    BY <1>4 DEF InWrite, InImport, At, Go
  <2>4. Due(Src, it)
    BY <1>2, <2>3 DEF HostDue
  <2>5. Due(Src, it)' /\ Due(In, it)' /\ ReadersDue' /\ EngineIn' = EngineIn
    BY <1>1, <2>1, <2>2, <2>4, DueStays
  <2>6. EngineIn = In
    BY <2>3 DEF EngineIn, HandOver
  <2>7. HostDue'
    BY <2>3, <2>5, <2>6 DEF HostDue, Delivered, Due
  <2>8. Awaited' /\ Checked'
    BY <1>1, <1>2, <2>3 DEF Awaited, Delivered, Checked
  <2> QED
    BY <2>5, <2>7, <2>8 DEF DataInv
<1>5. CASE RunWebgpu
  <2>1. PICK q \in Apis, j \in Jobs : /\ Submitted(q, j) /\ j.id.stage = "run" /\ j.id.it = it
                                      /\ Reads(j) = {EngineIn}
    BY <1>5, SubmittedJobs
  <2>2. \A i \in Outs : EngineOut(i) \in Writes(j)
    BY <2>1 DEF Writes
  <2>3. /\ pc = "run" /\ o' = o /\ cell.ep = "webgpu"
        /\ \/ pc' = "ready" /\ HandOver(OutEdge)
           \/ pc' = "out"
    BY <1>5 DEF RunWebgpu, At, Go, AfterRun
  <2>4. Due(Src, it) /\ Due(EngineIn, it)
    BY <1>2, <2>3 DEF HostDue
  <2>5. /\ Due(Src, it)' /\ Due(EngineIn, it)' /\ (\A i \in Outs : Due(EngineOut(i), it)')
        /\ ReadersDue' /\ EngineIn' = EngineIn /\ \A i : EngineOut(i)' = EngineOut(i)
    BY <1>1, <2>1, <2>2, <2>4, DueStays
  <2>6. o = 1
    BY <1>2, <2>3 DEF Checked
  <2>7. \A i \in Outs : Delivered(i)' => EngineOut(i) = Dst(i) /\ cell.dst = "wgpu"
    BY <1>0, <2>3, <2>6, Ways DEF Delivered, EngineOut
  <2>8. HostDue'
    <3>1. \A i \in Outs : (Delivered(i) \/ (pc = "finish_out" /\ i = o))' => Due(Dst(i), it)'
      BY <2>3, <2>5, <2>7 DEF Due
    <3> QED
      BY <2>3, <2>5, <3>1 DEF HostDue, Due
  <2>9. Awaited' /\ Checked'
    BY <1>0, <1>1, <1>2, <2>3, <2>6, <2>7 DEF Awaited, Checked
  <2> QED
    BY <2>5, <2>8, <2>9 DEF DataInv
<1>6. CASE OutWrite \/ OutImport \/ OutUploadGl
  <2>1. PICK q \in Apis, j \in Jobs : /\ Submitted(q, j) /\ j.id = OutId(o, it)
                                      /\ Reads(j) \subseteq {Out(o)}
    BY <1>6, SubmittedJobs
  <2>2. j.id.it = it /\ Dst(o) \in Writes(j) /\ j.id.o = o
    BY <2>1 DEF OutId, Writes
  <2>3. /\ pc = "out" /\ ~HandOver(OutEdge)
        /\ \/ o' = o /\ pc' = "finish_out" /\ "gl" \notin fenced /\ OutUploadGl
           \/ o < NOut /\ o' = o + 1 /\ pc' = "out" /\ (OutUploadGl => "gl" \in fenced)
           \/ o = NOut /\ o' = 1 /\ pc' = "ready" /\ (OutUploadGl => "gl" \in fenced)
    BY <1>0, <1>6 DEF OutWrite, OutImport, OutUploadGl, At, Go, GoOver, SignalReady, HandOver
  <2>4. /\ Due(Src, it) /\ Due(EngineIn, it) /\ (\A i \in Outs : Due(EngineOut(i), it))
        /\ \A i \in Outs : i < o => Due(Dst(i), it)
    BY <1>2, <2>3 DEF HostDue, Delivered
  <2>5. EngineOut(o) = Out(o)
    BY <2>3 DEF EngineOut
  <2>6. /\ Due(Src, it)' /\ Due(EngineIn, it)' /\ (\A i \in Outs : Due(EngineOut(i), it)')
        /\ (\A i \in Outs : i < o \/ i = o => Due(Dst(i), it)')
        /\ ReadersDue' /\ EngineIn' = EngineIn /\ \A i : EngineOut(i)' = EngineOut(i)
    <3>1. (\A m : Due(m, it) \/ m \in Writes(j) => Due(m, it)')
          /\ EngineIn' = EngineIn /\ \A i : EngineOut(i)' = EngineOut(i)
      BY <1>1, <2>1, <2>2, DueStays
    <3>2. ReadersDue'
      BY <1>0, <1>1, <2>1, <2>2, <2>4, <2>5, DueStays
    <3> QED
      BY <2>2, <2>4, <3>1, <3>2
  <2>7. \A i \in Outs : (Delivered(i) \/ (pc = "finish_out" /\ i = o))' => i < o \/ i = o
    BY <1>0, <2>3 DEF Delivered
  <2>8. HostDue'
    BY <2>3, <2>6, <2>7 DEF HostDue, Due
  <2>9. Checked'
    BY <1>0, <1>1, <1>2, <2>3 DEF Checked
  <2>10. Awaited'
    <3>1. SUFFICES ASSUME cell.dst \in {"gl", "vk", "dmabuf"}, NEW i \in Outs, Delivered(i)',
                          NEW p \in Apis, NEW a \in On(p)', a.id.stage = "out", a.id.o = i
                   PROVE  Holds(ready[Dst(i)], OutId(i, it))'
      BY <1>1 DEF Awaited
    <3>2. On(q)' = On(q) \cup {j} /\ \A r \in Apis : r # q => On(r)' = On(r)
      BY <1>0, <2>1, Submits
    <3>3. CASE i = o
      <4>1. pc' # "finish_out"
        BY <1>0, <2>3, <3>1, <3>3 DEF Delivered
      <4>2. ready' = [ready EXCEPT ![Dst(o)] = OutId(o, it)]
        <5>1. CASE OutWrite
          BY <1>0, <3>1, <5>1, Ways DEF OutWrite
        <5>2. CASE OutImport
          <6>1. cell.ep = "webgpu"
            BY <1>0, <5>2, Ways DEF OutImport
          <6>2. "wgpu" \in fenced
            BY <3>1, <6>1 DEF FencesWork, CellGiven, CellInv
          <6> QED
            BY <5>2, <6>2 DEF OutImport, ImportAccess, FencesWork, SetReady, Id, OutId
        <5>3. CASE OutUploadGl
          BY <2>3, <4>1, <5>3 DEF OutUploadGl, SignalReady, FencesWork, SetReady, Id, OutId
        <5> QED
          BY <1>6, <5>1, <5>2, <5>3
      <4>3. ready'[Dst(i)] = OutId(i, it)
        BY <1>0, <3>3, <4>2
      <4>4. \E k \in InFlight' : k.id = OutId(i, it)
        BY <2>1, <3>2, <3>3 DEF InFlight, On
      <4>5. ~Signaled(OutId(i, it))'
        BY <1>1, <4>4 DEF Signaled, OutId
      <4> QED
        BY <1>1, <4>3, <4>5 DEF Holds, OutId, Signaled
    <3>4. CASE i # o
      <4>1. i < o
        BY <2>7, <3>1, <3>4
      <4>2. a \in On(p)
        BY <2>2, <3>1, <3>2, <3>4
      <4>3. Delivered(i)
        BY <2>3, <4>1 DEF Delivered
      <4>4. Holds(ready[Dst(i)], OutId(i, it))
        BY <1>2, <3>1, <4>2, <4>3 DEF Awaited
      <4>5. ready'[Dst(i)] = ready[Dst(i)]
        <5>1. Dst(i) # Dst(o)
          BY <3>4, Distinct
        <5> QED
          BY <1>0, <1>6, <5>1 DEF OutWrite, OutImport, OutUploadGl, SignalReady, SetReady, tokenVars
      <4> QED
        BY <1>0, <1>1, <2>1, <4>4, <4>5, HoldsSubmitted DEF Holds, OutId, Signaled
    <3> QED
      BY <3>3, <3>4
  <2> QED
    BY <2>6, <2>8, <2>9, <2>10 DEF DataInv
<1> QED
  BY <1>3, <1>4, <1>5, <1>6

\* A finished queue has no writers.
LEMMA IdleSettles ==
  ASSUME TypeOK, OrderInv
  PROVE  /\ cell.src \in Apis /\ Idle(cell.src) => Settled(Src)
         /\ cell.ep = "webgpu" /\ Idle("wgpu") =>
              Settled(In) /\ \A i \in Outs : Settled(Out(i)) /\ Settled(Dst(i))
         /\ cell.ep = "cpu" /\ cell.dst \in Apis /\ Idle(cell.dst) => \A i \in Outs : Settled(Dst(i))
         /\ cell.ep = "cpu" /\ cell.dst = "vk" => \A i \in Outs : Settled(Dst(i))
<1>1. \A q \in Apis : On(q) \subseteq Jobs /\ (Idle(q) <=> On(q) = {})
  BY OnJobs
<1>2. \A q \in Apis : \A j \in On(q) : j \in Jobs /\ Right(q, j)
  BY <1>1 DEF OrderInv, JobsRight
<1>3. ASSUME cell.src \in Apis, Idle(cell.src) PROVE Settled(Src)
  <2>1. ASSUME NEW q \in Apis, NEW j \in On(q), Src \in Writes(j) PROVE FALSE
    <3>1. j.id.stage = "gen"
      BY <1>2, <2>1, WrittenBy, Distinct
    <3> QED
      BY <1>1, <1>2, <1>3, <2>1, <3>1 DEF Right
  <2> QED
    BY <2>1 DEF Settled
<1>4. ASSUME cell.ep = "webgpu", Idle("wgpu"), NEW m,
             m = In \/ \E i \in Outs : m = Out(i) \/ m = Dst(i)
      PROVE  Settled(m)
  <2>1. ASSUME NEW q \in Apis, NEW j \in On(q), m \in Writes(j) PROVE FALSE
    <3>1. j.id.stage \in {"in", "run", "out"}
      BY <1>2, <1>4, <2>1, WrittenBy, Distinct
    <3>2. q = "wgpu"
      BY <1>2, <1>4, <2>1, <3>1 DEF Right
    <3> QED
      BY <1>1, <1>4, <2>1, <3>2
  <2> QED
    BY <2>1 DEF Settled
<1>5. ASSUME cell.ep = "cpu", (cell.dst \in Apis /\ Idle(cell.dst)) \/ cell.dst = "vk", NEW i \in Outs
      PROVE  Settled(Dst(i))
  <2>1. ASSUME NEW q \in Apis, NEW j \in On(q), Dst(i) \in Writes(j) PROVE FALSE
    <3>1. j.id.stage \in {"run", "out"}
      BY <1>2, <2>1, WrittenBy, Distinct
    <3>2. q = cell.dst /\ q # "vk"
      BY <1>2, <1>5, <2>1, <3>1 DEF Right
    <3> QED
      BY <1>1, <1>5, <2>1, <3>2
  <2> QED
    BY <2>1 DEF Settled
<1> QED
  BY <1>3, <1>4, <1>5 DEF Apis

\* The generators that are the host, and the finish of the others.
LEMMA DataGen ==
  ASSUME CellInv, GenCpu \/ GenDmabuf \/ FinishGen
  PROVE  DataInv'
<1>0. /\ TypeOK /\ OrderInv /\ DataInv /\ it \in Nat \ {0} /\ mem \in [Memory -> Nat] /\ Src \in Memory
  BY MemoryParts DEF CellInv, TypeInv, TypeOK
<1>1. /\ UNCHANGED <<cell, fenced, it, o, queue, seen, prev, exact>> /\ pc \in {"gen", "finish_gen"}
      /\ pc' = "in"
  BY DEF GenCpu, GenDmabuf, FinishGen, At, Go, checkVars
<1>2. Due(Src, it)' /\ ReadersDue'
  <2>1. CASE GenCpu \/ GenDmabuf
    <3>1. /\ mem' = [mem EXCEPT ![Src] = it] /\ cell.src \in {"cpu", "dmabuf"} /\ pc = "gen"
          /\ (cell.src = "dmabuf" => Signaled(released[Src]))
      BY <2>1 DEF GenCpu, GenDmabuf, At
    <3>2. mem'[Src] = it /\ \A m \in Memory : m # Src => mem'[m] = mem[m]
      BY <1>0, <3>1
    <3>3. Settled(Src)
      BY <1>0, <3>1, SettledOnHost DEF Apis
    <3>4. Due(Src, it)'
      <4>1. ASSUME NEW n, n = it PROVE Due(Src, n)'
        BY <1>1, <3>2, <3>3, <4>1, DueWritten
      <4> QED
        BY <1>1, <4>1 DEF Due
    <3>5. ASSUME NEW q \in Apis, NEW j \in On(q), NEW m \in Reads(j) PROVE mem'[m] = mem[m]
      <4>1. j \in Jobs /\ Right(q, j)
        BY <1>0, <3>5, OnJobs DEF OrderInv, JobsRight
      <4>2. CASE m = Src
        <5>1. j.id.stage = "in" \/ (j.id.stage = "run" /\ EngineIn = Src)
          BY <1>0, <3>5, <4>1, <4>2, ReadBy, Distinct
        <5>2. cell.ep = "webgpu"
          BY <1>0, <3>5, <4>1, ReadBy
        <5>3. j.id.stage = "in"
          BY <1>0, <3>1, <5>1, <5>2, Distinct, Ways DEF EngineIn
        <5>4. cell.src \in {"gl", "vk", "dmabuf"}
          BY <1>0, <3>5, <4>1, <5>3, ReadBy
        <5>5. ~Signaled(released[Src])
          BY <1>0, <3>1, <3>5, <5>3, <5>4, TokensSay
        <5> QED
          BY <3>1, <5>4, <5>5
      <4>3. CASE m # Src
        BY <1>0, <3>2, <3>5, <4>1, <4>3, UsesMemory
      <4> QED
        BY <4>2, <4>3
    <3> QED
      BY <1>0, <1>1, <3>4, <3>5, ReadersKept DEF DataInv
  <2>2. CASE FinishGen
    <3>1. UNCHANGED mem /\ pc = "finish_gen"
      BY <2>2 DEF FinishGen, At
    <3>2. Due(Src, it)
      BY <1>0, <3>1 DEF DataInv, HostDue
    <3>3. Due(Src, it)'
      <4>1. ASSUME NEW n, n = it PROVE Due(Src, n)'
        BY <1>1, <3>1, <3>2, <4>1, DueUnchanged
      <4> QED
        BY <1>1, <4>1 DEF Due
    <3> QED
      BY <1>0, <1>1, <3>1, <3>3, ReadersKept DEF DataInv
  <2> QED
    BY <2>1, <2>2
<1>3. HostDue'
  BY <1>1, <1>2 DEF HostDue, Delivered
<1>4. Awaited' /\ Checked'
  BY <1>0, <1>1 DEF DataInv, Awaited, Delivered, Checked
<1> QED
  BY <1>2, <1>3, <1>4 DEF DataInv

\* The input edges that the host copies or that are views.
LEMMA DataInput ==
  ASSUME CellInv, InView \/ InReadback
  PROVE  DataInv'
<1>0. /\ TypeOK /\ OrderInv /\ DataInv /\ it \in Nat \ {0} /\ mem \in [Memory -> Nat]
      /\ Src \in Memory /\ In \in Memory /\ Src # In
  BY MemoryParts, Distinct DEF CellInv, TypeInv, TypeOK
<1>1. /\ UNCHANGED <<cell, fenced, it, o, queue, seen, prev, exact>> /\ pc = "in" /\ pc' = "run"
  BY DEF InView, InReadback, At, Go, checkVars
<1>2. Due(Src, it) /\ EngineIn' = EngineIn
  BY <1>0, <1>1, CellKept DEF DataInv, HostDue
<1>3. Due(Src, it)' /\ Due(EngineIn, it)' /\ ReadersDue'
  <2>1. CASE InView
    <3>1. UNCHANGED mem /\ EngineIn = Src
      BY <2>1 DEF InView, EngineIn
    <3>2. Due(Src, it)'
      <4>1. ASSUME NEW n, n = it PROVE Due(Src, n)'
        BY <1>1, <1>2, <3>1, <4>1, DueUnchanged
      <4> QED
        BY <1>1, <4>1 DEF Due
    <3> QED
      BY <1>0, <1>1, <1>2, <3>1, <3>2, ReadersKept DEF DataInv, Due
  <2>2. CASE InReadback
    <3>1. /\ mem' = [mem EXCEPT ![In] = mem[Src]] /\ InEdge = "readback" /\ Readback(Src, cell.src)
      BY <2>2 DEF InReadback
    <3>2. cell.ep = "cpu" /\ cell.src \in {"gl", "vk", "wgpu"}
      BY <1>0, <3>1, Ways
    <3>3. Idle(cell.src)
      BY <3>1, <3>2 DEF Readback, ReadbackGl, ReadbackVk, ReadbackWgpu
    <3>4. Settled(Src) /\ Settled(In)
      BY <1>0, <3>2, <3>3, IdleSettles, SettledOnHost DEF Apis
    <3>5. mem[Src] = it
      BY <1>2, <3>4, DueNow
    <3>6. mem'[In] = it /\ mem'[Src] = it
      BY <1>0, <3>1, <3>5
    <3>7. EngineIn = In
      BY <3>1 DEF EngineIn, HandOver
    <3>8. Due(Src, it)' /\ Due(In, it)'
      <4>1. ASSUME NEW n, n = it PROVE Due(Src, n)' /\ Due(In, n)'
        BY <1>1, <3>4, <3>6, <4>1, DueWritten
      <4> QED
        BY <1>1, <4>1 DEF Due
    <3>9. ReadersDue'
      <4>1. \A q \in Apis : \A j \in On(q) : j \in Jobs /\ Right(q, j)
        BY <1>0, OnJobs DEF OrderInv, JobsRight
      <4>2. \A q \in Apis : \A j \in On(q) : Reads(j) = {}
        BY <1>0, <3>2, <4>1, ReadBy
      <4> QED
        BY <1>0, <1>1, <4>2, ReadersKept DEF DataInv
    <3> QED
      BY <1>2, <3>7, <3>8, <3>9 DEF Due
  <2> QED
    BY <2>1, <2>2
<1>4. HostDue'
  BY <1>1, <1>3 DEF HostDue, Delivered
<1>5. Awaited' /\ Checked'
  BY <1>0, <1>1 DEF DataInv, Awaited, Delivered, Checked
<1> QED
  BY <1>3, <1>4, <1>5 DEF DataInv

\* The engine on the CPU.
LEMMA DataRunCpu ==
  ASSUME CellInv, RunCpu
  PROVE  DataInv'
<1>0. /\ TypeOK /\ OrderInv /\ DataInv /\ it \in Nat \ {0} /\ mem \in [Memory -> Nat]
      /\ Src \in Memory /\ EngineIn \in Memory
      /\ \A i \in Outs : EngineOut(i) \in Memory /\ i \in Nat /\ i >= 1
  BY MemoryParts DEF CellInv, TypeInv, TypeOK, Outs
<1>1. /\ UNCHANGED <<cell, fenced, it, o, queue, seen, prev, exact>> /\ pc = "run" /\ cell.ep = "cpu"
      /\ \/ pc' = "ready" /\ HandOver(OutEdge)
         \/ pc' = "out"
  BY DEF RunCpu, At, Go, checkVars, AfterRun
<1>2. Due(Src, it) /\ Due(EngineIn, it) /\ EngineIn' = EngineIn /\ \A i : EngineOut(i)' = EngineOut(i)
  BY <1>0, <1>1, CellKept DEF DataInv, HostDue
<1>3. /\ HandOver(InEdge) <=> cell.src \in {"cpu", "dmabuf"}
      /\ HandOver(OutEdge) <=> cell.dst \in {"cpu", "dmabuf"}
  BY <1>0, <1>1, Ways
<1>4. Settled(EngineIn) /\ \A i \in Outs : Settled(EngineOut(i))
  BY <1>0, <1>1, <1>3, SettledOnHost DEF Apis, EngineIn, EngineOut
<1>5. mem[EngineIn] = it
  BY <1>2, <1>4, DueNow
<1>6. /\ \A i \in Outs : mem'[EngineOut(i)] = it
      /\ mem'[Src] = mem[Src] /\ mem'[EngineIn] = mem[EngineIn]
  <2>1. mem' = [m \in Memory |-> IF \E i \in Outs : m = EngineOut(i) THEN mem[EngineIn] ELSE mem[m]]
    BY DEF RunCpu
  <2>2. \A i : EngineOut(i) # Src /\ EngineOut(i) # EngineIn
    BY Distinct DEF EngineOut, EngineIn
  <2> QED
    BY <1>0, <1>5, <2>1, <2>2
<1>7. Due(Src, it)' /\ Due(EngineIn, it)' /\ \A i \in Outs : Due(EngineOut(i), it)'
  <2>1. ASSUME NEW n, n = it
        PROVE  Due(Src, n)' /\ Due(EngineIn, n)' /\ \A i \in Outs : Due(EngineOut(i), n)'
    <3>1. \A m : Settled(m) /\ mem'[m] = n => Due(m, n)'
      BY <1>1, DueWritten
    <3>2. \A m : Due(m, n) /\ mem'[m] = mem[m] => Due(m, n)'
      BY <1>1, DueUnchanged
    <3> QED
      BY <1>2, <1>4, <1>6, <2>1, <3>1, <3>2 DEF Due
  <2> QED
    BY <1>1, <2>1 DEF Due
<1>8. ReadersDue'
  <2>1. \A q \in Apis : \A j \in On(q) : j \in Jobs /\ Right(q, j)
    BY <1>0, OnJobs DEF OrderInv, JobsRight
  <2>2. \A q \in Apis : \A j \in On(q) : Reads(j) = {}
    BY <1>0, <1>1, <2>1, ReadBy
  <2> QED
    BY <1>0, <1>1, <2>2, ReadersKept DEF DataInv
<1>9. o = 1
  BY <1>0, <1>1 DEF DataInv, Checked
<1>10. \A i \in Outs : Delivered(i)' => EngineOut(i) = Dst(i)
  BY <1>0, <1>1, <1>9 DEF Delivered, EngineOut
<1>11. HostDue'
  <2>1. \A i \in Outs : (Delivered(i) \/ (pc = "finish_out" /\ i = o))' => Due(Dst(i), it)'
    BY <1>1, <1>2, <1>7, <1>10 DEF Due
  <2> QED
    BY <1>1, <1>7, <2>1 DEF HostDue, Due
<1>12. Awaited'
  <2>1. SUFFICES ASSUME cell.dst \in {"gl", "vk", "dmabuf"}, NEW i \in Outs, Delivered(i)',
                        NEW p \in Apis, NEW j \in On(p)', j.id.stage = "out"
                 PROVE  FALSE
    BY <1>1 DEF Awaited
  <2>2. HandOver(OutEdge)
    BY <1>0, <1>1, <1>9, <2>1 DEF Delivered
  <2>3. cell.dst = "dmabuf"
    BY <1>3, <2>1, <2>2
  <2>4. j \in On(p)
    BY <1>1, <2>1 DEF On
  <2> QED
    BY <1>0, <1>1, <2>1, <2>3, <2>4 DEF OrderInv, JobsRight, Right, Apis
<1>13. Checked'
  BY <1>0, <1>1, <1>9 DEF DataInv, Checked
<1> QED
  BY <1>8, <1>11, <1>12, <1>13 DEF DataInv

\* The output edges on the host.
LEMMA DataOutput ==
  ASSUME CellInv, OutReadback \/ FinishOut \/ OutUploadVk
  PROVE  DataInv'
<1>0. /\ TypeInv /\ TypeOK /\ OrderInv /\ DataInv /\ it \in Nat \ {0} /\ mem \in [Memory -> Nat]
      /\ o \in Outs /\ Outs = 1 .. NOut /\ NOut \in Nat \ {0}
      /\ Src \in Memory /\ EngineIn \in Memory
      /\ \A i \in Outs : EngineOut(i) \in Memory /\ Dst(i) \in Memory /\ i \in Nat /\ i >= 1
  BY CellAssumption, MemoryParts DEF CellInv, TypeInv, TypeOK, Outs
<1>1. /\ UNCHANGED <<cell, fenced, it, queue, seen, prev, exact>> /\ pc \in {"out", "finish_out"}
      /\ \/ o < NOut /\ o' = o + 1 /\ pc' = "out"
         \/ o = NOut /\ o' = 1 /\ pc' = "ready"
  BY <1>0 DEF OutReadback, FinishOut, OutUploadVk, At, GoOver, checkVars
<1>2. /\ Due(Src, it) /\ Due(EngineIn, it) /\ \A i \in Outs : Due(EngineOut(i), it)
      /\ \A i \in Outs : i < o => Due(Dst(i), it)
      /\ EngineIn' = EngineIn /\ \A i : EngineOut(i)' = EngineOut(i)
  BY <1>0, <1>1, CellKept DEF DataInv, HostDue, Delivered
<1>3. /\ \A m \in Memory : m # Dst(o) => mem'[m] = mem[m]
      /\ (mem'[Dst(o)] = it /\ Settled(Dst(o))) \/ (mem'[Dst(o)] = mem[Dst(o)] /\ Due(Dst(o), it))
  <2>1. CASE OutReadback
    <3>1. /\ mem' = [mem EXCEPT ![Dst(o)] = mem[Out(o)]] /\ OutEdge = "readback" /\ Idle("wgpu")
          /\ pc = "out"
      BY <2>1 DEF OutReadback, ReadbackWgpu, At
    <3>2. cell.ep = "webgpu" /\ EngineOut(o) = Out(o)
      BY <1>0, <3>1, Ways DEF EngineOut, HandOver
    <3>3. Settled(Out(o)) /\ Settled(Dst(o))
      BY <1>0, <3>1, <3>2, IdleSettles
    <3>4. mem[Out(o)] = it
      BY <1>0, <1>2, <3>2, <3>3, DueNow
    <3> QED
      BY <1>0, <3>1, <3>3, <3>4
  <2>2. CASE FinishOut
    <3>1. UNCHANGED mem /\ pc = "finish_out"
      BY <2>2 DEF FinishOut, At
    <3> QED
      BY <1>0, <3>1 DEF DataInv, HostDue
  <2>3. CASE OutUploadVk
    <3>1. /\ mem' = [mem EXCEPT ![Dst(o)] = mem[Out(o)]] /\ OutEdge = "upload" /\ cell.dst = "vk"
          /\ pc = "out"
      BY <2>3 DEF OutUploadVk, At
    <3>2. mem[Out(o)] = it
      BY <3>1, DataFixed
    <3>3. Settled(Dst(o))
      BY <1>0, <3>1, Ways, IdleSettles
    <3> QED
      BY <1>0, <3>1, <3>2, <3>3
  <2> QED
    BY <2>1, <2>2, <2>3
<1>4. /\ Due(Src, it)' /\ Due(EngineIn, it)' /\ (\A i \in Outs : Due(EngineOut(i), it)')
      /\ \A i \in Outs : i < o \/ i = o => Due(Dst(i), it)'
  <2>1. ASSUME NEW n, n = it
        PROVE  /\ Due(Src, n)' /\ Due(EngineIn, n)' /\ (\A i \in Outs : Due(EngineOut(i), n)')
               /\ \A i \in Outs : i < o \/ i = o => Due(Dst(i), n)'
    <3>1. \A m : Settled(m) /\ mem'[m] = n => Due(m, n)'
      BY <1>1, DueWritten
    <3>2. \A m : Due(m, n) /\ mem'[m] = mem[m] => Due(m, n)'
      BY <1>1, DueUnchanged
    <3>3. \A m : m = Dst(o) => Due(m, n)'
      BY <1>3, <2>1, <3>1, <3>2
    <3>4. \A m \in Memory : Due(m, n) => Due(m, n)'
      BY <1>3, <3>2, <3>3
    <3>5. \A i \in Outs : i = o => Due(Dst(i), n)'
      BY <3>3
    <3>6. \A i \in Outs : i < o => Due(Dst(i), n)'
      BY <1>0, <1>2, <2>1, <3>4
    <3>7. Due(Src, n)' /\ Due(EngineIn, n)' /\ \A i \in Outs : Due(EngineOut(i), n)'
      BY <1>0, <1>2, <2>1, <3>4 DEF Due
    <3> QED
      BY <3>5, <3>6, <3>7
  <2> QED
    BY <1>1, <2>1 DEF Due
<1>5. ReadersDue'
  <2>1. \A q \in Apis : \A j \in On(q) : j \in Jobs /\ Right(q, j)
    BY <1>0, OnJobs DEF OrderInv, JobsRight
  <2>2. ASSUME NEW q \in Apis, NEW j \in On(q), NEW m \in Reads(j) PROVE mem'[m] = mem[m]
    <3>1. m # Dst(o)
      BY <1>0, <2>1, <2>2, ReadBy, Distinct DEF EngineIn
    <3> QED
      BY <1>0, <1>3, <2>1, <2>2, <3>1, UsesMemory
  <2> QED
    BY <1>0, <1>1, <2>2, ReadersKept DEF DataInv
<1>6. \A i \in Outs : (Delivered(i) \/ (pc = "finish_out" /\ i = o))' => i < o \/ i = o
  BY <1>0, <1>1 DEF Delivered
<1>7. HostDue'
  BY <1>1, <1>2, <1>4, <1>6 DEF HostDue, Due
<1>8. Awaited'
  <2>1. SUFFICES ASSUME cell.dst \in {"gl", "vk", "dmabuf"}, NEW p \in Apis, NEW j \in On(p)',
                        j.id.stage = "out"
                 PROVE  FALSE
    BY <1>1 DEF Awaited
  <2>2. j \in On(p) /\ Right(p, j) /\ On(p) # {}
    BY <1>0, <1>1, <2>1 DEF On, OrderInv, JobsRight
  <2>3. cell.ep = "cpu" /\ (cell.dst = "vk" \/ (cell.dst = "gl" /\ Idle("gl")))
    <3>1. CASE OutReadback
      BY <1>0, <2>1, <3>1, Ways DEF OutReadback
    <3>2. CASE FinishOut
      BY <1>0, <2>1, <3>2, Ways DEF FinishOut, Finished, At, TypeInv, FinishPlace
    <3>3. CASE OutUploadVk
      BY <1>0, <3>3, Ways DEF OutUploadVk
    <3> QED
      BY <3>1, <3>2, <3>3
  <2>4. p = cell.dst /\ p # "vk"
    BY <2>1, <2>2, <2>3 DEF Right
  <2> QED
    BY <1>0, <2>2, <2>3, <2>4, OnJobs
<1>9. Checked'
  BY <1>0, <1>1 DEF DataInv, Checked
<1> QED
  BY <1>5, <1>7, <1>8, <1>9 DEF DataInv

\* Nothing in memory or in flight changes: what was due at the last call still is.
LEMMA DataUnchanged ==
  ASSUME CellInv, UNCHANGED <<cell, queue, mem>>
  PROVE  /\ ReadersDue'
         /\ \A m \in Memory : \A n : Due(m, n) => Due(m, n)'
         /\ EngineIn' = EngineIn /\ \A i : EngineOut(i)' = EngineOut(i)
         /\ \A q \in Apis : On(q)' = On(q)
<1>1. \A m \in Memory : \A n : Due(m, n) => Due(m, n)'
  BY DueUnchanged
<1>2. ReadersDue'
  BY ReadersKept DEF CellInv, DataInv
<1> QED
  BY <1>1, <1>2, CellKept DEF On

\* What the consumer waits for is there when it reads.
LEMMA DataConsumer ==
  ASSUME CellInv, WaitReady \/ ReadOutput
  PROVE  DataInv'
<1>0. /\ TypeOK /\ OrderInv /\ DataInv /\ it \in Nat \ {0} /\ mem \in [Memory -> Nat]
      /\ o \in Outs /\ Outs = 1 .. NOut /\ NOut \in Nat \ {0}
      /\ Src \in Memory /\ EngineIn \in Memory
      /\ \A i \in Outs : EngineOut(i) \in Memory /\ Dst(i) \in Memory /\ i \in Nat /\ i >= 1
      /\ seen \in [Outs -> Nat]
  BY CellAssumption, MemoryParts DEF CellInv, TypeInv, TypeOK, Outs, DataInv, Checked
<1>1. /\ UNCHANGED <<cell, fenced, it, queue, mem, ready, prev, exact>> /\ pc \in {"ready", "read"}
      /\ pc' \in {"ready", "read", "check"}
  BY DEF WaitReady, ReadOutput, At, GoOver, checkVars, tokenVars
<1>2. /\ Due(Src, it) /\ Due(EngineIn, it) /\ \A i \in Outs : Due(EngineOut(i), it)
      /\ \A i \in Outs : Due(Dst(i), it)
  BY <1>0, <1>1 DEF DataInv, HostDue, Delivered
<1>3. /\ ReadersDue'
      /\ \A m \in Memory : \A n : Due(m, n) => Due(m, n)'
      /\ EngineIn' = EngineIn /\ \A i : EngineOut(i)' = EngineOut(i)
      /\ \A q \in Apis : On(q)' = On(q)
  BY <1>1, DataUnchanged
<1>4. HostDue'
  <2>1. ASSUME NEW n, n = it
        PROVE  /\ Due(Src, n)' /\ Due(EngineIn, n)' /\ (\A i \in Outs : Due(EngineOut(i), n)')
               /\ \A i \in Outs : Due(Dst(i), n)'
    <3>1. \A m \in Memory : Due(m, n) => Due(m, n)'
      BY <1>3
    <3>2. \A i \in Outs : Due(Dst(i), n)'
      BY <1>0, <1>2, <2>1, <3>1
    <3>3. /\ \A m : m = Src => Due(m, n)'
          /\ \A m : m = EngineIn => Due(m, n)'
          /\ \A i \in Outs : \A m : m = EngineOut(i) => Due(m, n)'
      BY <1>0, <1>2, <2>1, <3>1
    <3>4. Due(Src, n)'
      BY <1>1, <3>3 DEF Due
    <3>5. Due(EngineIn, n)'
      BY <1>3, <3>3 DEF Due
    <3>6. \A i \in Outs : Due(EngineOut(i), n)'
      BY <1>3, <3>3 DEF Due
    <3> QED
      BY <3>2, <3>4, <3>5, <3>6
  <2>2. /\ Due(Src, it)' /\ Due(EngineIn, it)' /\ (\A i \in Outs : Due(EngineOut(i), it)')
        /\ \A i \in Outs : Due(Dst(i), it)'
    BY <1>1, <2>1 DEF Due
  <2> QED
    BY <1>1, <2>2 DEF HostDue
<1>5. Awaited'
  <2>1. \A i : Delivered(i)' /\ Delivered(i)
    BY <1>1 DEF Delivered
  <2>2. \A i, n : Holds(ready[Dst(i)], OutId(i, n)) => Holds(ready'[Dst(i)], OutId(i, n))
    BY <1>1
  <2>3. SUFFICES ASSUME cell.dst \in {"gl", "vk", "dmabuf"}, NEW i \in Outs,
                        NEW p \in Apis, NEW j \in On(p), j.id.stage = "out", j.id.o = i
                 PROVE  Holds(ready[Dst(i)], OutId(i, it))'
    BY <1>1, <1>3 DEF Awaited
  <2>4. Holds(ready[Dst(i)], OutId(i, it))
    BY <1>0, <2>1, <2>3 DEF DataInv, Awaited
  <2> QED
    BY <1>1, <2>4 DEF Holds, OutId, Signaled, InFlight
<1>6. Checked'
  <2>1. CASE WaitReady
    <3>1. seen' = seen /\ pc = "ready" /\ (pc' = "ready" \/ (pc' = "read" /\ o' = 1))
      BY <2>1 DEF WaitReady, At, GoOver, checkVars
    <3> QED
      BY <1>0, <1>1, <3>1 DEF DataInv, Checked
  <2>2. CASE ReadOutput
    <3>1. /\ pc = "read" /\ Readback(Dst(o), cell.dst)
          /\ seen' = [seen EXCEPT ![o] = mem[Dst(o)]]
          /\ \/ o < NOut /\ o' = o + 1 /\ pc' = "read"
             \/ o = NOut /\ o' = 1 /\ pc' = "check"
      BY <1>0, <2>2 DEF ReadOutput, At, GoOver
    <3>2. Settled(Dst(o))
      <4>1. cell.ep \in {"cpu", "webgpu"} /\ cell.dst \in {"cpu", "gl", "vk", "wgpu", "dmabuf"}
        BY <1>0, Ways
      <4>2. CASE cell.ep = "cpu"
        <5>1. \/ cell.dst \notin Apis
              \/ cell.dst \in Apis /\ Idle(cell.dst)
              \/ cell.dst = "vk"
          BY <3>1, <4>1 DEF Readback, ReadbackGl, ReadbackWgpu, Apis
        <5> QED
          BY <1>0, <4>2, <5>1, IdleSettles, SettledOnHost
      <4>3. CASE cell.ep = "webgpu" /\ cell.dst \in {"cpu", "wgpu"}
        <5>1. Idle("wgpu")
          BY <1>0, <3>1, <4>3 DEF OrderInv, ConsumerIdle
        <5> QED
          BY <1>0, <4>3, <5>1, IdleSettles
      <4>4. CASE cell.ep = "webgpu" /\ cell.dst \in {"gl", "vk", "dmabuf"}
        <5>1. Signaled(ready[Dst(o)])
          BY <3>1, <4>4 DEF Readback, ReadbackGl, ReadbackVk, ReadbackDmabuf
        <5>2. ASSUME NEW q \in Apis, NEW j \in On(q), Dst(o) \in Writes(j) PROVE FALSE
          <6>1. j \in Jobs /\ Right(q, j)
            BY <1>0, <5>2, OnJobs DEF OrderInv, JobsRight
          <6>2. j.id.stage = "out" /\ j.id.o = o
            <7>1. j.id.stage = "out" /\ Dst(o) = Dst(j.id.o)
              <8> DEFINE m == Dst(o)
              <8>1. \/ m = Src \/ m = In \/ \E i \in Outs : m = Out(i)
                    \/ m = Dst(j.id.o) /\ j.id.stage = "out"
                BY <1>0, <4>4, <5>2, <6>1, WrittenBy
              <8> QED
                BY <8>1, Distinct
            <7> QED
              BY <7>1, Distinct
          <6>3. Holds(ready[Dst(o)], OutId(o, it))
            BY <1>0, <3>1, <4>4, <5>2, <6>2 DEF DataInv, Awaited, Delivered
          <6> QED
            BY <5>1, <6>3 DEF Holds
        <5> QED
          BY <5>2 DEF Settled
      <4> QED
        BY <4>1, <4>2, <4>3, <4>4
    <3>3. mem[Dst(o)] = it
      BY <1>0, <1>2, <3>2, DueNow
    <3>4. \A i \in Outs : i < o => seen[i] = it
      BY <1>0, <3>1 DEF DataInv, Checked
    <3>5. seen' \in [Outs -> Nat] /\ \A i \in Outs : i < o \/ i = o => seen'[i] = it
      BY <1>0, <3>1, <3>3, <3>4
    <3>6. pc' = "check" => seen' = [i \in Outs |-> it]
      <4>1. ASSUME pc' = "check", NEW i \in Outs PROVE seen'[i] = it
        BY <1>0, <3>1, <3>5, <4>1
      <4> QED
        BY <3>5, <4>1
    <3>7. pc' = "read" => \A i \in Outs : i < o' => seen'[i] = it
      BY <1>0, <3>1, <3>5
    <3> QED
      BY <1>0, <1>1, <3>1, <3>5, <3>6, <3>7 DEF DataInv, Checked
  <2> QED
    BY <2>1, <2>2
<1> QED
  BY <1>3, <1>4, <1>5, <1>6 DEF DataInv

\* The end of an iteration, or of the cell.
LEMMA DataEnds ==
  ASSUME CellInv, Check \/ InTimeOut \/ WaitReadyTimeOut \/ CallFails \/ ReleaseTensors
  PROVE  DataInv'
<1>0. TypeOK /\ OrderInv /\ DataInv /\ it \in Nat \ {0}
  BY DEF CellInv, TypeInv, TypeOK
<1>1. UNCHANGED <<cell, queue, mem, seen, o>> /\ pc' \in {"gen", "release", "done"}
  BY DEF Check, InTimeOut, WaitReadyTimeOut, GiveUp, CallFails, ReleaseTensors, At, Go
<1>2. ReadersDue'
  BY <1>1, DataUnchanged
<1>3. HostDue' /\ Awaited'
  BY <1>1 DEF HostDue, Awaited, Delivered
<1>4. Checked'
  <2>1. CASE Check
    <3>1. /\ pc = "check" /\ prev' = seen
          /\ \/ pc' = "gen" /\ it' = it + 1
             \/ pc' = "release" /\ it' = it
          /\ \/ it = 1 /\ InputCheck
             \/ UNCHANGED exact
      BY <2>1 DEF Check, NextIteration, At
    <3>2. Due(EngineIn, it) /\ seen = [i \in Outs |-> it] /\ exact /\ o = 1
      BY <1>0, <3>1 DEF DataInv, HostDue, Checked
    <3>3. exact'
      <4>1. CASE InputCheck
        <5>1. (cell.ep = "webgpu" => Idle("wgpu")) /\ exact' = (mem[EngineIn] = it)
          BY <4>1 DEF InputCheck
        <5>2. Settled(EngineIn)
          <6>1. CASE cell.ep = "webgpu"
            BY <1>0, <5>1, <6>1, Ways, IdleSettles DEF EngineIn, Apis
          <6>2. CASE cell.ep = "cpu"
            BY <1>0, <6>2, Ways, SettledOnHost DEF EngineIn, Apis
          <6> QED
            BY <1>0, <6>1, <6>2, Ways
        <5> QED
          BY <3>2, <5>1, <5>2, DueNow
      <4>2. CASE UNCHANGED exact
        BY <3>2, <4>2
      <4> QED
        BY <3>1, <4>1, <4>2
    <3>4. pc' = "gen" => prev' = [i \in Outs |-> it' - 1]
      <4>1. ASSUME pc' = "gen" PROVE it' - 1 = it
        BY <1>0, <3>1, <4>1
      <4> QED
        BY <3>1, <3>2, <4>1
    <3> QED
      BY <1>0, <1>1, <3>1, <3>2, <3>3, <3>4 DEF DataInv, Checked
  <2>2. CASE InTimeOut \/ WaitReadyTimeOut \/ CallFails \/ ReleaseTensors
    <3>1. UNCHANGED exact /\ pc' \in {"release", "done"}
      BY <2>2 DEF InTimeOut, WaitReadyTimeOut, GiveUp, CallFails, ReleaseTensors, Go
    <3> QED
      BY <1>0, <1>1, <3>1 DEF DataInv, Checked
  <2> QED
    BY <2>1, <2>2
<1> QED
  BY <1>2, <1>3, <1>4 DEF DataInv

\* Every call of the host keeps what is due.
LEMMA DataHost == ASSUME FencesWork, CellInv, Host PROVE DataInv'
BY DataSubmitters, DataGen, DataInput, DataRunCpu, DataOutput, DataConsumer, DataEnds
   DEF Host, Calls, Gen, OutputEdge

------------------------------------------------------------------------------
(* The theorems *)

\* A new cell has nothing in flight.
LEMMA CellInit == Init => CellInv
<1> SUFFICES ASSUME Init PROVE CellInv
  OBVIOUS
<1>1. TypeInv /\ CellGiven
  BY TypeInit, ReadyInit DEF ReadyInv
<1>2. pc = "gen" /\ it = 1 /\ o = 1 /\ exact /\ \A q \in Apis : queue[q] = <<>>
  BY DEF Init
<1>3. \A q \in Apis : On(q) = {} /\ Len(queue[q]) = 0
  BY <1>2 DEF On
<1>4. OrderInv
  <2>1. Sorted
    BY <1>3 DEF Sorted
  <2>2. JobsRight /\ InTurn /\ ReadyHeld /\ ReleasedHeld
    BY <1>3 DEF JobsRight, InTurn, ReadyHeld, ReleasedHeld
  <2>3. ConsumerIdle
    BY <1>2, MemoryParts DEF ConsumerIdle, Idle
  <2> QED
    BY <2>1, <2>2, <2>3 DEF OrderInv
<1>5. seen \in [Outs -> Nat] /\ prev = [i \in Outs |-> it - 1]
  BY DEF Init
<1>6. DataInv
  BY <1>2, <1>3, <1>5 DEF DataInv, Awaited, Delivered, ReadersDue, HostDue, Checked
<1> QED
  BY <1>1, <1>4, <1>6 DEF CellInv

\* Every step keeps the invariant.
LEMMA CellStep == ASSUME FencesWork, HostWaits PROVE CellInv /\ [Next]_vars => CellInv'
<1> SUFFICES ASSUME CellInv, [Next]_vars PROVE CellInv'
  OBVIOUS
<1>1. TypeInv'
  BY TypeStep DEF CellInv
<1>2. CellGiven'
  <2>1. UNCHANGED <<cell, fenced>>
    BY HostPlace DEF CellInv, Next, GpuRuns, Terminated, vars
  <2> QED
    BY <2>1 DEF CellInv, CellGiven
<1>3. CASE Host
  BY <1>1, <1>2, <1>3, OrderHost, DataHost DEF CellInv
<1>4. CASE \E q \in Apis : GpuRuns(q)
  BY <1>1, <1>2, <1>4, OrderGpu, DataGpu DEF CellInv, TypeInv
<1>5. CASE UNCHANGED vars
  <2>1. UNCHANGED <<cell, fenced, pc, it, o, queue, mem, ready, released, seen, prev, exact>>
    BY <1>5 DEF vars, hostVars, tokenVars, checkVars
  <2>2. ReadyHeld' /\ ReleasedHeld' /\ ConsumerIdle' /\ Awaited'
    <3>1. \A q \in Apis : On(q)' = On(q)
      BY <2>1 DEF On
    <3>2. \A f : Signaled(f)' <=> Signaled(f)
      BY <2>1 DEF Signaled, InFlight
    <3>3. ReadyHeld'
      BY <2>1, <3>1, <3>2 DEF CellInv, OrderInv, ReadyHeld, Holds, GenId, Signaled, InFlight
    <3>4. ReleasedHeld'
      BY <2>1, <3>1, <3>2 DEF CellInv, OrderInv, ReleasedHeld, Holds, InId, Signaled, InFlight
    <3>5. ConsumerIdle'
      BY <2>1 DEF CellInv, OrderInv, ConsumerIdle, Idle
    <3>6. Awaited'
      BY <2>1, <3>1, <3>2 DEF CellInv, DataInv, Awaited, Delivered, Holds, OutId, Signaled, InFlight
    <3> QED
      BY <3>3, <3>4, <3>5, <3>6
  <2>3. OrderInv'
    <3>1. TypeOK /\ OrderInv /\ it' \in Nat /\ Done' = Done
      BY <2>1 DEF CellInv, TypeInv, TypeOK, Done
    <3> QED
      BY <2>1, <2>2, <3>1, OrderKept
  <2>4. HostDue'
    <3>1. EngineIn' = EngineIn /\ \A i : EngineOut(i)' = EngineOut(i) /\ \A j : Writes(j)' = Writes(j)
      BY <2>1, CellKept
    <3>2. \A m : Due(m, it)' <=> Due(m, it)
      BY <2>1, <3>1 DEF Due, On
    <3>3. /\ Due(Src, it)' <=> Due(Src, it)
          /\ Due(EngineIn, it)' <=> Due(EngineIn, it)
          /\ \A i : /\ Due(EngineOut(i), it)' <=> Due(EngineOut(i), it)
                    /\ Due(Dst(i), it)' <=> Due(Dst(i), it)
      BY <3>1, <3>2 DEF Due
    <3>4. \A i : Delivered(i)' <=> Delivered(i)
      BY <2>1 DEF Delivered
    <3>5. pc' = pc /\ it' = it /\ o' = o /\ cell' = cell /\ HostDue
      BY <2>1 DEF CellInv, DataInv
    <3> QED
      BY <3>3, <3>4, <3>5 DEF HostDue
  <2>5. DataInv'
    BY <2>1, <2>2, <2>4, DataUnchanged DEF CellInv, DataInv, Checked
  <2> QED
    BY <1>1, <1>2, <2>3, <2>5 DEF CellInv
<1> QED
  BY <1>3, <1>4, <1>5 DEF Next, Terminated

\* For any number of outputs and iterations and every cell: across the three APIs no
\* job runs before an earlier one that writes what it uses or reads what it writes,
\* where fences work and the host waits for those it is left with.  Two tokens per
\* tensor are enough.
THEOREM NoOverrunAlways == ASSUME FencesWork, HostWaits PROVE Spec => []NoOverrun
<1>1. CellInv => NoOverrun
  BY OrderMeansNoOverrun DEF CellInv, TypeInv
<1> QED
  BY <1>1, CellInit, CellStep, PTL DEF Spec

\* Only the end of an iteration counts for the consumer.
LEMMA PromiseStep ==
  ASSUME CellInv, [Next]_vars
  PROVE  [Promise!Deliver]_<<it, prev>>
<1>1. CASE Check
  <2>1. pc = "check"
    BY <1>1 DEF Check, At
  <2>2. /\ seen = [i \in Outs |-> it] /\ prev = [i \in Outs |-> it - 1] /\ it \in Nat /\ 1 \in Outs
    BY <2>1, CellAssumption DEF CellInv, DataInv, Checked, TypeInv, TypeOK, Outs
  <2>3. prev # [i \in Outs |-> it]
    <3>1. prev[1] = it - 1 /\ [i \in Outs |-> it][1] = it
      BY <2>2
    <3> QED
      BY <2>2, <3>1
  <2>4. prev' = [i \in Outs |-> it] /\ it' = IF it < Total THEN it + 1 ELSE it
    BY <1>1, <2>2 DEF Check, More, NextIteration
  <2> QED
    BY <2>3, <2>4 DEF Promise!Deliver
<1>2. CASE ~Check
  <2>1. UNCHANGED <<it, prev>>
    <3>1. CASE Host
      BY <1>2, <3>1 DEF Host, Calls, Gen, GenCpu, GenWgpu, GenDmabuf, GenGl, GenVk, FinishGen, InView,
         InWrite, InImport, InReadback, RunCpu, RunWebgpu, OutputEdge, OutReadback, OutWrite, OutImport,
         OutUploadGl, FinishOut, OutUploadVk, WaitReady, ReadOutput, ReleaseTensors, InTimeOut,
         WaitReadyTimeOut, CallFails, GiveUp, Go, GoOver, SignalReady, checkVars
    <3>2. CASE \E q \in Apis : GpuRuns(q)
      BY <3>2 DEF GpuRuns, hostVars, checkVars
    <3>3. CASE UNCHANGED vars
      BY <3>3 DEF vars, hostVars, checkVars
    <3> QED
      BY <3>1, <3>2, <3>3 DEF Next, Terminated
  <2> QED
    BY <2>1
<1> QED
  BY <1>1, <1>2

\* The promise of infer.h to the consumer, for any number of outputs and iterations and
\* every cell: each input's result reaches every output once and in order, whatever the
\* GPUs' timing, and a cell that fails or is refused a call shows nothing wrong before.
THEOREM ImplementsPromiseAlways == ASSUME FencesWork, HostWaits PROVE Spec => ImplementsPromise
<1>1. Init => Promise!Init
  BY DEF Init, Promise!Init
<1>2. CellInv => exact
  BY DEF CellInv, DataInv, Checked
<1> QED
  BY <1>1, <1>2, CellInit, CellStep, PromiseStep, PTL
     DEF Spec, ImplementsPromise, Promise!PromiseSpec
===============================================================================
