---------------------------- MODULE CamChainProofs ----------------------------
(***************************************************************************)
(* Proofs about CamChain: whatever order the GPU executes the recorded     *)
(* commands in, a finished frame shows its picture with its effects, the   *)
(* layouts match, the depth image belongs to one draw and a released       *)
(* buffer is back with the camera.                                         *)
(*                                                                         *)
(* Every command ever recorded has a name: its frame, its stage and its    *)
(* step.  The queue is what is left of this program (QueueInv), and it is  *)
(* closed: a command that has to come after one that is left is left too.  *)
(* From the barriers alone it follows that two commands on one image, one  *)
(* of them not a fetch, are executed in the order of their names (InTurn). *)
(* The invariants then speak only of what is left and what the images are. *)
(*                                                                         *)
(* What an image holds follows from the same order.  Whatever reads one    *)
(* has a giver among the earlier commands of its frame; between the two    *)
(* nothing of the frame writes to the image (NotBetween), and nothing of   *)
(* another frame gets in (NotOver).  So once the giver has been executed   *)
(* the content is there until it is read (DataInv).                        *)
(***************************************************************************)
EXTENDS CamChain, ModularArithmetic, SequenceTheorems, FiniteSetTheorems, TLAPS

------------------------------------------------------------------------------
(* The program: every frame's commands under the names <<frame, stage, step>> *)

\* Stage 0 prepares the images, the stages 1 to 5 are the passes, stage 6 ends the frame.
Labels == [n : Nat, i : 0 .. 6, t : 0 .. 5]
\* The name of step t of stage i of frame n.
At(n, i, t) == [n |-> n, i |-> i, t |-> t]

\* The order of the recordings.
Less(x, y) ==
  \/ x.n < y.n
  \/ x.n = y.n /\ (x.i < y.i \/ (x.i = y.i /\ x.t < y.t))

\* What a frame is drawn with.
Settings(p) ==
  /\ p.scene \in AllScenes /\ p.zc \in BOOLEAN /\ p.w \in Window /\ p.b \in 0 .. NBuf
  /\ p.mask \in SUBSET Effects /\ p.cube \in BOOLEAN /\ p.written \in BOOLEAN

\* How many passes a frame has, and what it goes without.
NPass(p) == Len(Passes(p.mask))
\* Frames with a picture that the GPU draws.
Drawn(p) == p.b # 0 /\ p.scene # "shm"
\* Frames of the Vulkan scene.
OnVk(p) == p.scene = "vk"

\* Which commands a frame has.
Has(p, x) ==
  \/ x.i = 0 /\ x.t \in {0, 2, 3} /\ OnVk(p)
  \/ x.i = 0 /\ x.t = 1 /\ p.scene # "shm"
  \/ x.i = 0 /\ x.t \in {4, 5} /\ OnVk(p) /\ p.b # 0 /\ ~p.zc
  \/ x.i \in 1 .. NPass(p) /\ x.t \in {1, 2} /\ Drawn(p)
  \/ x.i \in 1 .. NPass(p) - 1 /\ x.t \in {0, 3} /\ OnVk(p) /\ p.b # 0
  \/ x.i = NPass(p) /\ x.t \in {0, 3} /\ Drawn(p) /\ p.cube
  \/ x.i = 6 /\ x.t = 0 /\ OnVk(p) /\ p.b # 0 /\ p.zc
  \/ x.i = 6 /\ x.t = 1 /\ OnVk(p)
  \/ x.i = 6 /\ x.t = 2

\* What a frame without a picture is: the cleared window.
BlackStore(w) == [Command("store", w, {"color"}, {"color"}) EXCEPT !.val = Black]

\* The preparation of a frame.
Prepared(p, x) ==
  CASE x.t = 0 -> Command("wait", p.w, {}, {"color"})
    [] x.t = 1 -> IF OnVk(p) THEN image_barrier(p.w, "none", "attachment", {}, {"color"})
                             ELSE BlackStore(p.w)
    [] x.t = 2 -> image_barrier(Depth, "none", "depth", {"depth"}, {"depth"})
    [] x.t = 3 -> IF p.b = 0 THEN BlackStore(p.w)
                  ELSE IF p.zc THEN image_barrier(Cam(p.b), "foreign", "readonly", {}, {"frag"})
                  ELSE image_barrier(Upload, UploadOld(p.written), "transfer", {"frag"}, {"transfer"})
    [] x.t = 4 -> [Command("copy", Upload, {"transfer"}, {"transfer"})
                     EXCEPT !.from = StagingOf(x.n % NLanes)]
    [] x.t = 5 -> image_barrier(Upload, "transfer", "readonly", {"transfer"}, {"frag"})

\* Where pass i reads and what it draws to.
First(p) == IF OnVk(p) /\ ~p.zc THEN Upload ELSE Cam(p.b)
\* The image that pass i reads.
ReadBy(p, i) == Source(First(p), i)
\* The image that pass i colors.
DrawnBy(p, i) == IF i = NPass(p) THEN p.w ELSE Tmp((i - 1) % 2)

\* The steps of a pass.
Passed(p, x) ==
  CASE x.t = 0 -> IF x.i = NPass(p) THEN [Command("clear", Depth, {"depth"}, {"depth"})
                                           EXCEPT !.draw = <<x.n, x.i>>]
                  ELSE image_barrier(DrawnBy(p, x.i), "none", "attachment", {"frag"}, {"color"})
    [] x.t = 1 -> [Command("fetch", DrawnBy(p, x.i), {"frag"}, {"frag"})
                     EXCEPT !.from = ReadBy(p, x.i), !.draw = <<x.n, x.i>>]
    [] x.t = 2 -> [Command("store", DrawnBy(p, x.i), {"color"}, {"color"})
                     EXCEPT !.fx = Passes(p.mask)[x.i], !.draw = <<x.n, x.i>>]
    [] x.t = 3 -> IF x.i = NPass(p) THEN [Command("test", Depth, {"depth"}, {"depth"})
                                           EXCEPT !.draw = <<x.n, x.i>>]
                  ELSE image_barrier(DrawnBy(p, x.i), "attachment", "readonly", {"color"}, {"frag"})

\* The end of a frame.
EndedBy(p, x) ==
  CASE x.t = 0 -> image_barrier(Cam(p.b), "readonly", "foreign", {"frag"}, {})
    [] x.t = 1 -> image_barrier(p.w, "attachment", "present", {"color"}, {})
    [] x.t = 2 -> End(p.w, p.want, p.b)

\* The command of a name.
Cmd(p, x) ==
  CASE x.i = 0 -> Prepared(p, x)
    [] x.i = 6 -> EndedBy(p, x)
    [] OTHER   -> Passed(p, x)

\* s is the recording, in order, of the commands of the frame that have a name in S.
Lists(s, p, S) ==
  \E lab \in [1 .. Len(s) -> S] :
    /\ \A k, l \in 1 .. Len(s) : k < l => Less(lab[k], lab[l])
    /\ \A x \in S : \E k \in 1 .. Len(s) : lab[k] = x
    /\ \A k \in 1 .. Len(s) : s[k] = Cmd(p, lab[k])

\* The same of a sequence.
Records(s, p, S) == (\E C : s \in Seq(C)) /\ Lists(s, p, S)

\* Nothing is the recording of no names.
LEMMA RecordsNone == ASSUME NEW p PROVE Records(<<>>, p, {})
<1> DEFINE f == [k \in 1 .. 0 |-> 0]
<1>1. f \in [1 .. Len(<<>>) -> {}]
  OBVIOUS
<1> HIDE DEF f
<1>2. Lists(<<>>, p, {})
  BY <1>1 DEF Lists
<1>3. <<>> \in Seq({})
  OBVIOUS
<1> QED
  BY <1>2, <1>3, Zenon DEF Records

\* One command is the recording of its name.
LEMMA RecordsOne ==
  ASSUME NEW p, NEW x, NEW c, c = Cmd(p, x)
  PROVE  Records(<<c>>, p, {x})
<1> DEFINE f == [k \in 1 .. 1 |-> x]
<1>1. f \in [1 .. Len(<<c>>) -> {x}] /\ Len(<<c>>) = 1 /\ f[1] = x /\ <<c>>[1] = c
  OBVIOUS
<1>2. \A k, l \in 1 .. 1 : ~(k < l)
  OBVIOUS
<1>3. \A k \in 1 .. 1 : k = 1
  OBVIOUS
<1> HIDE DEF f
<1>4. Lists(<<c>>, p, {x})
  BY <1>1, <1>2, <1>3 DEF Lists
<1>5. <<c>> \in Seq({c})
  OBVIOUS
<1> QED
  BY <1>4, <1>5, Zenon DEF Records

\* Two recordings, the names of one before those of the other, make one.
LEMMA ListsAfter ==
  ASSUME NEW p, NEW C, NEW s \in Seq(C), NEW t \in Seq(C), NEW S, NEW T,
         Lists(s, p, S), Lists(t, p, T), \A x \in S, y \in T : Less(x, y)
  PROVE  Lists(s \o t, p, S \cup T)
<1>m. PICK m \in Nat : m = Len(s)
  OBVIOUS
<1>n. PICK n \in Nat : n = Len(t)
  OBVIOUS
<1>u. PICK u : u = s \o t
  OBVIOUS
<1>1. /\ m = Len(s) /\ n = Len(t) /\ Len(u) = m + n
      /\ \A k \in 1 .. m : u[k] = s[k]
      /\ \A k \in 1 .. n : u[m + k] = t[k]
  <2>1. /\ Len(u) = m + n
        /\ \A k \in 1 .. m : u[k] = s[k]
        /\ \A k \in m + 1 .. m + n : u[k] = t[k - m]
    BY <1>m, <1>n, <1>u
  <2>2. \A k \in 1 .. n : m + k \in m + 1 .. m + n /\ (m + k) - m = k
    OBVIOUS
  <2> QED
    BY <1>m, <1>n, <2>1, <2>2
<1>2. PICK a \in [1 .. m -> S] :
        /\ \A k, l \in 1 .. m : k < l => Less(a[k], a[l])
        /\ \A x \in S : \E k \in 1 .. m : a[k] = x
        /\ \A k \in 1 .. m : s[k] = Cmd(p, a[k])
  BY <1>1 DEF Lists
<1>3. PICK b \in [1 .. n -> T] :
        /\ \A k, l \in 1 .. n : k < l => Less(b[k], b[l])
        /\ \A x \in T : \E k \in 1 .. n : b[k] = x
        /\ \A k \in 1 .. n : t[k] = Cmd(p, b[k])
  BY <1>1 DEF Lists
<1> DEFINE f == [k \in 1 .. m + n |-> IF k <= m THEN a[k] ELSE b[k - m]]
<1>4. \A k \in 1 .. m : f[k] = a[k] /\ k \in 1 .. m + n
  BY <1>1
<1>5. \A k \in 1 .. n : f[m + k] = b[k] /\ m + k \in 1 .. m + n
  BY <1>1
<1>6. \A k \in 1 .. m + n : k \in 1 .. m \/ \E l \in 1 .. n : k = m + l
  <2>1. \A k \in 1 .. m + n : k \in 1 .. m \/ (k - m \in 1 .. n /\ k = m + (k - m))
    BY <1>1
  <2> QED
    BY <2>1
<1>7. f \in [1 .. m + n -> S \cup T]
  <2>1. \A k \in 1 .. m + n : f[k] \in S \cup T
    BY <1>2, <1>3, <1>4, <1>5, <1>6
  <2> QED
    BY <2>1
<1> HIDE DEF f
<1>8. ASSUME NEW k \in 1 .. m + n, NEW l \in 1 .. m + n, k < l
      PROVE  Less(f[k], f[l])
  <2>1. CASE l \in 1 .. m
    <3>1. k \in 1 .. m
      BY <1>8, <2>1
    <3> QED
      BY <1>2, <1>4, <1>8, <2>1, <3>1
  <2>2. CASE k \in 1 .. m /\ l \notin 1 .. m
    <3>1. PICK j \in 1 .. n : l = m + j
      BY <1>6, <2>2
    <3> QED
      BY <1>2, <1>3, <1>4, <1>5, <2>2, <3>1
  <2>3. CASE k \notin 1 .. m
    <3>1. PICK j \in 1 .. n : k = m + j
      BY <1>6, <2>3
    <3>2. l \notin 1 .. m
      BY <1>8, <2>3
    <3>3. PICK h \in 1 .. n : l = m + h
      BY <1>6, <3>2
    <3>4. j < h
      BY <1>8, <3>1, <3>3
    <3> QED
      BY <1>3, <1>5, <3>1, <3>3, <3>4
  <2> QED
    BY <2>1, <2>2, <2>3
<1>9. \A x \in S \cup T : \E k \in 1 .. m + n : f[k] = x
  <2>1. \A x \in S : \E k \in 1 .. m + n : f[k] = x
    BY <1>2, <1>4
  <2>2. ASSUME NEW x \in T PROVE \E k \in 1 .. m + n : f[k] = x
    <3>1. PICK k \in 1 .. n : b[k] = x
      BY <1>3
    <3> QED
      BY <1>5, <3>1
  <2> QED
    BY <2>1, <2>2
<1>10. ASSUME NEW k \in 1 .. m + n PROVE u[k] = Cmd(p, f[k])
  <2>1. CASE k \in 1 .. m
    BY <1>1, <1>2, <1>4, <2>1
  <2>2. ASSUME NEW j \in 1 .. n, k = m + j PROVE u[k] = Cmd(p, f[k])
    BY <1>1, <1>3, <1>5, <2>2
  <2> QED
    BY <1>6, <2>1, <2>2
<1>11. PICK N : N = m + n
  OBVIOUS
<1>12. /\ f \in [1 .. N -> S \cup T]
       /\ \A k, l \in 1 .. N : k < l => Less(f[k], f[l])
       /\ \A x \in S \cup T : \E k \in 1 .. N : f[k] = x
       /\ \A k \in 1 .. N : u[k] = Cmd(p, f[k])
  BY <1>7, <1>8, <1>9, <1>10, <1>11
<1>13. N = Len(u)
  BY <1>1, <1>11
<1>14. Lists(u, p, S \cup T)
  BY <1>12, <1>13, Zenon DEF Lists
<1> QED
  BY <1>u, <1>14, Zenon


\* The same of sequences.
LEMMA RecordsAfter ==
  ASSUME NEW p, NEW s, NEW t, NEW S, NEW T,
         Records(s, p, S), Records(t, p, T), \A x \in S, y \in T : Less(x, y)
  PROVE  Records(s \o t, p, S \cup T)
<1>1. PICK A, B : s \in Seq(A) /\ t \in Seq(B)
  BY DEF Records
<1>2. s \in Seq(A \cup B) /\ t \in Seq(A \cup B)
  BY <1>1
<1>3. Lists(s, p, S) /\ Lists(t, p, T)
  BY DEF Records
<1>4. Lists(s \o t, p, S \cup T)
  BY <1>2, <1>3, ListsAfter
<1>5. s \o t \in Seq(A \cup B)
  BY <1>2
<1> QED
  BY <1>4, <1>5, Zenon DEF Records

\* FlattenSeq of at most five sequences.
LEMMA FlattenFew ==
  ASSUME NEW C, NEW k \in 1 .. 5, NEW g \in [1 .. k -> Seq(C)]
  PROVE  /\ k = 1 => FlattenSeq(g) = g[1]
         /\ k = 2 => FlattenSeq(g) = g[1] \o g[2]
         /\ k = 3 => FlattenSeq(g) = (g[1] \o g[2]) \o g[3]
         /\ k = 4 => FlattenSeq(g) = ((g[1] \o g[2]) \o g[3]) \o g[4]
         /\ k = 5 => FlattenSeq(g) = (((g[1] \o g[2]) \o g[3]) \o g[4]) \o g[5]
<1> DEFINE Is(f) == f = [i \in 1 .. k |-> IF i = 1 THEN g[i] ELSE f[i - 1] \o g[i]]
<1>1. Len(g) = k
  OBVIOUS
<1>2. \E f : Is(f)
  <2> DEFINE a == g[1]
             b == a \o g[2]
             c == b \o g[3]
             d == c \o g[4]
             e == d \o g[5]
             h == [i \in 1 .. k |->
                     CASE i = 1 -> a [] i = 2 -> b [] i = 3 -> c [] i = 4 -> d [] i = 5 -> e]
  <2>1. \A i \in 1 .. k : i \in {1, 2, 3, 4, 5}
    OBVIOUS
  <2>2. \A i \in 1 .. k : h[i] = IF i = 1 THEN g[i] ELSE h[i - 1] \o g[i]
    BY <2>1
  <2>3. h = [i \in 1 .. k |-> IF i = 1 THEN g[i] ELSE h[i - 1] \o g[i]]
    <3> HIDE DEF h
    <3>1. h = [i \in 1 .. k |-> h[i]]
      BY DEF h
    <3> QED
      BY <2>2, <3>1
  <2> HIDE DEF h
  <2>4. Is(h)
    BY <2>3
  <2> QED
    BY <2>4
<1> DEFINE f == CHOOSE f : Is(f)
<1>3. Is(f)
  BY <1>2
<1>4. FlattenSeq(g) = f[k]
  BY <1>1 DEF FlattenSeq
<1> DEFINE Cat(u, v) == u \o v
<1> HIDE DEF f
<1>5. \A i \in 1 .. k : f[i] = IF i = 1 THEN g[i] ELSE Cat(f[i - 1], g[i])
  BY <1>3
<1> HIDE DEF Is, Cat
<1>6. /\ f[1] = g[1]
      /\ k > 1 => f[2] = Cat(g[1], g[2])
      /\ k > 2 => f[3] = Cat(Cat(g[1], g[2]), g[3])
      /\ k > 3 => f[4] = Cat(Cat(Cat(g[1], g[2]), g[3]), g[4])
      /\ k > 4 => f[5] = Cat(Cat(Cat(Cat(g[1], g[2]), g[3]), g[4]), g[5])
  <2>1. f[1] = g[1]
    BY <1>5
  <2>2. k > 1 => f[2] = Cat(f[1], g[2])
    BY <1>5
  <2>3. k > 2 => f[3] = Cat(f[2], g[3])
    BY <1>5
  <2>4. k > 3 => f[4] = Cat(f[3], g[4])
    BY <1>5
  <2>5. k > 4 => f[5] = Cat(f[4], g[5])
    BY <1>5
  <2> QED
    BY <2>1, <2>2, <2>3, <2>4, <2>5
<1>7. /\ k = 1 => FlattenSeq(g) = g[1]
      /\ k = 2 => FlattenSeq(g) = Cat(g[1], g[2])
      /\ k = 3 => FlattenSeq(g) = Cat(Cat(g[1], g[2]), g[3])
      /\ k = 4 => FlattenSeq(g) = Cat(Cat(Cat(g[1], g[2]), g[3]), g[4])
      /\ k = 5 => FlattenSeq(g) = Cat(Cat(Cat(Cat(g[1], g[2]), g[3]), g[4]), g[5])
  BY <1>4, <1>6
<1> QED
  BY <1>7, Zenon DEF Cat

\* The names of the first k sequences.
UpTo(S, k) == UNION {S[i] : i \in 1 .. k}

\* A flattened sequence of recordings, each before the next, is the recording of them all.
LEMMA RecordsFlat ==
  ASSUME NEW p, NEW k \in 0 .. 5, NEW G, NEW g \in [1 .. k -> G], NEW S,
         \A i \in 1 .. k : Records(g[i], p, S[i]),
         \A i, j \in 1 .. k : i < j => \A x \in S[i], y \in S[j] : Less(x, y)
  PROVE  Records(FlattenSeq(g), p, UpTo(S, k))
<1> DEFINE U(n) == UpTo(S, n)
<1>1. CASE k = 0
  <2>1. g = <<>> /\ Len(g) = 0 /\ U(k) = {}
    BY <1>1 DEF UpTo
  <2>2. FlattenSeq(g) = <<>>
    BY <2>1 DEF FlattenSeq
  <2> HIDE DEF U
  <2>3. Records(FlattenSeq(g), p, U(k))
    BY <2>1, <2>2, RecordsNone
  <2> QED
    BY <2>3 DEF U
<1>2. CASE k # 0
  <2>1. k \in 1 .. 5
    BY <1>2
  <2>2. \E C : g \in [1 .. k -> Seq(C)]
    <3>1. \A i \in 1 .. k : \E C : g[i] \in Seq(C)
      BY DEF Records
    <3> DEFINE D(i) == CHOOSE C : g[i] \in Seq(C)
               E == UNION {D(i) : i \in 1 .. k}
    <3>2. \A i \in 1 .. k : g[i] \in Seq(D(i)) /\ D(i) \subseteq E
      BY <3>1
    <3>3. \A i \in 1 .. k : g[i] \in Seq(E)
      <4> HIDE DEF D, E
      <4>1. \A A, B : A \subseteq B => Seq(A) \subseteq Seq(B)
        OBVIOUS
      <4> QED
        BY <3>2, <4>1
    <3> HIDE DEF D, E
    <3> QED
      BY <3>3
  <2>3. Records(g[1], p, U(1))
    <3>1. U(1) = S[1] /\ 1 \in 1 .. k
      BY <2>1 DEF UpTo
    <3> QED
      BY <3>1
  <2> DEFINE Next1(u, n) == u \o g[n]
  <2>4. \A u, n : n \in 1 .. k - 1 /\ Records(u, p, U(n)) => Records(Next1(u, n + 1), p, U(n + 1))
    <3> SUFFICES ASSUME NEW u, NEW n \in 1 .. k - 1, Records(u, p, U(n))
                 PROVE  Records(u \o g[n + 1], p, U(n + 1))
      OBVIOUS
    <3>1. n + 1 \in 1 .. k /\ (\A i \in 1 .. n : i \in 1 .. k /\ i < n + 1)
      BY <2>1
    <3>2. U(n + 1) = U(n) \cup S[n + 1]
      <4>1. 1 .. n + 1 = (1 .. n) \cup {n + 1}
        BY <3>1
      <4> QED
        BY <4>1 DEF UpTo
    <3>3. \A x \in U(n), y \in S[n + 1] : Less(x, y)
      BY <3>1 DEF UpTo
    <3>4. Records(g[n + 1], p, S[n + 1])
      BY <3>1
    <3> HIDE DEF U
    <3>5. Records(u \o g[n + 1], p, U(n) \cup S[n + 1])
      BY <3>3, <3>4, RecordsAfter
    <3> QED
      BY <3>2, <3>5
  <2>5. /\ k = 1 => FlattenSeq(g) = g[1]
        /\ k = 2 => FlattenSeq(g) = Next1(g[1], 2)
        /\ k = 3 => FlattenSeq(g) = Next1(Next1(g[1], 2), 3)
        /\ k = 4 => FlattenSeq(g) = Next1(Next1(Next1(g[1], 2), 3), 4)
        /\ k = 5 => FlattenSeq(g) = Next1(Next1(Next1(Next1(g[1], 2), 3), 4), 5)
    BY <2>1, <2>2, FlattenFew, Zenon
  <2> HIDE DEF U, Next1
  <2>6. k \in {1, 2, 3, 4, 5}
    BY <2>1
  <2>7. CASE k = 1
    BY <2>3, <2>5, <2>7 DEF U
  <2>8. k > 1 => Records(Next1(g[1], 2), p, U(2))
    <3>1. k > 1 => 1 \in 1 .. k - 1 /\ 1 + 1 = 2 /\ Records(g[1], p, U(1))
      BY <2>1, <2>3
    <3> QED
      BY <2>4, <3>1
  <2>9. k > 2 => Records(Next1(Next1(g[1], 2), 3), p, U(3))
    <3>1. k > 2 => 2 \in 1 .. k - 1 /\ 2 + 1 = 3 /\ Records(Next1(g[1], 2), p, U(2))
      BY <2>1, <2>8
    <3> QED
      BY <2>4, <3>1
  <2>10. k > 3 => Records(Next1(Next1(Next1(g[1], 2), 3), 4), p, U(4))
    <3>1. k > 3 => 3 \in 1 .. k - 1 /\ 3 + 1 = 4 /\ Records(Next1(Next1(g[1], 2), 3), p, U(3))
      BY <2>1, <2>9
    <3> QED
      BY <2>4, <3>1
  <2>12. k > 4 => Records(Next1(Next1(Next1(Next1(g[1], 2), 3), 4), 5), p, U(5))
    <3>1. k > 4 => /\ 4 \in 1 .. k - 1 /\ 4 + 1 = 5
                   /\ Records(Next1(Next1(Next1(g[1], 2), 3), 4), p, U(4))
      BY <2>1, <2>10
    <3> QED
      BY <2>4, <3>1
  <2>11. Records(FlattenSeq(g), p, U(k))
    BY <2>3, <2>5, <2>6, <2>8, <2>9, <2>10, <2>12
  <2> QED
    BY <2>11 DEF U
<1> QED
  BY <1>1, <1>2

------------------------------------------------------------------------------
(* What a frame's recording is *)

\* What a pass can be.
PassNames == {"none", "mosaic", "blurH", "blurV", "sobel", "thermal"}

\* effect_chain_passes gives one to five passes.
LEMMA PassesAre ==
  ASSUME NEW mask \in SUBSET Effects
  PROVE  Passes(mask) \in Seq(PassNames) /\ Len(Passes(mask)) \in 1 .. 5
<1> DEFINE A == If("mosaic" \in mask, <<"mosaic">>)
           B == If("blur" \in mask, <<"blurH", "blurV">>)
           C == If("sobel" \in mask, <<"sobel">>)
           D == If("thermal" \in mask, <<"thermal">>)
           Short(s) == s \in Seq(PassNames) /\ Len(s) \in {0, 1, 2}
           One(s) == s \in Seq(PassNames) /\ Len(s) \in {0, 1}
<1>1. One(A) /\ Short(B) /\ One(C) /\ One(D)
  <2>1. /\ A \in {<<"mosaic">>, <<>>} /\ B \in {<<"blurH", "blurV">>, <<>>}
        /\ C \in {<<"sobel">>, <<>>} /\ D \in {<<"thermal">>, <<>>}
    BY DEF If
  <2> HIDE DEF A, B, C, D
  <2>2. One(<<>>) /\ Short(<<>>) /\ One(<<"mosaic">>) /\ One(<<"sobel">>) /\ One(<<"thermal">>)
    BY DEF PassNames
  <2>3. Short(<<"blurH", "blurV">>)
    BY DEF PassNames
  <2> HIDE DEF One, Short
  <2> QED
    BY <2>1, <2>2, <2>3
<1> HIDE DEF A, B, C, D
<1>2. PICK list : list = A \o B \o C \o D
  OBVIOUS
<1>3. list \in Seq(PassNames) /\ Len(list) \in 0 .. 5
  <2>1. A \o B \in Seq(PassNames) /\ Len(A \o B) = Len(A) + Len(B)
    BY <1>1
  <2>2. (A \o B) \o C \in Seq(PassNames) /\ Len((A \o B) \o C) = Len(A \o B) + Len(C)
    BY <1>1, <2>1
  <2>3. ((A \o B) \o C) \o D \in Seq(PassNames)
        /\ Len(((A \o B) \o C) \o D) = Len((A \o B) \o C) + Len(D)
    BY <1>1, <2>2
  <2>4. PICK a, b, c, d : a = Len(A) /\ b = Len(B) /\ c = Len(C) /\ d = Len(D)
    OBVIOUS
  <2>5. a \in {0, 1} /\ b \in {0, 1, 2} /\ c \in {0, 1} /\ d \in {0, 1}
    BY <1>1, <2>4
  <2>6. list \in Seq(PassNames) /\ Len(list) = a + b + c + d
    BY <1>2, <2>1, <2>2, <2>3, <2>4
  <2> QED
    BY <2>5, <2>6
<1>4. list # <<>> => Len(list) # 0
  BY <1>3
<1>5. Passes(mask) = IF list = <<>> THEN <<"none">> ELSE list
  BY <1>2, Zenon DEF Passes, A, B, C, D
<1>6. One(<<"none">>) /\ Len(<<"none">>) = 1
  BY DEF PassNames
<1> QED
  <2>1. CASE list = <<>>
    <3>1. Passes(mask) = <<"none">>
      BY <1>5, <2>1
    <3>2. Passes(mask) \in Seq(PassNames) /\ Len(Passes(mask)) = 1
      BY <1>6, <3>1, Zenon
    <3> QED
      BY <3>2
  <2>2. CASE list # <<>>
    <3>1. Passes(mask) = list
      BY <1>5, <2>2
    <3> QED
      BY <1>3, <1>4, <2>2, <3>1
  <2> QED
    BY <2>1, <2>2

\* The steps T of stage i of frame n.
Name(n, i, T) == {At(n, i, t) : t \in T}

\* Commands one after the other.
LEMMA PairIs == ASSUME NEW c, NEW d PROVE <<c>> \o <<d>> = <<c, d>>
<1>1. PICK C : C = {c, d}
  OBVIOUS
<1>2. c \in C /\ d \in C
  BY <1>1
<1>3. PICK s : s = <<c>> \o <<d>>
  OBVIOUS
<1>4. s \in Seq(C) /\ Len(s) = 2 /\ s[1] = c /\ s[2] = d
  BY <1>2, <1>3
<1>5. s = <<c, d>>
  BY <1>2, <1>4
<1> QED
  BY <1>3, <1>5, Zenon

\* A pair and one more.
LEMMA TripleIs == ASSUME NEW c, NEW d, NEW e PROVE <<c, d>> \o <<e>> = <<c, d, e>>
<1>1. PICK C : C = {c, d, e}
  OBVIOUS
<1>2. c \in C /\ d \in C /\ e \in C
  BY <1>1
<1>3. PICK s : s = <<c, d>> \o <<e>>
  OBVIOUS
<1>4. s \in Seq(C) /\ Len(s) = 3 /\ s[1] = c /\ s[2] = d /\ s[3] = e
  BY <1>2, <1>3
<1>5. s = <<c, d, e>>
  BY <1>2, <1>4
<1> QED
  BY <1>3, <1>5, Zenon

\* Appending nothing.
LEMMA NothingAfter == ASSUME NEW s, \E C : s \in Seq(C) PROVE s \o <<>> = s
OBVIOUS

\* Two commands.
LEMMA RecordsTwo ==
  ASSUME NEW p, NEW n, NEW i, NEW t \in Nat, NEW u \in Nat, t < u, NEW c, NEW d,
         c = Cmd(p, At(n, i, t)), d = Cmd(p, At(n, i, u))
  PROVE  Records(<<c, d>>, p, Name(n, i, {t, u}))
<1>1. Records(<<c>>, p, {At(n, i, t)}) /\ Records(<<d>>, p, {At(n, i, u)})
  BY RecordsOne
<1>2. Less(At(n, i, t), At(n, i, u))
  BY DEF Less, At
<1>3. Records(<<c>> \o <<d>>, p, {At(n, i, t)} \cup {At(n, i, u)})
  BY <1>1, <1>2, RecordsAfter
<1>4. {At(n, i, t)} \cup {At(n, i, u)} = Name(n, i, {t, u})
  BY DEF Name
<1>5. <<c>> \o <<d>> = <<c, d>>
  BY PairIs
<1> QED
  BY <1>3, <1>4, <1>5

\* A frame has one to five passes.
LEMMA PassCount == ASSUME NEW p, Settings(p) PROVE NPass(p) \in 1 .. 5
BY PassesAre DEF Settings, NPass

\* The two halves of a pass.
LEMMA RecordsDraw ==
  ASSUME NEW p, Settings(p), NEW n, NEW i \in 1 .. NPass(p)
  PROVE  Records(draw_fullscreen(<<n, i>>, ReadBy(p, i), DrawnBy(p, i), Passes(p.mask)[i]), p,
                 Name(n, i, {1, 2}))
<1>1. i \in Nat /\ i # 0 /\ i # 6
  BY PassCount
<1>2. PICK c, e : c = Cmd(p, At(n, i, 1)) /\ e = Cmd(p, At(n, i, 2))
  OBVIOUS
<1>3. draw_fullscreen(<<n, i>>, ReadBy(p, i), DrawnBy(p, i), Passes(p.mask)[i]) = <<c, e>>
  BY <1>1, <1>2 DEF Cmd, At, Passed, draw_fullscreen
<1> QED
  BY <1>2, <1>3, RecordsTwo

\* A draw between two commands of its own.
LEMMA RecordsAround ==
  ASSUME NEW p, NEW n, NEW i, NEW a, NEW z, NEW f, Records(f, p, Name(n, i, {1, 2})),
         a = Cmd(p, At(n, i, 0)), z = Cmd(p, At(n, i, 3))
  PROVE  Records((<<a>> \o f) \o <<z>>, p, Name(n, i, 0 .. 3))
<1>1. Records(<<a>>, p, {At(n, i, 0)}) /\ Records(<<z>>, p, {At(n, i, 3)})
  BY RecordsOne
<1>2. Records(<<a>> \o f, p, {At(n, i, 0)} \cup Name(n, i, {1, 2}))
  <2>1. \A x \in {At(n, i, 0)}, y \in Name(n, i, {1, 2}) : Less(x, y)
    BY DEF Less, At, Name
  <2> QED
    BY <1>1, <2>1, RecordsAfter
<1>3. Records((<<a>> \o f) \o <<z>>, p, ({At(n, i, 0)} \cup Name(n, i, {1, 2})) \cup {At(n, i, 3)})
  <2>1. \A x \in {At(n, i, 0)} \cup Name(n, i, {1, 2}), y \in {At(n, i, 3)} : Less(x, y)
    BY DEF Less, At, Name
  <2> QED
    BY <1>1, <1>2, <2>1, RecordsAfter
<1>4. ({At(n, i, 0)} \cup Name(n, i, {1, 2})) \cup {At(n, i, 3)} = Name(n, i, 0 .. 3)
  <2>1. 0 .. 3 = {0, 1, 2, 3}
    OBVIOUS
  <2> QED
    BY <2>1 DEF Name
<1> QED
  BY <1>3, <1>4

\* A pass into a scratch image.
LEMMA RecordsScratch ==
  ASSUME NEW p, Settings(p), NEW n, NEW i \in 1 .. NPass(p) - 1
  PROVE  Records(ScratchPass(<<n, i>>, ReadBy(p, i), i, Passes(p.mask)[i]), p, Name(n, i, 0 .. 3))
<1>1. /\ i \in Nat /\ i # 0 /\ i # 6 /\ i # NPass(p) /\ i \in 1 .. NPass(p)
      /\ DrawnBy(p, i) = Tmp((i - 1) % 2)
  BY PassCount DEF DrawnBy
<1> DEFINE d == Tmp((i - 1) % 2)
           a == image_barrier(d, "none", "attachment", {"frag"}, {"color"})
           z == image_barrier(d, "attachment", "readonly", {"color"}, {"frag"})
           f == draw_fullscreen(<<n, i>>, ReadBy(p, i), d, Passes(p.mask)[i])
<1>2. a = Cmd(p, At(n, i, 0)) /\ z = Cmd(p, At(n, i, 3))
  BY <1>1 DEF Cmd, At, Passed
<1>3. Records(f, p, Name(n, i, {1, 2}))
  BY <1>1, RecordsDraw
<1>4. ScratchPass(<<n, i>>, ReadBy(p, i), i, Passes(p.mask)[i]) = (<<a>> \o f) \o <<z>>
  BY Zenon DEF ScratchPass, a, f, z
<1> HIDE DEF a, z, f
<1> QED
  BY <1>2, <1>3, <1>4, RecordsAround

\* The pass into the window, with or without the cube.
LastSteps(p) == IF p.cube THEN 0 .. 3 ELSE {1, 2}
\* The last pass, with the cube or without.
LastDraw(p, n) ==
  LET i == NPass(p) IN
  IF p.cube THEN draw_cube(<<n, i>>, ReadBy(p, i), p.w, Passes(p.mask)[i])
            ELSE draw_fullscreen(<<n, i>>, ReadBy(p, i), p.w, Passes(p.mask)[i])

\* The last pass is recorded under the names of its steps.
LEMMA RecordsLast ==
  ASSUME NEW p, Settings(p), NEW n
  PROVE  Records(LastDraw(p, n), p, Name(n, NPass(p), LastSteps(p)))
<1>1. PICK i : i = NPass(p)
  OBVIOUS
<1>2. i \in Nat /\ i # 0 /\ i # 6 /\ i \in 1 .. NPass(p) /\ DrawnBy(p, i) = p.w
  BY <1>1, PassCount DEF DrawnBy
<1> DEFINE f == draw_fullscreen(<<n, i>>, ReadBy(p, i), p.w, Passes(p.mask)[i])
           a == [Command("clear", Depth, {"depth"}, {"depth"}) EXCEPT !.draw = <<n, i>>]
           z == [Command("test", Depth, {"depth"}, {"depth"}) EXCEPT !.draw = <<n, i>>]
<1>3. a = Cmd(p, At(n, i, 0)) /\ z = Cmd(p, At(n, i, 3))
  BY <1>1, <1>2 DEF Cmd, At, Passed
<1>4. Records(f, p, Name(n, i, {1, 2}))
  BY <1>2, RecordsDraw
<1>5. CASE p.cube
  <2>1. LastDraw(p, n) = (<<a>> \o f) \o <<z>>
    BY <1>1, <1>5, Zenon DEF LastDraw, draw_cube, a, f, z
  <2> HIDE DEF a, z, f
  <2> QED
    BY <1>1, <1>3, <1>4, <1>5, <2>1, RecordsAround DEF LastSteps
<1>6. CASE ~p.cube
  <2>1. LastDraw(p, n) = f
    BY <1>1, <1>6 DEF LastDraw
  <2> HIDE DEF f
  <2> QED
    BY <1>1, <1>4, <1>6, <2>1 DEF LastSteps
<1> QED
  BY <1>5, <1>6

\* The passes of stages 1 to k.
Stages(n, k, T) == UNION {Name(n, i, T) : i \in 1 .. k}

\* ChainInto is recorded under the names of the stages 1 to NPass.
LEMMA RecordsChain ==
  ASSUME NEW p, Settings(p), NEW n \in Nat, OnVk(p), p.zc = zero_copy
  PROVE  Records(ChainInto(p.w, p.b, p.mask, p.cube, n), p,
                 Stages(n, NPass(p) - 1, 0 .. 3) \cup Name(n, NPass(p), LastSteps(p)))
<1> DEFINE k == NPass(p) - 1
           g == [i \in 1 .. k |-> ScratchPass(<<n, i>>, ReadBy(p, i), i, Passes(p.mask)[i])]
           S == [i \in 1 .. k |-> Name(n, i, 0 .. 3)]
<1>1. k \in 0 .. 5 /\ \A i \in 1 .. k : i \in Nat /\ i < NPass(p)
  BY PassCount
<1>2. ChainInto(p.w, p.b, p.mask, p.cube, n) = FlattenSeq(g) \o LastDraw(p, n)
  <2>1. \A i : Source(CameraImage(p.b), i) = ReadBy(p, i)
    BY DEF CameraImage, ReadBy, First
  <2> DEFINE last == Len(Passes(p.mask))
             h == [i \in 1 .. last - 1 |->
                     ScratchPass(<<n, i>>, Source(CameraImage(p.b), i), i, Passes(p.mask)[i])]
             w == IF p.cube
                    THEN draw_cube(<<n, last>>, Source(CameraImage(p.b), last), p.w,
                                   Passes(p.mask)[last])
                    ELSE draw_fullscreen(<<n, last>>, Source(CameraImage(p.b), last), p.w,
                                         Passes(p.mask)[last])
  <2>2. h = g
    BY <2>1 DEF NPass
  <2>3. w = LastDraw(p, n)
    BY <2>1 DEF LastDraw, NPass
  <2>4. ChainInto(p.w, p.b, p.mask, p.cube, n) = FlattenSeq(h) \o w
    BY Zenon DEF ChainInto
  <2> HIDE DEF h, w, g
  <2> QED
    BY <2>2, <2>3, <2>4, Zenon
<1>3. /\ g \in [1 .. k -> {g[i] : i \in 1 .. k}]
      /\ \A i \in 1 .. k : Records(g[i], p, S[i])
  BY RecordsScratch
<1>4. \A i, j \in 1 .. k : i < j => \A x \in S[i], y \in S[j] : Less(x, y)
  BY DEF Name, At, Less
<1>5. Records(FlattenSeq(g), p, UpTo(S, k))
  <2> HIDE DEF g, S, k
  <2> QED
    BY <1>1, <1>3, <1>4, RecordsFlat
<1>6. UpTo(S, k) = Stages(n, k, 0 .. 3)
  BY DEF Stages, UpTo
<1>7. \A x \in Stages(n, k, 0 .. 3), y \in Name(n, NPass(p), LastSteps(p)) : Less(x, y)
  BY <1>1, PassCount DEF Stages, Name, At, Less
<1>8. Records(LastDraw(p, n), p, Name(n, NPass(p), LastSteps(p)))
  BY RecordsLast
<1> HIDE DEF g, S, k
<1>9. Records(FlattenSeq(g) \o LastDraw(p, n), p,
              Stages(n, k, 0 .. 3) \cup Name(n, NPass(p), LastSteps(p)))
  BY <1>5, <1>6, <1>7, <1>8, RecordsAfter
<1> QED
  BY <1>2, <1>9 DEF k

\* The names of a frame.
Names(p, n) == {x \in Labels : x.n = n /\ Has(p, x)}

\* cam_record without a picture, with an imported one, with a copied one.
LEMMA RecordsCamera ==
  ASSUME NEW p, Settings(p), NEW n \in Nat, OnVk(p), p.zc = zero_copy,
         p.written = fallback_image_written
  PROVE  Records(CamRecord(p.w, p.b, p.mask, p.cube, n), p,
                 {x \in Names(p, n) : x.i \in 1 .. 5 \/ (x.i = 0 /\ x.t >= 3) \/ (x.i = 6 /\ x.t = 0)})
<1> DEFINE C == Stages(n, NPass(p) - 1, 0 .. 3) \cup Name(n, NPass(p), LastSteps(p))
           N == {x \in Names(p, n) : x.i \in 1 .. 5 \/ (x.i = 0 /\ x.t >= 3) \/ (x.i = 6 /\ x.t = 0)}
<1>0. NPass(p) \in 1 .. 5 /\ p.b \in Nat /\ p.zc \in BOOLEAN
  BY PassCount DEF Settings
<1>1. Records(ChainInto(p.w, p.b, p.mask, p.cube, n), p, C)
  BY RecordsChain
<1>2. \A x \in C : x.n = n /\ x.i \in 1 .. 5
  BY <1>0 DEF Stages, Name, At
<1>3. p.b # 0 => C = {x \in Names(p, n) : x.i \in 1 .. 5}
  <2> SUFFICES ASSUME p.b # 0 PROVE C = {x \in Names(p, n) : x.i \in 1 .. 5}
    OBVIOUS
  <2>1. Drawn(p) /\ OnVk(p)
    BY DEF Drawn, OnVk
  <2>2. ASSUME NEW x \in C PROVE x \in Names(p, n) /\ x.i \in 1 .. 5
    <3>1. CASE x \in Stages(n, NPass(p) - 1, 0 .. 3)
      <4>1. PICK i \in 1 .. NPass(p) - 1, t \in 0 .. 3 : x = At(n, i, t)
        BY <3>1 DEF Stages, Name
      <4>2. x \in Labels /\ x.n = n /\ x.i = i /\ x.t = t
        BY <1>0, <4>1 DEF Labels, At
      <4> QED
        BY <1>0, <2>1, <4>2 DEF Names, Has
    <3>2. CASE x \in Name(n, NPass(p), LastSteps(p))
      <4>1. PICK t \in LastSteps(p) : x = At(n, NPass(p), t)
        BY <3>2 DEF Name
      <4>2. x \in Labels /\ x.n = n /\ x.i = NPass(p) /\ x.t = t
        BY <1>0, <4>1 DEF Labels, At, LastSteps
      <4> QED
        BY <1>0, <2>1, <4>2 DEF Names, Has, LastSteps
    <3> QED
      BY <3>1, <3>2
  <2>3. ASSUME NEW x \in Names(p, n), x.i \in 1 .. 5 PROVE x \in C
    <3>1. x \in Labels /\ x.n = n /\ x = At(n, x.i, x.t) /\ Has(p, x)
      BY DEF Names, Labels, At
    <3>2. CASE x.i = NPass(p)
      <4>1. x.t \in LastSteps(p)
        BY <1>0, <3>1, <3>2 DEF Has, LastSteps
      <4> QED
        BY <3>1, <3>2, <4>1 DEF Name
    <3>3. CASE x.i # NPass(p)
      <4>1. x.i \in 1 .. NPass(p) - 1 /\ x.t \in 0 .. 3
        BY <1>0, <2>3, <3>1, <3>3 DEF Has
      <4> QED
        BY <3>1, <4>1 DEF Stages, Name
    <3> QED
      BY <3>2, <3>3
  <2> HIDE DEF C
  <2> QED
    BY <2>2, <2>3
<1> HIDE DEF C
<1>4. CASE p.b = 0
  <2>1. CamRecord(p.w, p.b, p.mask, p.cube, n) = <<BlackStore(p.w)>>
    BY <1>4 DEF CamRecord, BlackStore
  <2>2. BlackStore(p.w) = Cmd(p, At(n, 0, 3))
    BY <1>4 DEF Cmd, Prepared, At
  <2>3. N = {At(n, 0, 3)}
    BY <1>0, <1>4 DEF Names, Labels, At, Has, Drawn, OnVk
  <2> QED
    BY <2>1, <2>2, <2>3, RecordsOne
<1>5. CASE p.b # 0 /\ p.zc
  <2> DEFINE a == image_barrier(Cam(p.b), "foreign", "readonly", {}, {"frag"})
             z == image_barrier(Cam(p.b), "readonly", "foreign", {"frag"}, {})
  <2>1. CamRecord(p.w, p.b, p.mask, p.cube, n) =
          (<<a>> \o ChainInto(p.w, p.b, p.mask, p.cube, n)) \o <<z>>
    BY <1>5 DEF CamRecord, Acquire, ReleaseToCamera, If
  <2>2. a = Cmd(p, At(n, 0, 3)) /\ z = Cmd(p, At(n, 6, 0))
    BY <1>5 DEF Cmd, Prepared, EndedBy, At
  <2>3. N = ({At(n, 0, 3)} \cup C) \cup {At(n, 6, 0)}
    <3>1. \A x \in N : x \in C \/ x = At(n, 0, 3) \/ x = At(n, 6, 0)
      BY <1>0, <1>3, <1>5 DEF Names, Labels, At, Has, Drawn, OnVk
    <3>2. At(n, 0, 3) \in N /\ At(n, 6, 0) \in N
      BY <1>0, <1>5 DEF Names, Labels, At, Has, Drawn, OnVk
    <3>3. C \subseteq N
      BY <1>3, <1>5
    <3> HIDE DEF N
    <3> QED
      BY <3>1, <3>2, <3>3
  <2> HIDE DEF a, z
  <2>4. Records(<<a>>, p, {At(n, 0, 3)}) /\ Records(<<z>>, p, {At(n, 6, 0)})
    BY <2>2, RecordsOne
  <2>5. Records(<<a>> \o ChainInto(p.w, p.b, p.mask, p.cube, n), p, {At(n, 0, 3)} \cup C)
    <3>1. \A x \in {At(n, 0, 3)}, y \in C : Less(x, y)
      BY <1>2 DEF Less, At
    <3> QED
      BY <1>1, <2>4, <3>1, RecordsAfter
  <2>6. \A x \in {At(n, 0, 3)} \cup C, y \in {At(n, 6, 0)} : Less(x, y)
    BY <1>2 DEF Less, At
  <2>7. Records((<<a>> \o ChainInto(p.w, p.b, p.mask, p.cube, n)) \o <<z>>, p,
                ({At(n, 0, 3)} \cup C) \cup {At(n, 6, 0)})
    BY <2>4, <2>5, <2>6, RecordsAfter
  <2> QED
    BY <2>1, <2>3, <2>7
<1>6. CASE p.b # 0 /\ ~p.zc
  <2> DEFINE a == image_barrier(Upload, UploadOld(p.written), "transfer", {"frag"}, {"transfer"})
             b == [Command("copy", Upload, {"transfer"}, {"transfer"})
                     EXCEPT !.from = StagingOf(n % NLanes)]
             c == image_barrier(Upload, "transfer", "readonly", {"transfer"}, {"frag"})
  <2>1. a = Cmd(p, At(n, 0, 3)) /\ b = Cmd(p, At(n, 0, 4)) /\ c = Cmd(p, At(n, 0, 5))
    BY <1>6 DEF Cmd, Prepared, At
  <2>2. CamRecord(p.w, p.b, p.mask, p.cube, n) =
          (<<a, b, c>> \o ChainInto(p.w, p.b, p.mask, p.cube, n)) \o <<>>
    BY <1>6 DEF CamRecord, CopyStaging, If
  <2>3. N = (Name(n, 0, {3, 4}) \cup {At(n, 0, 5)}) \cup C
    <3>1. \A x \in N : x \in C \/ x \in Name(n, 0, {3, 4}) \/ x = At(n, 0, 5)
      BY <1>0, <1>3, <1>6 DEF Name, Names, Labels, At, Has, Drawn, OnVk
    <3>2. Name(n, 0, {3, 4}) \subseteq N /\ At(n, 0, 5) \in N
      BY <1>0, <1>6 DEF Name, Names, Labels, At, Has, Drawn, OnVk
    <3>3. C \subseteq N
      BY <1>3, <1>6
    <3> HIDE DEF N
    <3> QED
      BY <3>1, <3>2, <3>3
  <2> HIDE DEF a, b, c
  <2>4. Records(<<a, b>>, p, Name(n, 0, {3, 4})) /\ Records(<<c>>, p, {At(n, 0, 5)})
    BY <2>1, RecordsOne, RecordsTwo
  <2>5. Records(<<a, b>> \o <<c>>, p, Name(n, 0, {3, 4}) \cup {At(n, 0, 5)})
    <3>1. \A x \in Name(n, 0, {3, 4}), y \in {At(n, 0, 5)} : Less(x, y)
      BY DEF Less, At, Name
    <3> QED
      BY <2>4, <3>1, RecordsAfter
  <2>6. <<a, b>> \o <<c>> = <<a, b, c>>
    BY TripleIs
  <2>7. Records(<<a, b, c>> \o ChainInto(p.w, p.b, p.mask, p.cube, n), p,
                (Name(n, 0, {3, 4}) \cup {At(n, 0, 5)}) \cup C)
    <3>1. \A x \in Name(n, 0, {3, 4}) \cup {At(n, 0, 5)}, y \in C : Less(x, y)
      BY <1>2 DEF Less, At, Name
    <3> QED
      BY <1>1, <2>5, <2>6, <3>1, RecordsAfter
  <2>8. (<<a, b, c>> \o ChainInto(p.w, p.b, p.mask, p.cube, n)) \o <<>> =
          <<a, b, c>> \o ChainInto(p.w, p.b, p.mask, p.cube, n)
    BY <2>7, NothingAfter DEF Records
  <2> QED
    BY <2>2, <2>3, <2>7, <2>8
<1> QED
  BY <1>4, <1>5, <1>6

\* draw_frame with Vulkan, with the end of the submission.
LEMMA RecordsVk ==
  ASSUME NEW p, Settings(p), NEW n \in Nat, OnVk(p), p.zc = zero_copy,
         p.written = fallback_image_written
  PROVE  /\ Records(FrameCommands(p.w, p.b, p.mask, p.cube, n) \o <<End(p.w, p.want, p.b)>>, p,
                    Names(p, n))
         /\ \E C : FrameCommands(p.w, p.b, p.mask, p.cube, n) \in Seq(C)
<1> DEFINE a == Command("wait", p.w, {}, {"color"})
           b == image_barrier(p.w, "none", "attachment", {}, {"color"})
           c == image_barrier(Depth, "none", "depth", {"depth"}, {"depth"})
           r == CamRecord(p.w, p.b, p.mask, p.cube, n)
           d == image_barrier(p.w, "attachment", "present", {"color"}, {})
           e == End(p.w, p.want, p.b)
           C == {x \in Names(p, n) : x.i \in 1 .. 5 \/ (x.i = 0 /\ x.t >= 3) \/ (x.i = 6 /\ x.t = 0)}
<1>0. NPass(p) \in 1 .. 5 /\ p.b \in Nat /\ p.zc \in BOOLEAN
  BY PassCount DEF Settings
<1>1. FrameCommands(p.w, p.b, p.mask, p.cube, n) = ((<<a, b>> \o <<c>>) \o r) \o <<d>>
  BY Zenon DEF FrameCommands, DepthBarrier, a, b, c, r, d
<1>2. /\ a = Cmd(p, At(n, 0, 0)) /\ b = Cmd(p, At(n, 0, 1)) /\ c = Cmd(p, At(n, 0, 2))
      /\ d = Cmd(p, At(n, 6, 1)) /\ e = Cmd(p, At(n, 6, 2))
  BY DEF Cmd, Prepared, EndedBy, At
<1>3. Records(r, p, C)
  BY RecordsCamera
<1>4. Names(p, n) = (((Name(n, 0, {0, 1}) \cup {At(n, 0, 2)}) \cup C) \cup {At(n, 6, 1)}) \cup {At(n, 6, 2)}
  <2>1. \A x \in Names(p, n) : \/ x \in C \/ x \in Name(n, 0, {0, 1}) \/ x = At(n, 0, 2)
                                \/ x = At(n, 6, 1) \/ x = At(n, 6, 2)
    BY <1>0 DEF Name, Names, Labels, At, Has, Drawn, OnVk
  <2>2. /\ Name(n, 0, {0, 1}) \subseteq Names(p, n) /\ At(n, 0, 2) \in Names(p, n)
        /\ At(n, 6, 1) \in Names(p, n) /\ At(n, 6, 2) \in Names(p, n)
    BY <1>0 DEF Name, Names, Labels, At, Has, Drawn, OnVk
  <2>3. C \subseteq Names(p, n)
    OBVIOUS
  <2> HIDE DEF C
  <2> QED
    BY <2>1, <2>2, <2>3
<1>5. \A x \in C : /\ x.n = n /\ x.i \in 0 .. 6 /\ x.t \in 0 .. 5
                   /\ (x.i = 0 => x.t >= 3) /\ (x.i = 6 => x.t = 0)
  BY DEF Names, Labels
<1> HIDE DEF a, b, c, r, d, e, C
<1>6. Records(<<a, b>> \o <<c>>, p, Name(n, 0, {0, 1}) \cup {At(n, 0, 2)})
  <2>1. \A x \in Name(n, 0, {0, 1}), y \in {At(n, 0, 2)} : Less(x, y)
    BY DEF Less, At, Name
  <2>2. Records(<<a, b>>, p, Name(n, 0, {0, 1})) /\ Records(<<c>>, p, {At(n, 0, 2)})
    BY <1>2, RecordsOne, RecordsTwo
  <2> QED
    BY <2>1, <2>2, RecordsAfter
<1>7. Records((<<a, b>> \o <<c>>) \o r, p, (Name(n, 0, {0, 1}) \cup {At(n, 0, 2)}) \cup C)
  <2>1. \A x \in Name(n, 0, {0, 1}) \cup {At(n, 0, 2)}, y \in C : Less(x, y)
    BY <1>5 DEF Less, At, Name
  <2> QED
    BY <1>3, <1>6, <2>1, RecordsAfter
<1>8. Records(((<<a, b>> \o <<c>>) \o r) \o <<d>>, p,
              ((Name(n, 0, {0, 1}) \cup {At(n, 0, 2)}) \cup C) \cup {At(n, 6, 1)})
  <2>1. \A x \in (Name(n, 0, {0, 1}) \cup {At(n, 0, 2)}) \cup C, y \in {At(n, 6, 1)} : Less(x, y)
    BY <1>5 DEF Less, At, Name
  <2>2. Records(<<d>>, p, {At(n, 6, 1)})
    BY <1>2, RecordsOne
  <2> QED
    BY <1>7, <2>1, <2>2, RecordsAfter
<1>9. Records((((<<a, b>> \o <<c>>) \o r) \o <<d>>) \o <<e>>, p,
              (((Name(n, 0, {0, 1}) \cup {At(n, 0, 2)}) \cup C) \cup {At(n, 6, 1)}) \cup {At(n, 6, 2)})
  <2>1. \A x \in ((Name(n, 0, {0, 1}) \cup {At(n, 0, 2)}) \cup C) \cup {At(n, 6, 1)},
           y \in {At(n, 6, 2)} : Less(x, y)
    BY <1>5 DEF Less, At, Name
  <2>2. Records(<<e>>, p, {At(n, 6, 2)})
    BY <1>2, RecordsOne
  <2> QED
    BY <1>8, <2>1, <2>2, RecordsAfter
<1> QED
  BY <1>1, <1>4, <1>8, <1>9 DEF e, Records

\* cam_draw of the GLES scene.
LEMMA RecordsGles ==
  ASSUME NEW p, Settings(p), NEW n \in Nat, p.scene = "gles"
  PROVE  /\ Records(GlesCommands(p.w, p.b, p.mask, p.cube, n) \o <<End(p.w, p.want, p.b)>>, p,
                    Names(p, n))
         /\ \E C : GlesCommands(p.w, p.b, p.mask, p.cube, n) \in Seq(C)
<1> DEFINE a == BlackStore(p.w)
           e == End(p.w, p.want, p.b)
           k == NPass(p)
           D(i) == IF i = k /\ p.cube
                     THEN draw_cube(<<n, i>>, ReadBy(p, i), DrawnBy(p, i), Passes(p.mask)[i])
                     ELSE draw_fullscreen(<<n, i>>, ReadBy(p, i), DrawnBy(p, i), Passes(p.mask)[i])
           g == [i \in 1 .. k |-> D(i)]
           S == [i \in 1 .. k |-> Name(n, i, IF i = k THEN LastSteps(p) ELSE {1, 2})]
           r == IF p.b = 0 THEN <<>> ELSE FlattenSeq(g)
           C == IF p.b = 0 THEN {} ELSE UpTo(S, k)
<1>0. /\ k \in 1 .. 5 /\ p.b \in Nat /\ p.zc \in BOOLEAN /\ ~OnVk(p) /\ First(p) = Cam(p.b)
      /\ k \in 0 .. 5
  BY PassCount DEF Settings, OnVk, First
<1>1. GlesCommands(p.w, p.b, p.mask, p.cube, n) = <<a>> \o r
  <2> DEFINE last == Len(Passes(p.mask))
             T(i) == IF i = last THEN p.w ELSE Tmp((i - 1) % 2)
             h == [i \in 1 .. last |->
                     IF i = last /\ p.cube
                       THEN draw_cube(<<n, i>>, Source(Cam(p.b), i), T(i), Passes(p.mask)[i])
                       ELSE draw_fullscreen(<<n, i>>, Source(Cam(p.b), i), T(i), Passes(p.mask)[i])]
  <2>1. h = g
    BY <1>0 DEF NPass, ReadBy, DrawnBy
  <2>2. GlesCommands(p.w, p.b, p.mask, p.cube, n) =
          <<a>> \o (IF p.b = 0 THEN <<>> ELSE FlattenSeq(h))
    BY Zenon DEF GlesCommands, BlackStore
  <2> HIDE DEF h, g
  <2> QED
    BY <2>1, <2>2, Zenon
<1>2. a = Cmd(p, At(n, 0, 1)) /\ e = Cmd(p, At(n, 6, 2))
  BY <1>0 DEF Cmd, Prepared, EndedBy, At
<1>3. /\ g \in [1 .. k -> {g[i] : i \in 1 .. k}]
      /\ \A i \in 1 .. k : Records(g[i], p, S[i])
  <2>1. g \in [1 .. k -> {g[i] : i \in 1 .. k}]
    OBVIOUS
  <2>2. ASSUME NEW i \in 1 .. k PROVE Records(D(i), p, Name(n, i, IF i = k THEN LastSteps(p) ELSE {1, 2}))
    <3>1. CASE i = k
      <4>1. D(i) = LastDraw(p, n)
        BY <1>0, <3>1 DEF LastDraw, DrawnBy
      <4> QED
        BY <3>1, <4>1, RecordsLast
    <3>2. CASE i # k
      BY <3>2, RecordsDraw
    <3> QED
      BY <3>1, <3>2
  <2> QED
    BY <2>1, <2>2
<1>4. \A i, j \in 1 .. k : i < j => \A x \in S[i], y \in S[j] : Less(x, y)
  BY DEF Name, At, Less
<1>5. Records(r, p, C)
  <2>1. Records(FlattenSeq(g), p, UpTo(S, k))
    <3> HIDE DEF g, S, k
    <3> QED
      BY <1>0, <1>3, <1>4, RecordsFlat
  <2> HIDE DEF g, S, k
  <2> QED
    BY <2>1, RecordsNone
<1>6. Names(p, n) = ({At(n, 0, 1)} \cup C) \cup {At(n, 6, 2)}
  <2>1. ASSUME NEW x \in Names(p, n) PROVE x \in C \/ x = At(n, 0, 1) \/ x = At(n, 6, 2)
    <3>1. x \in Labels /\ x.n = n /\ x = At(n, x.i, x.t) /\ Has(p, x)
      BY DEF Names, Labels, At
    <3>2. CASE x.i \in 1 .. k /\ p.b # 0
      <4>1. x.t \in IF x.i = k THEN LastSteps(p) ELSE {1, 2}
        BY <1>0, <3>1, <3>2 DEF Has, LastSteps
      <4>2. x \in S[x.i]
        BY <3>1, <3>2, <4>1 DEF Name
      <4> HIDE DEF S, k
      <4> QED
        BY <3>2, <4>2 DEF UpTo
    <3>3. CASE ~(x.i \in 1 .. k /\ p.b # 0)
      BY <1>0, <3>1, <3>3 DEF Has, Drawn
    <3> QED
      BY <3>2, <3>3
  <2>2. ASSUME NEW x \in C PROVE x \in Names(p, n)
    <3>1. PICK i \in 1 .. k, t \in 0 .. 3 :
            /\ p.b # 0 /\ x = At(n, i, t) /\ t \in IF i = k THEN LastSteps(p) ELSE {1, 2}
      BY DEF UpTo, Name, LastSteps
    <3>2. x \in Labels /\ x.n = n /\ x.i = i /\ x.t = t
      BY <1>0, <3>1 DEF Labels, At
    <3> QED
      BY <1>0, <3>1, <3>2 DEF Names, Has, LastSteps, Drawn
  <2>3. At(n, 0, 1) \in Names(p, n) /\ At(n, 6, 2) \in Names(p, n)
    BY <1>0 DEF Names, Labels, At, Has
  <2> HIDE DEF C
  <2> QED
    BY <2>1, <2>2, <2>3
<1>7. \A x \in C : x.n = n /\ x.i \in 1 .. 5
  BY <1>0 DEF UpTo, Name, At
<1> HIDE DEF a, r, e, C
<1>8. Records(<<a>> \o r, p, {At(n, 0, 1)} \cup C)
  <2>1. \A x \in {At(n, 0, 1)}, y \in C : Less(x, y)
    BY <1>7 DEF Less, At
  <2> QED
    BY <1>2, <1>5, <2>1, RecordsOne, RecordsAfter
<1>9. Records((<<a>> \o r) \o <<e>>, p, ({At(n, 0, 1)} \cup C) \cup {At(n, 6, 2)})
  <2>1. \A x \in {At(n, 0, 1)} \cup C, y \in {At(n, 6, 2)} : Less(x, y)
    BY <1>7 DEF Less, At
  <2> QED
    BY <1>2, <1>8, <2>1, RecordsOne, RecordsAfter
<1> QED
  BY <1>1, <1>6, <1>8, <1>9 DEF e, Records

\* cam_draw of the CPU scene leaves nothing to do.
LEMMA RecordsShm ==
  ASSUME NEW p, Settings(p), NEW n \in Nat, p.scene = "shm"
  PROVE  Records(<<End(p.w, p.want, p.b)>>, p, Names(p, n))
<1>1. End(p.w, p.want, p.b) = Cmd(p, At(n, 6, 2))
  BY DEF Cmd, EndedBy, At
<1>2. Names(p, n) = {At(n, 6, 2)}
  BY PassCount DEF Names, Labels, At, Has, Drawn, OnVk
<1> QED
  BY <1>1, <1>2, RecordsOne

------------------------------------------------------------------------------
(* What is left of the recordings *)

\* Where execution may go on: Before, for the commands of two names.
Ordered(s, a, b) ==
  \/ b.op = "end"
  \/ a.dst \cap b.src # {} /\ (IsSync(a) \/ IsSync(b))
  \/ a.draw = b.draw /\ a.draw # NoDraw
  \/ s # "vk" /\ a.op # "end"

\* All commands recorded so far, and those that are left.
Program(par, N) == {x \in Labels : x.n \in 1 .. N /\ Has(par[x.n], x)}
\* The names that a labelling of the queue uses.
Left(lab) == {lab[k] : k \in DOMAIN lab}
\* The command of a name, with the settings of its frame.
The(par, x) == Cmd(par[x.n], x)
\* Before, between two names.
Must(par, x, y) == Less(x, y) /\ Ordered(par[x.n].scene, The(par, x), The(par, y))

\* A command, and the same one with another value.
IsCommand(c) ==
  c = [op |-> c.op, img |-> c.img, src |-> c.src, dst |-> c.dst, from |-> c.from, fx |-> c.fx,
       old |-> c.old, new |-> c.new, val |-> c.val, draw |-> c.draw]
\* c is d but for its value.
Like(c, d) ==
  /\ IsCommand(c) /\ c.op = d.op /\ c.img = d.img /\ c.src = d.src /\ c.dst = d.dst
  /\ c.from = d.from /\ c.fx = d.fx /\ c.old = d.old /\ c.new = d.new /\ c.draw = d.draw

\* The queue is what is left of the program, in its order; nothing is left out that
\* must come after something that is left.
QueueInv(lab, par) ==
  /\ \E C : queue \in Seq(C)
  /\ frames \in Nat
  /\ \A n \in 1 .. frames : Settings(par[n]) /\ par[n].scene = scene /\ par[n].zc = zero_copy
  /\ lab \in [1 .. Len(queue) -> Program(par, frames)]
  /\ \A k, l \in 1 .. Len(queue) : k < l => Less(lab[k], lab[l])
  /\ \A k \in 1 .. Len(queue) : Like(queue[k], The(par, lab[k]))
  /\ \A x \in Left(lab), y \in Program(par, frames) : Must(par, x, y) => y \in Left(lab)

\* A command with another value in one field is a command.
LEMMA Edited ==
  ASSUME NEW c, NEW v, IsCommand(c)
  PROVE  /\ IsCommand([c EXCEPT !.val = v]) /\ IsCommand([c EXCEPT !.from = v])
         /\ IsCommand([c EXCEPT !.fx = v]) /\ IsCommand([c EXCEPT !.draw = v])
         /\ IsCommand([c EXCEPT !.old = v]) /\ IsCommand([c EXCEPT !.new = v])
<1>1. IsCommand([c EXCEPT !.val = v])
  BY DEF IsCommand
<1>2. IsCommand([c EXCEPT !.from = v])
  BY DEF IsCommand
<1>3. IsCommand([c EXCEPT !.fx = v])
  BY DEF IsCommand
<1>4. IsCommand([c EXCEPT !.draw = v])
  BY DEF IsCommand
<1>5. IsCommand([c EXCEPT !.old = v])
  BY DEF IsCommand
<1>6. IsCommand([c EXCEPT !.new = v])
  BY DEF IsCommand
<1> QED
  BY <1>1, <1>2, <1>3, <1>4, <1>5, <1>6

\* The commands of all names are commands.
LEMMA AreCommands ==
  ASSUME NEW p, Settings(p), NEW x \in Labels, Has(p, x)
  PROVE  IsCommand(Cmd(p, x))
<1>1. \A op, img, src, dst : IsCommand(Command(op, img, src, dst))
  BY DEF IsCommand, Command
<1>2. \A op, img, src, dst, v :
        /\ IsCommand([Command(op, img, src, dst) EXCEPT !.val = v])
        /\ IsCommand([Command(op, img, src, dst) EXCEPT !.from = v])
        /\ IsCommand([Command(op, img, src, dst) EXCEPT !.draw = v])
  BY <1>1, Edited
<1>3. \A op, img, src, dst, v, w :
        /\ IsCommand([Command(op, img, src, dst) EXCEPT !.from = v, !.draw = w])
        /\ IsCommand([Command(op, img, src, dst) EXCEPT !.fx = v, !.draw = w])
        /\ IsCommand([Command(op, img, src, dst) EXCEPT !.val = v, !.from = w])
        /\ IsCommand([Command(op, img, src, dst) EXCEPT !.old = v, !.new = w])
  <2>1. \A c, v : IsCommand(c) => /\ IsCommand([c EXCEPT !.draw = v])
                                  /\ IsCommand([c EXCEPT !.from = v])
                                  /\ IsCommand([c EXCEPT !.new = v])
                                  /\ IsCommand([c EXCEPT !.val = v])
                                  /\ IsCommand([c EXCEPT !.fx = v])
                                  /\ IsCommand([c EXCEPT !.old = v])
    BY Edited
  <2>2. TAKE op, img, src, dst, v, w
  <2>3. PICK c : c = Command(op, img, src, dst) /\ IsCommand(c)
    BY <1>1
  <2>4. IsCommand([c EXCEPT !.from = v, !.draw = w])
    BY <2>1, <2>3
  <2>5. IsCommand([c EXCEPT !.fx = v, !.draw = w])
    BY <2>1, <2>3
  <2>6. IsCommand([c EXCEPT !.val = v, !.from = w])
    BY <2>1, <2>3
  <2>7. IsCommand([c EXCEPT !.old = v, !.new = w])
    BY <2>1, <2>3
  <2> QED
    BY <2>3, <2>4, <2>5, <2>6, <2>7
<1>4. \A op, img, src, dst, v, w : IsCommand(image_barrier(img, v, w, src, dst))
  BY <1>3 DEF image_barrier
<1>5. \A w : IsCommand(BlackStore(w))
  BY <1>2 DEF BlackStore
<1>6. \A w, v, b : IsCommand(End(w, v, b))
  BY <1>3 DEF End
<1>7. x.i \in 0 .. 6 /\ x.t \in 0 .. 5 /\ NPass(p) \in 1 .. 5
  BY PassCount DEF Labels
<1>8. x.i = 0 => IsCommand(Prepared(p, x))
  <2>1. x.t \in {0, 1, 2, 3, 4, 5}
    BY <1>7
  <2>2. x.t = 0 => IsCommand(Prepared(p, x))
    BY <1>1 DEF Prepared
  <2>3. x.t = 1 => IsCommand(Prepared(p, x))
    BY <1>4, <1>5 DEF Prepared
  <2>4. x.t = 2 => IsCommand(Prepared(p, x))
    BY <1>4 DEF Prepared
  <2>5. x.t = 3 => IsCommand(Prepared(p, x))
    BY <1>4, <1>5 DEF Prepared
  <2>6. x.t = 4 => IsCommand(Prepared(p, x))
    <3>1. PICK c : c = [Command("copy", Upload, {"transfer"}, {"transfer"})
                          EXCEPT !.from = StagingOf(x.n % NLanes)]
      OBVIOUS
    <3>2. IsCommand(c)
      BY <1>2, <3>1
    <3>3. x.t = 4 => Prepared(p, x) = c
      BY <3>1 DEF Prepared
    <3> QED
      BY <3>2, <3>3
  <2>7. x.t = 5 => IsCommand(Prepared(p, x))
    BY <1>4 DEF Prepared
  <2> QED
    BY <2>1, <2>2, <2>3, <2>4, <2>5, <2>6, <2>7
<1>9. x.i = 6 => IsCommand(EndedBy(p, x))
  <2>1. x.i = 6 => x.t \in {0, 1, 2}
    BY <1>7 DEF Has
  <2> QED
    BY <2>1, <1>4, <1>6 DEF EndedBy
<1>10. x.i \in 1 .. 5 => IsCommand(Passed(p, x))
  <2>1. x.i \in 1 .. 5 => x.t \in {0, 1, 2, 3}
    BY <1>7 DEF Has
  <2>2. x.t = 0 => IsCommand(Passed(p, x))
    <3>1. PICK c : c = [Command("clear", Depth, {"depth"}, {"depth"})
                          EXCEPT !.draw = <<x.n, x.i>>]
      OBVIOUS
    <3>2. PICK d : d = image_barrier(DrawnBy(p, x.i), "none", "attachment", {"frag"}, {"color"})
      OBVIOUS
    <3>3. IsCommand(c) /\ IsCommand(d)
      BY <1>2, <1>4, <3>1, <3>2
    <3>4. x.t = 0 => Passed(p, x) = IF x.i = NPass(p) THEN c ELSE d
      BY <3>1, <3>2 DEF Passed
    <3> QED
      BY <3>3, <3>4
  <2>3. x.t = 1 => IsCommand(Passed(p, x))
    <3>1. PICK c : c = [Command("fetch", DrawnBy(p, x.i), {"frag"}, {"frag"})
                          EXCEPT !.from = ReadBy(p, x.i), !.draw = <<x.n, x.i>>]
      OBVIOUS
    <3>2. IsCommand(c)
      BY <1>3, <3>1
    <3>3. x.t = 1 => Passed(p, x) = c
      BY <3>1 DEF Passed
    <3> QED
      BY <3>2, <3>3
  <2>4. x.t = 2 => IsCommand(Passed(p, x))
    <3>1. PICK c : c = [Command("store", DrawnBy(p, x.i), {"color"}, {"color"})
                          EXCEPT !.fx = Passes(p.mask)[x.i], !.draw = <<x.n, x.i>>]
      OBVIOUS
    <3>2. IsCommand(c)
      BY <1>3, <3>1
    <3>3. x.t = 2 => Passed(p, x) = c
      BY <3>1 DEF Passed
    <3> QED
      BY <3>2, <3>3
  <2>5. x.t = 3 => IsCommand(Passed(p, x))
    <3>1. PICK c : c = [Command("test", Depth, {"depth"}, {"depth"})
                          EXCEPT !.draw = <<x.n, x.i>>]
      OBVIOUS
    <3>2. PICK d : d = image_barrier(DrawnBy(p, x.i), "attachment", "readonly", {"color"}, {"frag"})
      OBVIOUS
    <3>3. IsCommand(c) /\ IsCommand(d)
      BY <1>2, <1>4, <3>1, <3>2
    <3>4. x.t = 3 => Passed(p, x) = IF x.i = NPass(p) THEN c ELSE d
      BY <3>1, <3>2 DEF Passed
    <3> QED
      BY <3>3, <3>4
  <2> QED
    BY <2>1, <2>2, <2>3, <2>4, <2>5
<1> QED
  BY <1>7, <1>8, <1>9, <1>10 DEF Cmd

\* Which place of a sequence the k-th is after the i-th has been removed.
Was(i, k) == IF k < i THEN k ELSE k + 1

\* RemoveAt, place by place.
LEMMA Removed ==
  ASSUME NEW C, NEW s \in Seq(C), NEW i \in 1 .. Len(s)
  PROVE  /\ RemoveAt(s, i) \in Seq(C) /\ Len(RemoveAt(s, i)) = Len(s) - 1
         /\ \A k \in 1 .. Len(s) - 1 : RemoveAt(s, i)[k] = s[Was(i, k)]
<1>1. PICK a, b : a = SubSeq(s, 1, i - 1) /\ b = SubSeq(s, i + 1, Len(s))
  OBVIOUS
<1>2. /\ a \in Seq(C) /\ Len(a) = i - 1 /\ \A k \in 1 .. i - 1 : a[k] = s[k]
      /\ b \in Seq(C) /\ Len(b) = Len(s) - i /\ \A k \in 1 .. Len(s) - i : b[k] = s[i + k]
  BY <1>1
<1>3. PICK t : t = a \o b
  OBVIOUS
<1>4. PICK m \in Nat, n \in Nat : m = i - 1 /\ n = Len(s) - i /\ m + n = Len(s) - 1
  <2>1. i - 1 \in Nat /\ Len(s) - i \in Nat /\ (i - 1) + (Len(s) - i) = Len(s) - 1
    OBVIOUS
  <2> QED
    BY <2>1
<1>5. /\ t \in Seq(C) /\ Len(t) = m + n
      /\ \A k \in 1 .. m : t[k] = a[k]
      /\ \A k \in m + 1 .. m + n : t[k] = b[k - m]
  <2>1. a \in Seq(C) /\ b \in Seq(C) /\ Len(a) = m /\ Len(b) = n
    BY <1>2, <1>4
  <2>2. t \in Seq(C) /\ Len(t) = Len(a) + Len(b)
    <3>1. a \o b \in Seq(C)
      BY <2>1
    <3>2. t \in Seq(C)
      BY <1>3, <3>1
    <3>3. Len(a \o b) = Len(a) + Len(b)
      BY <2>1
    <3> QED
      BY <1>3, <3>2, <3>3
  <2>3. /\ \A k \in 1 .. m : t[k] = a[k]
        /\ \A k \in m + 1 .. m + n : t[k] = b[k - m]
    BY <1>3, <2>1
  <2>6. Len(t) = m + n
    BY <2>1, <2>2
  <2> QED
    BY <2>2, <2>3, <2>6
<1>6. ASSUME NEW k \in 1 .. Len(s) - 1 PROVE t[k] = s[Was(i, k)]
  <2>1. CASE k < i
    BY <1>2, <1>4, <1>5, <2>1 DEF Was
  <2>2. CASE k >= i
    <3>1. k - m \in 1 .. n /\ i + (k - m) = k + 1 /\ k \in m + 1 .. m + n
      BY <1>4, <2>2
    <3>2. t[k] = b[k - m] /\ b[k - m] = s[i + (k - m)]
      BY <1>2, <1>4, <1>5, <3>1
    <3> QED
      BY <2>2, <3>1, <3>2 DEF Was
  <2> QED
    BY <2>1, <2>2
<1>7. RemoveAt(s, i) = t
  BY <1>1, <1>3, Zenon DEF RemoveAt
<1> QED
  BY <1>4, <1>5, <1>6, <1>7

\* The recordings have one order.
LEMMA OneOrder ==
  ASSUME NEW x \in Labels, NEW y \in Labels
  PROVE  ~Less(x, x) /\ ~(Less(x, y) /\ Less(y, x)) /\ (x # y => Less(x, y) \/ Less(y, x))
<1>1. /\ x.n \in Nat /\ x.i \in 0 .. 6 /\ x.t \in 0 .. 5 /\ x = [n |-> x.n, i |-> x.i, t |-> x.t]
      /\ y.n \in Nat /\ y.i \in 0 .. 6 /\ y.t \in 0 .. 5 /\ y = [n |-> y.n, i |-> y.i, t |-> y.t]
  BY DEF Labels
<1>2. x.n = y.n /\ x.i = y.i /\ x.t = y.t => x = y
  BY <1>1
<1> QED
  BY <1>1, <1>2 DEF Less

\* What has a name in the queue.
LEMMA InQueue ==
  ASSUME NEW CONSTANT lab, NEW CONSTANT par, QueueInv(lab, par)
  PROVE  /\ Left(lab) \subseteq Program(par, frames)
         /\ \A x \in Left(lab) : \E k \in 1 .. Len(queue) : x = lab[k]
         /\ \A k \in 1 .. Len(queue) : lab[k] \in Left(lab)
         /\ Len(queue) \in Nat
<1>1. lab \in [1 .. Len(queue) -> Program(par, frames)] /\ \E C : queue \in Seq(C)
  BY DEF QueueInv
<1> QED
  BY <1>1 DEF Left

\* What is executed does not have to come after anything that is left.
LEMMA Foremost ==
  ASSUME NEW CONSTANT lab, NEW CONSTANT par, QueueInv(lab, par),
         NEW CONSTANT i \in 1 .. Len(queue), \A j \in 1 .. i - 1 : ~Before(queue[j], queue[i]),
         NEW CONSTANT x \in Left(lab)
  PROVE  ~Must(par, x, lab[i])
<1> SUFFICES ASSUME Must(par, x, lab[i]) PROVE FALSE
  OBVIOUS
<1>1. PICK j \in 1 .. Len(queue) : x = lab[j]
  BY InQueue
<1>2. lab[j] \in Program(par, frames) /\ lab[i] \in Program(par, frames)
  BY <1>1, InQueue
<1>3. Less(lab[j], lab[i])
  BY <1>1 DEF Must
<1>4. ~(i < j) /\ i # j
  <2>1. lab[j] \in Labels /\ lab[i] \in Labels
    BY <1>2 DEF Program
  <2>2. i < j => Less(lab[i], lab[j])
    BY DEF QueueInv
  <2> QED
    BY <1>3, <2>1, <2>2, OneOrder
<1>5. j \in 1 .. i - 1
  BY <1>4, InQueue
<1>6. Like(queue[j], The(par, lab[j])) /\ Like(queue[i], The(par, lab[i]))
  BY DEF QueueInv
<1>7. par[lab[j].n].scene = scene
  <2>1. lab[j].n \in 1 .. frames
    BY <1>2 DEF Program
  <2> QED
    BY <2>1 DEF QueueInv
<1>8. Ordered(scene, The(par, lab[j]), The(par, lab[i]))
  BY <1>1, <1>7 DEF Must
<1>9. Before(queue[j], queue[i])
  BY <1>6, <1>8 DEF Before, Ordered, Like, IsSync
<1> QED
  BY <1>5, <1>9

\* The queue without the command at place i.
LEMMA Shorter ==
  ASSUME NEW CONSTANT lab, NEW CONSTANT par, QueueInv(lab, par),
         NEW CONSTANT i \in 1 .. Len(queue), \A j \in 1 .. i - 1 : ~Before(queue[j], queue[i]),
         \E C : queue' \in Seq(C), Len(queue') = Len(queue) - 1,
         \A k \in 1 .. Len(queue) - 1 : Like(queue'[k], queue[Was(i, k)]),
         UNCHANGED <<scene, zero_copy, frames>>
  PROVE  \E rest : /\ QueueInv(rest, par)' /\ Left(rest) = Left(lab) \ {lab[i]}
                   /\ \A k \in 1 .. Len(queue) - 1 : rest[k] = lab[Was(i, k)]
<1>m. PICK m \in Nat : m = Len(queue)
  BY InQueue
<1>f. PICK N \in Nat : N = frames
  BY DEF QueueInv
<1> DEFINE r == [k \in 1 .. m - 1 |-> lab[Was(i, k)]]
<1>1. \A k \in 1 .. m - 1 : Was(i, k) \in 1 .. m /\ Was(i, k) # i
  BY <1>m DEF Was
<1>2. \A k \in 1 .. m : k # i => \E l \in 1 .. m - 1 : Was(i, l) = k
  <2> SUFFICES ASSUME NEW k \in 1 .. m, k # i PROVE \E l \in 1 .. m - 1 : Was(i, l) = k
    OBVIOUS
  <2>1. k < i => k \in 1 .. m - 1 /\ Was(i, k) = k
    BY <1>m DEF Was
  <2>2. ~(k < i) => k - 1 \in 1 .. m - 1 /\ Was(i, k - 1) = k
    BY <1>m DEF Was
  <2> QED
    BY <2>1, <2>2
<1>3. \A k, l \in 1 .. m - 1 : k < l => Was(i, k) < Was(i, l)
  BY <1>m DEF Was
<1>4. \A k \in 1 .. m - 1 : r[k] = lab[Was(i, k)]
  OBVIOUS
<1>5. r \in [1 .. m - 1 -> Program(par, N)]
  <2>1. \A k \in 1 .. m : lab[k] \in Program(par, N)
    BY <1>m, <1>f, InQueue
  <2> QED
    BY <1>1, <2>1
<1> HIDE DEF r
<1>6. \A k, l \in 1 .. m : k < l => Less(lab[k], lab[l])
  BY <1>m DEF QueueInv
<1>7. \A k \in 1 .. m : k # i => lab[k] # lab[i]
  <2>1. \A k \in 1 .. m : lab[k] \in Labels
    BY <1>m, InQueue DEF Program
  <2>2. \A k \in 1 .. m : k # i => Less(lab[k], lab[i]) \/ Less(lab[i], lab[k])
    BY <1>m, <1>6
  <2> QED
    BY <1>m, <2>1, <2>2, OneOrder
<1>8. Left(r) = Left(lab) \ {lab[i]}
  <2>1. DOMAIN r = 1 .. m - 1 /\ DOMAIN lab = 1 .. m
    BY <1>5, <1>m DEF QueueInv
  <2>2. ASSUME NEW k \in 1 .. m - 1 PROVE r[k] \in Left(lab) /\ r[k] # lab[i]
    BY <1>1, <1>4, <1>7, <2>1 DEF Left
  <2>3. ASSUME NEW k \in 1 .. m, lab[k] # lab[i] PROVE lab[k] \in Left(r)
    <3>1. PICK l \in 1 .. m - 1 : Was(i, l) = k
      BY <1>2, <2>3
    <3> QED
      BY <1>4, <2>1, <3>1 DEF Left
  <2>4. \A x : x \in Left(r) <=> \E k \in 1 .. m - 1 : x = r[k]
    BY <2>1 DEF Left
  <2>5. \A x : x \in Left(lab) <=> \E k \in 1 .. m : x = lab[k]
    BY <2>1 DEF Left
  <2> QED
    BY <2>2, <2>3, <2>4, <2>5
<1>9. QueueInv(r, par)'
  <2>1. Len(queue') = m - 1 /\ frames' = N /\ scene' = scene /\ zero_copy' = zero_copy
    BY <1>m, <1>f
  <2>2. r \in [1 .. Len(queue') -> Program(par, frames')]
    BY <1>5, <2>1
  <2>3. \A k, l \in 1 .. Len(queue') : k < l => Less(r[k], r[l])
    BY <1>1, <1>3, <1>4, <1>6, <2>1
  <2>4. \A k \in 1 .. Len(queue') : Like(queue'[k], The(par, r[k]))
    <3> SUFFICES ASSUME NEW k \in 1 .. m - 1 PROVE Like(queue'[k], The(par, r[k]))
      BY <2>1
    <3>1. Like(queue'[k], queue[Was(i, k)])
      BY <1>m
    <3>2. Like(queue[Was(i, k)], The(par, lab[Was(i, k)]))
      BY <1>1, <1>m DEF QueueInv
    <3> QED
      BY <1>4, <3>1, <3>2 DEF Like
  <2>5. ASSUME NEW x \in Left(r), NEW y \in Program(par, frames'), Must(par, x, y)
        PROVE  y \in Left(r)
    <3>1. x \in Left(lab) /\ y \in Left(lab)
      BY <1>8, <1>f, <2>1, <2>5 DEF QueueInv
    <3>2. y # lab[i]
      BY <2>5, <3>1, Foremost
    <3> QED
      BY <1>8, <3>1, <3>2
  <2>6. \A n \in 1 .. frames' : Settings(par[n]) /\ par[n].scene = scene' /\ par[n].zc = zero_copy'
    BY <2>1, <1>f DEF QueueInv
  <2>7. frames' \in Nat
    BY <1>f, <2>1
  <2> QED
    BY <2>2, <2>3, <2>4, <2>5, <2>6, <2>7, Zenon DEF QueueInv
<1> QED
  BY <1>m, <1>4, <1>8, <1>9

\* The queue with the recording of another frame.
LEMMA Longer ==
  ASSUME NEW CONSTANT lab, NEW CONSTANT par, QueueInv(lab, par),
         NEW CONSTANT p, Settings(p), p.scene = scene, p.zc = zero_copy,
         NEW CONSTANT s, Records(s, p, Names(p, frames + 1)),
         queue' = queue \o s, frames' = frames + 1, UNCHANGED <<scene, zero_copy>>
  PROVE  \E more, pars :
           /\ QueueInv(more, pars)'
           /\ \A n \in 1 .. frames : pars[n] = par[n]
           /\ pars[frames + 1] = p
           /\ Left(more) = Left(lab) \cup Names(p, frames + 1)
           /\ Program(pars, frames + 1) = Program(par, frames) \cup Names(p, frames + 1)
           /\ \A k \in 1 .. Len(queue) : more[k] = lab[k]
           /\ Len(queue') = Len(queue) + Len(s)
           /\ \A k \in 1 .. Len(queue) : queue'[k] = queue[k]
           /\ \A k \in 1 .. Len(s) : queue'[Len(queue) + k] = Cmd(p, more[Len(queue) + k])
<1>f. PICK N \in Nat, N1 \in Nat : N = frames /\ N1 = frames + 1 /\ N1 = N + 1
  BY DEF QueueInv
<1>s. PICK C : queue \in Seq(C) /\ s \in Seq(C)
  <2>1. PICK A, B : queue \in Seq(A) /\ s \in Seq(B)
    BY DEF QueueInv, Records
  <2>2. queue \in Seq(A \cup B) /\ s \in Seq(A \cup B)
    BY <2>1
  <2> QED
    BY <2>2
<1>m. PICK m \in Nat, l \in Nat : m = Len(queue) /\ l = Len(s)
  BY <1>s
<1>q. /\ \E D : queue' \in Seq(D)
      /\ Len(queue') = m + l
      /\ \A k \in 1 .. m : queue'[k] = queue[k]
      /\ \A k \in 1 .. l : queue'[m + k] = s[k]
  <2>1. PICK u : u = queue \o s
    OBVIOUS
  <2>2. queue \o s \in Seq(C) /\ Len(queue \o s) = Len(queue) + Len(s)
    BY <1>s
  <2>3. \A k \in 1 .. Len(queue) + Len(s) :
          (queue \o s)[k] = IF k <= Len(queue) THEN queue[k] ELSE s[k - Len(queue)]
    BY <1>s
  <2>4. \A k \in 1 .. m + l : u[k] = IF k <= m THEN queue[k] ELSE s[k - m]
    BY <1>m, <2>1, <2>3
  <2>5. /\ \A k \in 1 .. m : k \in 1 .. m + l /\ k <= m
        /\ \A k \in 1 .. l : m + k \in 1 .. m + l /\ ~(m + k <= m) /\ (m + k) - m = k
    OBVIOUS
  <2>6. u \in Seq(C) /\ Len(u) = m + l
    BY <1>m, <2>1, <2>2
  <2>7. queue' = u
    BY <2>1
  <2> QED
    BY <2>4, <2>5, <2>6, <2>7
<1>l. PICK new \in [1 .. l -> Names(p, N1)] :
        /\ \A j, k \in 1 .. l : j < k => Less(new[j], new[k])
        /\ \A x \in Names(p, N1) : \E k \in 1 .. l : new[k] = x
        /\ \A k \in 1 .. l : s[k] = Cmd(p, new[k])
  <2>1. Lists(s, p, Names(p, N1))
    BY <1>f DEF Records
  <2> QED
    BY <1>m, <2>1 DEF Lists
<1> DEFINE g == [n \in 1 .. N1 |-> IF n = N1 THEN p ELSE par[n]]
           f == [k \in 1 .. m + l |-> IF k <= m THEN lab[k] ELSE new[k - m]]
<1>1. \A n \in 1 .. N : g[n] = par[n] /\ n \in 1 .. N1 /\ n # N1
  BY <1>f
<1>2. g[N1] = p
  BY <1>f
<1>3. \A n \in 1 .. N1 : n \in 1 .. N \/ n = N1
  BY <1>f
<1>4. /\ \A k \in 1 .. m : f[k] = lab[k] /\ k \in 1 .. m + l
      /\ \A k \in 1 .. l : f[m + k] = new[k] /\ m + k \in 1 .. m + l
      /\ DOMAIN f = 1 .. m + l
      /\ f = [k \in 1 .. m + l |-> f[k]]
  <2>1. /\ \A k \in 1 .. m : k \in 1 .. m + l /\ k <= m
        /\ \A k \in 1 .. l : m + k \in 1 .. m + l /\ ~(m + k <= m) /\ (m + k) - m = k
    OBVIOUS
  <2> QED
    BY <2>1
<1>5. \A k \in 1 .. m + l : k \in 1 .. m \/ \E j \in 1 .. l : k = m + j
  <2>1. \A k \in 1 .. m + l : k \in 1 .. m \/ (k - m \in 1 .. l /\ k = m + (k - m))
    OBVIOUS
  <2> QED
    BY <2>1
<1> HIDE DEF f, g
<1>6. Program(g, N1) = Program(par, N) \cup Names(p, N1)
  <2>1. \A x \in Labels : x.n \in 1 .. N1 /\ Has(g[x.n], x)
                          <=> (x.n \in 1 .. N /\ Has(par[x.n], x)) \/ (x.n = N1 /\ Has(p, x))
    BY <1>1, <1>2, <1>3, <1>f
  <2> HIDE DEF g
  <2> QED
    BY <2>1 DEF Program, Names
<1>7. /\ \A k \in 1 .. m : lab[k] \in Program(par, N)
      /\ \A k \in 1 .. m : lab[k] \in Left(lab) /\ lab[k].n \in 1 .. N
      /\ \A j, k \in 1 .. m : j < k => Less(lab[j], lab[k])
      /\ \A k \in 1 .. m : Like(queue[k], The(par, lab[k]))
      /\ \A x \in Left(lab) : \E k \in 1 .. m : x = lab[k]
  BY <1>f, <1>m, InQueue DEF QueueInv, Program
<1>8. /\ \A k \in 1 .. l : new[k] \in Names(p, N1)
      /\ \A x \in Names(p, N1) : x.n = N1 /\ x \in Labels /\ Has(p, x)
  BY <1>l DEF Names
<1>9. f \in [1 .. m + l -> Program(g, N1)]
  <2>1. \A k \in 1 .. m + l : f[k] \in Program(g, N1)
    BY <1>4, <1>5, <1>6, <1>7, <1>8
  <2> QED
    BY <1>4, <2>1
<1>10. ASSUME NEW j \in 1 .. m + l, NEW k \in 1 .. m + l, j < k PROVE Less(f[j], f[k])
  <2>1. CASE k \in 1 .. m
    <3>1. j \in 1 .. m
      BY <1>10, <2>1
    <3> QED
      BY <1>4, <1>7, <1>10, <2>1, <3>1
  <2>2. CASE j \in 1 .. m /\ k \notin 1 .. m
    <3>1. PICK i \in 1 .. l : k = m + i
      BY <1>5, <2>2
    <3>2. f[j] = lab[j] /\ f[k] = new[i] /\ lab[j].n \in 1 .. N /\ new[i].n = N1
      BY <1>4, <1>7, <1>8, <2>2, <3>1
    <3> QED
      BY <1>f, <3>2 DEF Less
  <2>3. CASE j \notin 1 .. m
    <3>1. PICK i \in 1 .. l : j = m + i
      BY <1>5, <2>3
    <3>2. k \notin 1 .. m
      BY <1>10, <2>3
    <3>3. PICK h \in 1 .. l : k = m + h
      BY <1>5, <3>2
    <3>4. i < h
      BY <1>10, <3>1, <3>3
    <3> QED
      BY <1>l, <1>4, <3>1, <3>3, <3>4
  <2> QED
    BY <2>1, <2>2, <2>3
<1>11. Left(f) = Left(lab) \cup Names(p, N1)
  <2>1. \A x : x \in Left(f) <=> \E k \in 1 .. m + l : x = f[k]
    BY <1>4 DEF Left
  <2>2. ASSUME NEW k \in 1 .. m + l PROVE f[k] \in Left(lab) \cup Names(p, N1)
    BY <1>4, <1>5, <1>7, <1>8
  <2>3. ASSUME NEW x \in Left(lab) PROVE \E k \in 1 .. m + l : x = f[k]
    BY <1>4, <1>7
  <2>4. ASSUME NEW x \in Names(p, N1) PROVE \E k \in 1 .. m + l : x = f[k]
    <3>1. PICK k \in 1 .. l : new[k] = x
      BY <1>l
    <3>2. x = f[m + k] /\ m + k \in 1 .. m + l
      BY <1>4, <3>1
    <3> QED
      BY <3>2
  <2> QED
    BY <2>1, <2>2, <2>3, <2>4
<1>12. QueueInv(f, g)'
  <2>1. Len(queue') = m + l /\ frames' = N1 /\ scene' = scene /\ zero_copy' = zero_copy
    BY <1>q, <1>f
  <2>2. \A k \in 1 .. m + l : Like(queue'[k], The(g, f[k]))
    <3>1. ASSUME NEW k \in 1 .. m PROVE Like(queue'[k], The(g, f[k]))
      <4>1. g[lab[k].n] = par[lab[k].n] /\ f[k] = lab[k] /\ queue'[k] = queue[k]
        BY <1>1, <1>4, <1>7, <1>q
      <4>2. The(g, f[k]) = The(par, lab[k])
        BY <4>1, Zenon DEF The
      <4> QED
        BY <1>7, <4>1, <4>2
    <3>2. ASSUME NEW k \in 1 .. l PROVE Like(queue'[m + k], The(g, f[m + k]))
      <4>1. queue'[m + k] = Cmd(p, new[k]) /\ f[m + k] = new[k] /\ g[new[k].n] = p
        BY <1>q, <1>l, <1>2, <1>4, <1>8
      <4>2. IsCommand(Cmd(p, new[k]))
        BY <1>8, AreCommands
      <4> QED
        BY <4>1, <4>2 DEF Like, The
    <3> QED
      BY <1>5, <3>1, <3>2
  <2>3. ASSUME NEW x \in Left(f), NEW y \in Program(g, N1), Must(g, x, y) PROVE y \in Left(f)
    <3>1. CASE y \in Names(p, N1)
      BY <1>11, <3>1
    <3>2. CASE y \notin Names(p, N1)
      <4>1. y \in Program(par, N) /\ y.n \in 1 .. N
        BY <1>6, <3>2 DEF Program
      <4>2. x \notin Names(p, N1)
        <5>1. x.n <= y.n \/ ~(x.n \in Nat)
          BY <2>3, <4>1 DEF Must, Less
        <5> QED
          BY <1>8, <1>f, <4>1, <5>1
      <4>3. x \in Left(lab) /\ x.n \in 1 .. N
        BY <1>7, <1>11, <4>2
      <4>4. Must(par, x, y)
        <5>1. g[x.n] = par[x.n] /\ g[y.n] = par[y.n]
          BY <1>1, <4>1, <4>3
        <5>2. The(g, x) = The(par, x) /\ The(g, y) = The(par, y)
          BY <5>1, Zenon DEF The
        <5> QED
          BY <2>3, <5>1, <5>2, Zenon DEF Must
      <4>5. y \in Left(lab)
        BY <1>f, <4>1, <4>3, <4>4 DEF QueueInv
      <4> QED
        BY <1>11, <4>5
    <3> QED
      BY <3>1, <3>2
  <2>4. \A n \in 1 .. N1 : Settings(g[n]) /\ g[n].scene = scene' /\ g[n].zc = zero_copy'
    BY <1>1, <1>2, <1>3, <1>f, <2>1 DEF QueueInv
  <2>5. /\ f \in [1 .. Len(queue') -> Program(g, frames')]
        /\ \A j, k \in 1 .. Len(queue') : j < k => Less(f[j], f[k])
        /\ \A k \in 1 .. Len(queue') : Like(queue'[k], The(g, f[k]))
        /\ \A x \in Left(f), y \in Program(g, frames') : Must(g, x, y) => y \in Left(f)
        /\ \A n \in 1 .. frames' : Settings(g[n]) /\ g[n].scene = scene' /\ g[n].zc = zero_copy'
        /\ frames' \in Nat
        /\ \E D : queue' \in Seq(D)
    BY <1>9, <1>10, <1>q, <2>1, <2>2, <2>3, <2>4
  <2> QED
    BY <2>5, Zenon DEF QueueInv
<1>13. \A k \in 1 .. l : queue'[m + k] = Cmd(p, f[m + k])
  BY <1>q, <1>l, <1>4
<1>14. /\ \A n \in 1 .. frames : g[n] = par[n]
       /\ g[frames + 1] = p
       /\ Left(f) = Left(lab) \cup Names(p, frames + 1)
       /\ Program(g, frames + 1) = Program(par, frames) \cup Names(p, frames + 1)
       /\ \A k \in 1 .. Len(queue) : f[k] = lab[k]
       /\ Len(queue') = Len(queue) + Len(s)
       /\ \A k \in 1 .. Len(queue) : queue'[k] = queue[k]
       /\ \A k \in 1 .. Len(s) : queue'[Len(queue) + k] = Cmd(p, f[Len(queue) + k])
  BY <1>f, <1>m, <1>q, <1>1, <1>2, <1>4, <1>6, <1>11, <1>13
<1> QED
  BY <1>12, <1>14

------------------------------------------------------------------------------
(* The commands, name by name *)

\* A barrier, and any other command, of one stage.
IsBarrier(c, img, old, new, src, dst) ==
  /\ c.op = "barrier" /\ c.img = img /\ c.old = old /\ c.new = new /\ c.src = src /\ c.dst = dst
  /\ c.draw = NoDraw
\* A command of one stage.
IsPlain(c, op, img, stage) == c.op = op /\ c.img = img /\ c.src = {stage} /\ c.dst = {stage}

\* What image_barrier builds.
LEMMA Barriers ==
  ASSUME NEW img, NEW old, NEW new, NEW src, NEW dst
  PROVE  IsBarrier(image_barrier(img, old, new, src, dst), img, old, new, src, dst)
<1>1. PICK c : c = image_barrier(img, old, new, src, dst)
  OBVIOUS
<1>2. c = [op |-> "barrier", img |-> img, src |-> src, dst |-> dst, from |-> img, fx |-> "none",
           old |-> old, new |-> new, val |-> Garbage, draw |-> NoDraw]
  BY <1>1 DEF image_barrier, Command
<1>3. IsBarrier(c, img, old, new, src, dst)
  BY <1>2 DEF IsBarrier
<1> QED
  BY <1>1, <1>3

\* What a frame without a picture stores.
LEMMA BlackStores ==
  ASSUME NEW w
  PROVE  /\ IsPlain(BlackStore(w), "store", w, "color") /\ BlackStore(w).draw = NoDraw
         /\ BlackStore(w).val = Black /\ BlackStore(w).fx = "none"
<1>1. BlackStore(w) =
        [op |-> "store", img |-> w, src |-> {"color"}, dst |-> {"color"}, from |-> w, fx |-> "none",
         old |-> "none", new |-> "none", val |-> Black, draw |-> NoDraw]
  BY DEF BlackStore, Command
<1> QED
  BY <1>1 DEF IsPlain

\* The preparation of a frame.
LEMMA Preparation ==
  ASSUME NEW p, Settings(p), NEW x \in Labels, x.i = 0, Has(p, x), NEW c, c = Cmd(p, x)
  PROVE  /\ x.t = 0 => c.op = "wait" /\ c.src = {} /\ c.dst = {"color"} /\ c.img = p.w
         /\ x.t = 1 /\ OnVk(p) => IsBarrier(c, p.w, "none", "attachment", {}, {"color"})
         /\ x.t = 1 /\ ~OnVk(p) => c = BlackStore(p.w)
         /\ x.t = 2 => IsBarrier(c, Depth, "none", "depth", {"depth"}, {"depth"})
         /\ x.t = 3 /\ p.b = 0 => c = BlackStore(p.w)
         /\ x.t = 3 /\ p.b # 0 /\ p.zc =>
              IsBarrier(c, Cam(p.b), "foreign", "readonly", {}, {"frag"})
         /\ x.t = 3 /\ p.b # 0 /\ ~p.zc =>
              IsBarrier(c, Upload, UploadOld(p.written), "transfer", {"frag"}, {"transfer"})
         /\ x.t = 4 => /\ IsPlain(c, "copy", Upload, "transfer") /\ c.draw = NoDraw
                       /\ c.from = StagingOf(x.n % NLanes)
         /\ x.t = 5 => IsBarrier(c, Upload, "transfer", "readonly", {"transfer"}, {"frag"})
<1>1. c = Prepared(p, x)
  BY DEF Cmd
<1>2. x.t = 0 => c.op = "wait" /\ c.src = {} /\ c.dst = {"color"} /\ c.img = p.w
  BY <1>1 DEF Prepared, Command
<1>3. x.t = 1 => c = IF OnVk(p) THEN image_barrier(p.w, "none", "attachment", {}, {"color"})
                                ELSE BlackStore(p.w)
  BY <1>1 DEF Prepared
<1>4. x.t = 2 => c = image_barrier(Depth, "none", "depth", {"depth"}, {"depth"})
  BY <1>1 DEF Prepared
<1>5. x.t = 3 => c = IF p.b = 0 THEN BlackStore(p.w)
                  ELSE IF p.zc THEN image_barrier(Cam(p.b), "foreign", "readonly", {}, {"frag"})
                  ELSE image_barrier(Upload, UploadOld(p.written), "transfer", {"frag"}, {"transfer"})
  BY <1>1 DEF Prepared
<1>6. x.t = 4 => c = [Command("copy", Upload, {"transfer"}, {"transfer"})
                        EXCEPT !.from = StagingOf(x.n % NLanes)]
  BY <1>1 DEF Prepared
<1>7. x.t = 4 => /\ IsPlain(c, "copy", Upload, "transfer") /\ c.draw = NoDraw
                 /\ c.from = StagingOf(x.n % NLanes)
  BY <1>6 DEF Command, IsPlain
<1>8. x.t = 5 => c = image_barrier(Upload, "transfer", "readonly", {"transfer"}, {"frag"})
  BY <1>1 DEF Prepared
<1> QED
  BY <1>2, <1>3, <1>4, <1>5, <1>7, <1>8, Barriers

\* The passes of a frame.
LEMMA PassSteps ==
  ASSUME NEW p, Settings(p), NEW x \in Labels, x.i \in 1 .. 5, Has(p, x), NEW c, c = Cmd(p, x)
  PROVE  /\ x.t = 0 /\ x.i = NPass(p) =>
              IsPlain(c, "clear", Depth, "depth") /\ c.draw = <<x.n, x.i>>
         /\ x.t = 0 /\ x.i # NPass(p) =>
              IsBarrier(c, Tmp((x.i - 1) % 2), "none", "attachment", {"frag"}, {"color"})
         /\ x.t = 1 => /\ IsPlain(c, "fetch", DrawnBy(p, x.i), "frag")
                       /\ c.from = ReadBy(p, x.i) /\ c.draw = <<x.n, x.i>>
         /\ x.t = 2 => /\ IsPlain(c, "store", DrawnBy(p, x.i), "color")
                       /\ c.fx = Passes(p.mask)[x.i] /\ c.draw = <<x.n, x.i>>
         /\ x.t = 3 /\ x.i = NPass(p) =>
              IsPlain(c, "test", Depth, "depth") /\ c.draw = <<x.n, x.i>>
         /\ x.t = 3 /\ x.i # NPass(p) =>
              IsBarrier(c, Tmp((x.i - 1) % 2), "attachment", "readonly", {"color"}, {"frag"})
<1>1. c = Passed(p, x)
  BY DEF Cmd
<1>2. x.t = 0 /\ x.i = NPass(p) => IsPlain(c, "clear", Depth, "depth") /\ c.draw = <<x.n, x.i>>
  BY <1>1 DEF Passed, Command, IsPlain
<1>3. x.t = 1 => /\ IsPlain(c, "fetch", DrawnBy(p, x.i), "frag")
                 /\ c.from = ReadBy(p, x.i) /\ c.draw = <<x.n, x.i>>
  <2>1. x.t = 1 => c = [Command("fetch", DrawnBy(p, x.i), {"frag"}, {"frag"})
                          EXCEPT !.from = ReadBy(p, x.i), !.draw = <<x.n, x.i>>]
    BY <1>1 DEF Passed
  <2> QED
    BY <2>1 DEF Command, IsPlain
<1>4. x.t = 2 => /\ IsPlain(c, "store", DrawnBy(p, x.i), "color")
                 /\ c.fx = Passes(p.mask)[x.i] /\ c.draw = <<x.n, x.i>>
  <2>1. x.t = 2 => c = [Command("store", DrawnBy(p, x.i), {"color"}, {"color"})
                          EXCEPT !.fx = Passes(p.mask)[x.i], !.draw = <<x.n, x.i>>]
    BY <1>1 DEF Passed
  <2> QED
    BY <2>1 DEF Command, IsPlain
<1>5. x.t = 3 /\ x.i = NPass(p) => IsPlain(c, "test", Depth, "depth") /\ c.draw = <<x.n, x.i>>
  BY <1>1 DEF Passed, Command, IsPlain
<1>6. x.i # NPass(p) => DrawnBy(p, x.i) = Tmp((x.i - 1) % 2)
  BY DEF DrawnBy
<1>7. x.t = 0 /\ x.i # NPass(p) =>
        c = image_barrier(DrawnBy(p, x.i), "none", "attachment", {"frag"}, {"color"})
  BY <1>1 DEF Passed
<1>8. x.t = 3 /\ x.i # NPass(p) =>
        c = image_barrier(DrawnBy(p, x.i), "attachment", "readonly", {"color"}, {"frag"})
  BY <1>1 DEF Passed
<1> QED
  BY <1>2, <1>3, <1>4, <1>5, <1>6, <1>7, <1>8, Barriers

\* The end of a frame.
LEMMA EndSteps ==
  ASSUME NEW p, Settings(p), NEW x \in Labels, x.i = 6, Has(p, x), NEW c, c = Cmd(p, x)
  PROVE  /\ x.t = 0 => IsBarrier(c, Cam(p.b), "readonly", "foreign", {"frag"}, {})
         /\ x.t = 1 => IsBarrier(c, p.w, "attachment", "present", {"color"}, {})
         /\ x.t = 2 => /\ c.op = "end" /\ c.img = p.w /\ c.val = p.want /\ c.from = Cam(p.b)
                       /\ c.src = {} /\ c.dst = {} /\ c.draw = NoDraw
<1>1. c = EndedBy(p, x)
  BY DEF Cmd
<1>2. x.t = 0 => c = image_barrier(Cam(p.b), "readonly", "foreign", {"frag"}, {})
  BY <1>1 DEF EndedBy
<1>3. x.t = 1 => c = image_barrier(p.w, "attachment", "present", {"color"}, {})
  BY <1>1 DEF EndedBy
<1>4. x.t = 2 => c = [Command("end", p.w, {}, {}) EXCEPT !.val = p.want, !.from = Cam(p.b)]
  BY <1>1 DEF EndedBy, End
<1>5. x.t = 2 => /\ c.op = "end" /\ c.img = p.w /\ c.val = p.want /\ c.from = Cam(p.b)
                 /\ c.src = {} /\ c.dst = {} /\ c.draw = NoDraw
  BY <1>4 DEF Command
<1> QED
  BY <1>2, <1>3, <1>5, Barriers

\* Which names there are.
LEMMA Kinds ==
  ASSUME NEW p, Settings(p), NEW x \in Labels, Has(p, x)
  PROVE  /\ x.n \in Nat /\ x.i \in {0, 6} \cup (1 .. 5) /\ x.t \in {0, 1, 2, 3, 4, 5}
         /\ x.i = 6 => x.t \in {0, 1, 2}
         /\ x.i \in 1 .. 5 => x.t \in {0, 1, 2, 3} /\ x.i \in 1 .. NPass(p) /\ Drawn(p)
         /\ x.i \in 1 .. 5 /\ x.i # NPass(p) /\ x.t \in {0, 3} => OnVk(p)
         /\ x.i = 0 /\ x.t # 1 => OnVk(p)
         /\ x.i = 6 /\ x.t # 2 => OnVk(p)
         /\ NPass(p) \in 1 .. 5
  BY PassCount DEF Labels, Has, Drawn, OnVk

------------------------------------------------------------------------------
(* The steps, with the names *)

\* What the variables are, as far as the proofs need it.
Basics ==
  /\ scene \in AllScenes /\ zero_copy \in BOOLEAN /\ fallback_image_written \in BOOLEAN
  /\ zero_copy => scene = "vk"
  /\ latest \in 0 .. NBuf
  /\ DOMAIN layout = Memory /\ (scene # "shm" => DOMAIN mem = Memory)

\* What Execute leaves at place k of the queue.
Fed(i, k) ==
  IF queue[i].op = "fetch" /\ queue[Was(i, k)].op = "store" /\ queue[Was(i, k)].draw = queue[i].draw
    THEN [queue[Was(i, k)] EXCEPT
            !.val = IF queue[i].from = queue[i].img THEN Garbage ELSE mem[queue[i].from]]
    ELSE queue[Was(i, k)]

\* The program that is left is shorter by the command at place i.
Without(lab, par, rest, i) ==
  /\ QueueInv(rest, par)'
  /\ Left(rest) = Left(lab) \ {lab[i]}
  /\ \A k \in 1 .. Len(queue) - 1 : rest[k] = lab[Was(i, k)] /\ Was(i, k) \in 1 .. Len(queue)
  /\ Len(queue') = Len(queue) - 1

\* Execute takes one command that waits for nothing.
LEMMA Executes ==
  ASSUME NEW CONSTANT lab, NEW CONSTANT par, QueueInv(lab, par),
         NEW CONSTANT i \in DOMAIN queue, Execute(i)
  PROVE  /\ \E rest : Without(lab, par, rest, i)
         /\ \A k \in 1 .. Len(queue) - 1 : queue'[k] = Fed(i, k)
         /\ i \in 1 .. Len(queue) /\ \A j \in 1 .. i - 1 : ~Before(queue[j], queue[i])
<1>c. PICK C : queue \in Seq(C)
  BY DEF QueueInv
<1>m. PICK m \in Nat : m = Len(queue) /\ i \in 1 .. m
  BY <1>c
<1>r. PICK r : r = RemoveAt(queue, i)
  OBVIOUS
<1>1. /\ r \in Seq(C) /\ Len(r) = m - 1 /\ \A k \in 1 .. m - 1 : r[k] = queue[Was(i, k)]
  BY <1>c, <1>m, <1>r, Removed
<1>2. \A k \in 1 .. m - 1 : Was(i, k) \in 1 .. m
  BY <1>m DEF Was
<1>3. /\ \A j \in 1 .. i - 1 : ~Before(queue[j], queue[i])
      /\ queue' = IF queue[i].op = "fetch" THEN Fetched(r, queue[i]) ELSE r
      /\ UNCHANGED <<scene, zero_copy, frames>>
  BY <1>r, Zenon DEF Execute, Ready
<1>d. DOMAIN r = 1 .. m - 1
  BY <1>1
<1>4. DOMAIN queue' = 1 .. m - 1 /\ \A k \in 1 .. m - 1 : queue'[k] = Fed(i, k)
  <2>1. CASE queue[i].op = "fetch"
    <3>1. queue' = [j \in 1 .. m - 1 |->
                      IF r[j].op = "store" /\ r[j].draw = queue[i].draw
                        THEN [r[j] EXCEPT !.val = IF queue[i].from = queue[i].img THEN Garbage
                                                  ELSE mem[queue[i].from]]
                        ELSE r[j]]
      BY <1>3, <1>d, <2>1 DEF Fetched
    <3> QED
      BY <1>1, <2>1, <3>1 DEF Fed
  <2>2. CASE queue[i].op # "fetch"
    <3>1. queue' = r
      BY <1>3, <2>2
    <3> QED
      BY <1>1, <1>d, <2>2, <3>1 DEF Fed
  <2> QED
    BY <2>1, <2>2
<1>5. \E D : queue' \in Seq(D)
  <2>1. CASE queue[i].op = "fetch"
    <3>1. PICK q : q = queue'
      OBVIOUS
    <3>2. \E g : q = [j \in 1 .. m - 1 |-> g[j]]
      <4>1. q = [j \in 1 .. m - 1 |->
                      IF r[j].op = "store" /\ r[j].draw = queue[i].draw
                        THEN [r[j] EXCEPT !.val = IF queue[i].from = queue[i].img THEN Garbage
                                                  ELSE mem[queue[i].from]]
                        ELSE r[j]]
        BY <1>3, <1>d, <2>1, <3>1 DEF Fetched
      <4>2. q = [j \in 1 .. m - 1 |-> q[j]]
        BY <4>1
      <4> QED
        BY <4>2
    <3>3. PICK g : q = [j \in 1 .. m - 1 |-> g[j]]
      BY <3>2
    <3>4. m - 1 \in Nat
      BY <1>m
    <3>5. q \in [1 .. m - 1 -> {g[j] : j \in 1 .. m - 1}]
      BY <3>3
    <3>6. PICK G : G = {g[j] : j \in 1 .. m - 1}
      OBVIOUS
    <3>7. q \in Seq(G)
      <4>1. PICK n \in Nat : n = m - 1
        BY <3>4
      <4>2. q \in [1 .. n -> G]
        BY <3>5, <3>6, <4>1
      <4> QED
        BY <4>2
    <3>8. queue' \in Seq(G)
      BY <3>1, <3>7
    <3> QED
      BY <3>8
  <2>2. CASE queue[i].op # "fetch"
    BY <1>1, <1>3, <2>2
  <2> QED
    BY <2>1, <2>2
<1>6. Len(queue') = m - 1
  <2>1. PICK q : q = queue'
    OBVIOUS
  <2>2. PICK D : q \in Seq(D)
    BY <1>5, <2>1
  <2>3. DOMAIN q = 1 .. m - 1 /\ m - 1 \in Nat
    BY <1>4, <1>m, <2>1
  <2>4. Len(q) = m - 1
    BY <2>2, <2>3
  <2> QED
    BY <2>1, <2>4
<1>7. \A k \in 1 .. m - 1 : Like(queue'[k], queue[Was(i, k)])
  <2> SUFFICES ASSUME NEW k \in 1 .. m - 1 PROVE Like(Fed(i, k), queue[Was(i, k)])
    BY <1>4
  <2>1. PICK c : c = queue[Was(i, k)]
    OBVIOUS
  <2>2. IsCommand(c)
    BY <1>2, <1>m, <2>1 DEF QueueInv, Like
  <2>3. \A v : Like([c EXCEPT !.val = v], c)
    <3>1. TAKE v
    <3>2. PICK d : d = [c EXCEPT !.val = v]
      OBVIOUS
    <3>3. /\ d.op = c.op /\ d.img = c.img /\ d.src = c.src /\ d.dst = c.dst /\ d.from = c.from
          /\ d.fx = c.fx /\ d.old = c.old /\ d.new = c.new /\ d.draw = c.draw
      BY <2>2, <3>2 DEF IsCommand
    <3>4. IsCommand(d)
      BY <2>2, <3>2, Edited
    <3> QED
      BY <3>2, <3>3, <3>4 DEF Like
  <2>4. Like(c, c)
    BY <2>2 DEF Like
  <2> QED
    BY <2>1, <2>3, <2>4 DEF Fed
<1>8. \A j \in 1 .. i - 1 : ~Before(queue[j], queue[i])
  BY <1>3
<1>9. \E rest : /\ QueueInv(rest, par)' /\ Left(rest) = Left(lab) \ {lab[i]}
                /\ \A k \in 1 .. Len(queue) - 1 : rest[k] = lab[Was(i, k)]
  <2>1. Len(queue') = Len(queue) - 1
    BY <1>6, <1>m
  <2>2. \A k \in 1 .. Len(queue) - 1 : Like(queue'[k], queue[Was(i, k)])
    BY <1>7, <1>m
  <2>3. i \in 1 .. Len(queue)
    BY <1>m
  <2> QED
    BY <1>3, <1>5, <1>8, <2>1, <2>2, <2>3, Shorter
<1> QED
  BY <1>2, <1>4, <1>6, <1>8, <1>9, <1>m DEF Without

\* Finish takes the first command, which waits for nothing.
LEMMA Finishes ==
  ASSUME NEW CONSTANT lab, NEW CONSTANT par, QueueInv(lab, par), Finish
  PROVE  /\ \E rest : Without(lab, par, rest, 1)
         /\ \A k \in 1 .. Len(queue) - 1 : queue'[k] = queue[Was(1, k)]
         /\ 1 \in 1 .. Len(queue) /\ \A j \in 1 .. 1 - 1 : ~Before(queue[j], queue[1])
<1>c. PICK C : queue \in Seq(C)
  BY DEF QueueInv
<1>m. PICK m \in Nat : m = Len(queue) /\ 1 \in 1 .. m
  BY <1>c DEF Finish
<1>1. queue' \in Seq(C) /\ Len(queue') = m - 1 /\ \A k \in 1 .. m - 1 : queue'[k] = queue[k + 1]
  <2>1. PICK q : q = queue
    OBVIOUS
  <2>2. q \in Seq(C) /\ q # <<>> /\ Len(q) = m
    BY <1>c, <1>m, <2>1 DEF Finish
  <2>3. Tail(q) \in Seq(C) /\ Len(Tail(q)) = m - 1 /\ \A k \in 1 .. m - 1 : Tail(q)[k] = q[k + 1]
    BY <2>2
  <2>4. queue' = Tail(q)
    BY <2>1 DEF Finish
  <2> QED
    BY <2>1, <2>3, <2>4
<1>2. \A k \in 1 .. m - 1 : Was(1, k) = k + 1 /\ k + 1 \in 1 .. m
  BY DEF Was
<1>3. \A j \in 1 .. 1 - 1 : ~Before(queue[j], queue[1])
  OBVIOUS
<1>4. UNCHANGED <<scene, zero_copy, frames>>
  BY DEF Finish
<1>5. \A k \in 1 .. m - 1 : Like(queue'[k], queue[Was(1, k)])
  <2>1. \A k \in 1 .. m : Like(queue[k], The(par, lab[k]))
    BY <1>m DEF QueueInv
  <2> QED
    BY <1>1, <1>2, <2>1 DEF Like
<1>6. \E rest : /\ QueueInv(rest, par)' /\ Left(rest) = Left(lab) \ {lab[1]}
                /\ \A k \in 1 .. Len(queue) - 1 : rest[k] = lab[Was(1, k)]
  <2>1. \E D : queue' \in Seq(D)
    BY <1>1
  <2>2. Len(queue') = Len(queue) - 1
    BY <1>1, <1>m
  <2>3. \A k \in 1 .. Len(queue) - 1 : Like(queue'[k], queue[Was(1, k)])
    BY <1>5, <1>m
  <2>4. 1 \in 1 .. Len(queue)
    BY <1>m
  <2> QED
    BY <1>3, <1>4, <2>1, <2>2, <2>3, <2>4, Shorter
<1> QED
  BY <1>1, <1>2, <1>3, <1>6, <1>m DEF Without

\* The program is longer by the frame p.
With(lab, par, more, pars, p) ==
  /\ QueueInv(more, pars)'
  /\ \A n \in 1 .. frames : pars[n] = par[n]
  /\ pars[frames + 1] = p
  /\ Left(more) = Left(lab) \cup Names(p, frames + 1)
  /\ Program(pars, frames + 1) = Program(par, frames) \cup Names(p, frames + 1)
  /\ \A k \in 1 .. Len(queue) : more[k] = lab[k]
  /\ \E l \in Nat :
       /\ Len(queue') = Len(queue) + l
       /\ \A k \in 1 .. Len(queue) : queue'[k] = queue[k]
       /\ \A k \in 1 .. l : queue'[Len(queue) + k] = Cmd(p, more[Len(queue) + k])

\* What the frame is drawn with.
DrawnWith(p) ==
  /\ Settings(p) /\ p.scene = scene /\ p.zc = zero_copy /\ p.written = fallback_image_written
  /\ p.w \in Targets /\ p.b = (IF scene = "shm" THEN 0 ELSE latest)
  /\ p.want = Wanted(latest, p.mask) /\ p.pic = mem[Cam(latest)]

\* The next frame is drawn to no image of a frame in flight.
LEMMA TargetsAre == Targets \subseteq Window /\ \A w \in Targets, c \in Ends : c.img # w
<1>1. \A S : OneOf(S) \subseteq S
  BY DEF OneOf
<1> DEFINE idle == {w \in Window : w # shown /\ \A c \in Ends : c.img # w}
<1>2. idle \subseteq Window /\ \A w \in idle, c \in Ends : c.img # w
  OBVIOUS
<1> HIDE DEF idle
<1>3. OneOf(idle \ engine) \subseteq idle /\ OneOf(idle \cap engine) \subseteq idle
  BY <1>1
<1>4. Targets = OneOf(idle \ engine) \cup (IF scene = "vk" THEN OneOf(idle \cap engine) ELSE {})
  BY Zenon DEF Targets, idle
<1> QED
  BY <1>2, <1>3, <1>4

\* Draw appends a frame under its names, and what else it does.
LEMMA Draws ==
  ASSUME NEW CONSTANT lab, NEW CONSTANT par, QueueInv(lab, par), Basics, Draw
  PROVE  \E more, pars, p :
           /\ With(lab, par, more, pars, p) /\ DrawnWith(p)
           /\ scene = "vk" =>
                /\ mem' = IF latest # 0 /\ ~zero_copy
                            THEN [mem EXCEPT ![StagingOf((frames + 1) % NLanes)] = mem[Cam(latest)]]
                            ELSE mem
                /\ fallback_image_written' = (fallback_image_written \/ (latest # 0 /\ ~zero_copy))
           /\ scene = "gles" => UNCHANGED <<mem, fallback_image_written>>
           /\ scene = "shm" => /\ mem' = ShmDraw(mem, p.w, latest, p.mask)
                               /\ UNCHANGED fallback_image_written
<1>1. PICK w \in Targets, look \in Looks :
        \/ DrawVk(w, look[1], look[2]) \/ DrawGles(w, look[1], look[2]) \/ DrawShm(w, look[1])
  BY DEF Draw
<1>2. w \in Window /\ look[1] \in SUBSET Effects /\ look[2] \in BOOLEAN
  BY TargetsAre, ChainAssumption
<1>n. PICK N \in Nat : N = frames + 1
  BY DEF QueueInv
<1>3. PICK b, mask, cube : /\ b = IF scene = "shm" THEN 0 ELSE latest
                           /\ mask = look[1] /\ cube = look[2] /\ N = frames + 1
  BY <1>n
<1>4. PICK p : p = [scene |-> scene, zc |-> zero_copy, written |-> fallback_image_written, w |-> w,
                    b |-> b, mask |-> mask, cube |-> cube, want |-> Wanted(latest, mask),
                    pic |-> mem[Cam(latest)]]
  OBVIOUS
<1>5. /\ p.scene = scene /\ p.zc = zero_copy /\ p.written = fallback_image_written /\ p.w = w
      /\ p.b = b /\ p.mask = mask /\ p.cube = cube /\ p.want = Wanted(latest, mask)
      /\ p.pic = mem[Cam(latest)]
  BY <1>4
<1>6. DrawnWith(p)
  <2>1. Settings(p)
    <3>1. b \in 0 .. NBuf
      BY <1>3, ChainAssumption DEF Basics
    <3>2. scene \in AllScenes /\ zero_copy \in BOOLEAN /\ fallback_image_written \in BOOLEAN
      BY DEF Basics
    <3> QED
      BY <1>2, <1>3, <1>5, <3>1, <3>2 DEF Settings
  <2> QED
    BY <1>1, <1>3, <1>5, <2>1 DEF DrawnWith
<1>7. UNCHANGED <<scene, zero_copy>> /\ frames' = frames + 1
  BY DEF Draw
<1>8. ASSUME NEW CONSTANT s, Records(s, p, Names(p, N)), queue' = queue \o s
      PROVE  \E more, pars : With(lab, par, more, pars, p)
  <2>1. Records(s, p, Names(p, frames + 1)) /\ p.scene = scene /\ p.zc = zero_copy
    BY <1>3, <1>5, <1>8
  <2>2. PICK l \in Nat : l = Len(s)
    <3>1. PICK C : s \in Seq(C)
      BY <1>8 DEF Records
    <3>2. Len(s) \in Nat
      BY <3>1
    <3> QED
      BY <3>2
  <2>3. PICK more, pars :
           /\ QueueInv(more, pars)'
           /\ \A n \in 1 .. frames : pars[n] = par[n]
           /\ pars[frames + 1] = p
           /\ Left(more) = Left(lab) \cup Names(p, frames + 1)
           /\ Program(pars, frames + 1) = Program(par, frames) \cup Names(p, frames + 1)
           /\ \A k \in 1 .. Len(queue) : more[k] = lab[k]
           /\ Len(queue') = Len(queue) + Len(s)
           /\ \A k \in 1 .. Len(queue) : queue'[k] = queue[k]
           /\ \A k \in 1 .. Len(s) : queue'[Len(queue) + k] = Cmd(p, more[Len(queue) + k])
    <3>1. Settings(p) /\ queue' = queue \o s
      BY <1>6, <1>8 DEF DrawnWith
    <3>2. /\ Records(s, p, Names(p, frames + 1)) /\ p.scene = scene /\ p.zc = zero_copy
          /\ frames' = frames + 1 /\ UNCHANGED <<scene, zero_copy>>
      BY <1>7, <2>1
    <3> QED
      BY <3>1, <3>2, Longer, SMTT(60)
  <2>4. With(lab, par, more, pars, p)
    BY <2>2, <2>3 DEF With
  <2> QED
    BY <2>4
<1>q. PICK A : queue \in Seq(A)
  BY DEF QueueInv
<1>9. ASSUME NEW CONSTANT f, NEW CONSTANT B, f \in Seq(B), NEW CONSTANT e
      PROVE  (queue \o f) \o <<e>> = queue \o (f \o <<e>>)
  <2>1. PICK D : D = A \cup B \cup {e}
    OBVIOUS
  <2>2. queue \in Seq(D) /\ f \in Seq(D) /\ <<e>> \in Seq(D)
    <3>1. A \subseteq D /\ B \subseteq D /\ e \in D
      BY <2>1
    <3>2. <<e>> \in Seq({e}) /\ {e} \subseteq D
      BY <3>1
    <3> QED
      BY <1>q, <1>9, <3>1, <3>2
  <2> QED
    BY <2>2, ConcatAssociative
<1>10. CASE DrawVk(w, look[1], look[2])
  <2>1. scene = "vk" /\ scene # "shm" /\ scene # "gles" /\ p.b = latest
    BY <1>3, <1>5, <1>10 DEF DrawVk
  <2>2. PICK f : f = FrameCommands(w, latest, mask, cube, N)
    OBVIOUS
  <2>3. PICK e : e = End(w, Wanted(latest, mask), latest)
    OBVIOUS
  <2>4. /\ Records(FrameCommands(p.w, p.b, p.mask, p.cube, N) \o <<End(p.w, p.want, p.b)>>, p, Names(p, N))
        /\ \E B : FrameCommands(p.w, p.b, p.mask, p.cube, N) \in Seq(B)
    BY <1>5, <1>6, <2>1, RecordsVk DEF OnVk, DrawnWith
  <2>5. Records(f \o <<e>>, p, Names(p, N)) /\ \E B : f \in Seq(B)
    BY <1>5, <2>1, <2>2, <2>3, <2>4
  <2>6. queue' = (queue \o f) \o <<e>>
    BY <1>3, <1>10, <2>2, <2>3 DEF DrawVk
  <2>7. queue' = queue \o (f \o <<e>>)
    BY <1>9, <2>5, <2>6
  <2>8. PICK s : s = f \o <<e>>
    OBVIOUS
  <2>9. \E more, pars : With(lab, par, more, pars, p)
    BY <1>8, <2>5, <2>7, <2>8
  <2> QED
    BY <1>6, <1>10, <2>1, <2>9 DEF DrawVk
<1>11. CASE DrawGles(w, look[1], look[2])
  <2>1. scene = "gles" /\ scene # "shm" /\ scene # "vk" /\ p.b = latest
    BY <1>3, <1>5, <1>11 DEF DrawGles
  <2>2. PICK f : f = GlesCommands(w, latest, mask, cube, N)
    OBVIOUS
  <2>3. PICK e : e = End(w, Wanted(latest, mask), latest)
    OBVIOUS
  <2>4. /\ Records(GlesCommands(p.w, p.b, p.mask, p.cube, N) \o <<End(p.w, p.want, p.b)>>, p, Names(p, N))
        /\ \E B : GlesCommands(p.w, p.b, p.mask, p.cube, N) \in Seq(B)
    BY <1>5, <1>6, <2>1, RecordsGles DEF DrawnWith
  <2>5. Records(f \o <<e>>, p, Names(p, N)) /\ \E B : f \in Seq(B)
    BY <1>5, <2>1, <2>2, <2>3, <2>4
  <2>6. queue' = (queue \o f) \o <<e>>
    BY <1>3, <1>11, <2>2, <2>3 DEF DrawGles
  <2>7. queue' = queue \o (f \o <<e>>)
    BY <1>9, <2>5, <2>6
  <2>8. PICK s : s = f \o <<e>>
    OBVIOUS
  <2>9. \E more, pars : With(lab, par, more, pars, p)
    BY <1>8, <2>5, <2>7, <2>8
  <2> QED
    BY <1>6, <1>11, <2>1, <2>9 DEF DrawGles
<1>12. CASE DrawShm(w, look[1])
  <2>1. scene = "shm" /\ scene # "gles" /\ scene # "vk" /\ p.b = 0
    BY <1>3, <1>5, <1>12 DEF DrawShm
  <2>2. PICK s : s = <<End(w, Wanted(latest, mask), 0)>>
    OBVIOUS
  <2>3. Records(<<End(p.w, p.want, p.b)>>, p, Names(p, N))
    BY <1>5, <1>6, <2>1, RecordsShm DEF DrawnWith
  <2>4. Records(s, p, Names(p, N))
    BY <1>5, <2>1, <2>2, <2>3
  <2>5. queue' = queue \o s
    BY <1>3, <1>12, <2>2 DEF DrawShm
  <2>6. \E more, pars : With(lab, par, more, pars, p)
    BY <1>8, <2>4, <2>5
  <2>7. mem' = ShmDraw(mem, p.w, latest, p.mask) /\ UNCHANGED fallback_image_written
    BY <1>3, <1>5, <1>12 DEF DrawShm
  <2> QED
    BY <1>6, <2>1, <2>6, <2>7
<1> QED
  BY <1>1, <1>10, <1>11, <1>12

------------------------------------------------------------------------------
(* The camera's buffers *)

\* The barriers of a frame.
BarrierKind(p, x, c) ==
  \/ x.i = 0 /\ x.t = 1 /\ IsBarrier(c, p.w, "none", "attachment", {}, {"color"})
  \/ x.i = 0 /\ x.t = 2 /\ IsBarrier(c, Depth, "none", "depth", {"depth"}, {"depth"})
  \/ /\ x.i = 0 /\ x.t = 3 /\ p.b # 0 /\ p.zc
     /\ IsBarrier(c, Cam(p.b), "foreign", "readonly", {}, {"frag"})
  \/ /\ x.i = 0 /\ x.t = 3 /\ p.b # 0 /\ ~p.zc
     /\ IsBarrier(c, Upload, UploadOld(p.written), "transfer", {"frag"}, {"transfer"})
  \/ /\ x.i = 0 /\ x.t = 5 /\ p.b # 0 /\ ~p.zc
     /\ IsBarrier(c, Upload, "transfer", "readonly", {"transfer"}, {"frag"})
  \/ /\ x.i \in 1 .. 5 /\ x.i # NPass(p) /\ x.t = 0
     /\ IsBarrier(c, Tmp((x.i - 1) % 2), "none", "attachment", {"frag"}, {"color"})
  \/ /\ x.i \in 1 .. 5 /\ x.i # NPass(p) /\ x.t = 3
     /\ IsBarrier(c, Tmp((x.i - 1) % 2), "attachment", "readonly", {"color"}, {"frag"})
  \/ x.i = 6 /\ x.t = 0 /\ p.zc /\ IsBarrier(c, Cam(p.b), "readonly", "foreign", {"frag"}, {})
  \/ x.i = 6 /\ x.t = 1 /\ IsBarrier(c, p.w, "attachment", "present", {"color"}, {})

\* There are no other barriers.
LEMMA BarriersAre ==
  ASSUME NEW p, Settings(p), NEW x \in Labels, Has(p, x), NEW c, c = Cmd(p, x), c.op = "barrier"
  PROVE  BarrierKind(p, x, c)
<1>1. CASE x.i = 0
  <2>1. x.t \in {0, 1, 2, 3, 4, 5}
    BY Kinds
  <2>2. (x.t \in {4, 5} => p.b # 0 /\ ~p.zc) /\ p.zc \in BOOLEAN
    BY <1>1 DEF Has, Settings
  <2>3. BlackStore(p.w).op # "barrier"
    BY BlackStores DEF IsPlain
  <2>4. x.t # 0 /\ x.t # 4
    BY <1>1, Preparation DEF IsPlain
  <2>5. x.t = 1 => OnVk(p)
    BY <1>1, <2>3, Preparation
  <2>6. x.t = 3 => p.b # 0
    BY <1>1, <2>3, Preparation
  <2> QED
    BY <1>1, <2>1, <2>2, <2>4, <2>5, <2>6, Preparation DEF BarrierKind
<1>2. CASE x.i \in 1 .. 5
  <2>1. x.t \in {0, 1, 2, 3}
    BY <1>2, Kinds
  <2>2. x.t \in {0, 3} /\ x.i # NPass(p)
    BY <1>2, <2>1, PassSteps DEF IsPlain
  <2> QED
    BY <1>2, <2>2, PassSteps DEF BarrierKind
<1>3. CASE x.i = 6
  <2>1. x.t \in {0, 1, 2} /\ (x.t = 0 => p.zc)
    BY <1>3, Kinds, PassCount DEF Has
  <2> QED
    BY <1>3, <2>1, EndSteps DEF BarrierKind
<1> QED
  BY <1>1, <1>2, <1>3, Kinds

\* The parts of a name.
LEMMA Labelled ==
  ASSUME NEW n, NEW i, NEW t
  PROVE  At(n, i, t).n = n /\ At(n, i, t).i = i /\ At(n, i, t).t = t
  BY DEF At

\* What is left is a command of a frame that was recorded.
LEMMA IsLeft ==
  ASSUME NEW CONSTANT lab, NEW CONSTANT par, QueueInv(lab, par), NEW CONSTANT x \in Left(lab)
  PROVE  /\ x \in Program(par, frames) /\ x \in Labels /\ x.n \in 1 .. frames
         /\ Has(par[x.n], x) /\ Settings(par[x.n])
         /\ par[x.n].scene = scene /\ par[x.n].zc = zero_copy
<1>1. x \in Program(par, frames)
  BY InQueue
<1>2. x \in Labels /\ x.n \in 1 .. frames /\ Has(par[x.n], x)
  BY <1>1 DEF Program
<1> QED
  BY <1>1, <1>2 DEF QueueInv

\* N frames of one scene, and a part of their program that keeps what must come after
\* something in it.
Recorded(par, N, s, z) ==
  /\ N \in Nat
  /\ \A n \in 1 .. N : Settings(par[n]) /\ par[n].scene = s /\ par[n].zc = z
\* L is such a part.
Closed(L, par, N) ==
  /\ L \subseteq Program(par, N)
  /\ \A x \in L, y \in Program(par, N) : Must(par, x, y) => y \in L

\* What is left is such a part.
LEMMA ClosedNow ==
  ASSUME NEW CONSTANT lab, NEW CONSTANT par, QueueInv(lab, par)
  PROVE  Recorded(par, frames, scene, zero_copy) /\ Closed(Left(lab), par, frames)
BY InQueue DEF QueueInv, Recorded, Closed

\* What could be executed may be taken away.
LEMMA ClosedNext ==
  ASSUME NEW CONSTANT lab, NEW CONSTANT par, QueueInv(lab, par),
         NEW CONSTANT i \in 1 .. Len(queue), \A j \in 1 .. i - 1 : ~Before(queue[j], queue[i])
  PROVE  Closed(Left(lab) \ {lab[i]}, par, frames)
<1>1. \A x \in Left(lab) : ~Must(par, x, lab[i])
  BY Foremost
<1> QED
  BY <1>1, ClosedNow DEF Closed

\* What is known of a name in the program.
LEMMA OfProgram ==
  ASSUME NEW par, NEW N, NEW s, NEW z, Recorded(par, N, s, z), NEW x \in Program(par, N)
  PROVE  /\ x \in Labels /\ x.n \in 1 .. N /\ x.n \in Nat /\ x.n # 0 /\ Has(par[x.n], x)
         /\ Settings(par[x.n]) /\ par[x.n].scene = s /\ par[x.n].zc = z
         /\ The(par, x) = Cmd(par[x.n], x)
<1>1. x \in Labels /\ x.n \in 1 .. N /\ Has(par[x.n], x)
  BY DEF Program
<1>2. Settings(par[x.n]) /\ par[x.n].scene = s /\ par[x.n].zc = z
  BY <1>1 DEF Recorded
<1> QED
  BY <1>1, <1>2 DEF The

\* The frames end in order, and each after everything it does.
LEMMA EndStays ==
  ASSUME NEW par, NEW N, NEW s, NEW z, Recorded(par, N, s, z), NEW L, Closed(L, par, N),
         NEW x \in L, NEW n \in 1 .. N, x.n <= n
  PROVE  At(n, 6, 2) \in L
<1>1. /\ x \in Labels /\ x.n \in 1 .. N /\ Has(par[x.n], x) /\ Settings(par[x.n]) /\ Settings(par[n])
      /\ n \in Nat
  BY OfProgram DEF Closed, Recorded
<1>2. PICK e : e = At(n, 6, 2) /\ e.n = n /\ e.i = 6 /\ e.t = 2
  BY Labelled
<1>3. e \in Labels /\ Has(par[n], e)
  BY <1>1, <1>2 DEF Labels, At, Has
<1>4. CASE x = e
  BY <1>2, <1>4
<1>5. CASE x # e
  <2>1. Less(x, e)
    <3>1. ~Less(e, x)
      <4>1. ~(n < x.n) /\ ~(6 < x.i) /\ (x.i = 6 => ~(2 < x.t))
        BY <1>1, Kinds
      <4> QED
        BY <1>2, <4>1 DEF Less
    <3> QED
      BY <1>1, <1>3, <1>5, <3>1, OneOrder
  <2>2. The(par, e).op = "end"
    BY <1>1, <1>2, <1>3, EndSteps DEF The
  <2>3. Must(par, x, e) /\ e \in Program(par, N)
    BY <1>2, <1>3, <2>1, <2>2 DEF Must, Ordered, Program
  <2> QED
    BY <1>2, <2>3 DEF Closed
<1> QED
  BY <1>4, <1>5

\* A frame of which something is left has not ended, nor have the later ones.
LEMMA EndIsLeft ==
  ASSUME NEW CONSTANT lab, NEW CONSTANT par, QueueInv(lab, par),
         NEW CONSTANT x \in Left(lab), NEW CONSTANT n \in 1 .. frames, x.n <= n
  PROVE  At(n, 6, 2) \in Left(lab)
BY ClosedNow, EndStays

\* An image that is not with the camera has its way back in the queue.
CamInv(lab, par) ==
  \A b \in Bufs : layout[Cam(b)] # "foreign" =>
    \E n \in 1 .. frames : par[n].b = b /\ At(n, 6, 0) \in Left(lab)

\* So a buffer that no frame in flight uses is with the camera.
LEMMA CamInvGives ==
  ASSUME NEW CONSTANT lab, NEW CONSTANT par, QueueInv(lab, par), CamInv(lab, par)
  PROVE  BackWithCamera
<1> SUFFICES ASSUME NEW CONSTANT b \in Bufs, layout[Cam(b)] # "foreign" PROVE InUse(b)
  BY DEF BackWithCamera
<1>1. PICK n \in 1 .. frames : par[n].b = b /\ At(n, 6, 0) \in Left(lab)
  BY DEF CamInv
<1>2. At(n, 6, 2) \in Left(lab)
  <2>1. At(n, 6, 0).n <= n
    BY DEF At, QueueInv
  <2> QED
    BY <1>1, <2>1, EndIsLeft
<1>3. PICK k \in 1 .. Len(queue) : lab[k] = At(n, 6, 2)
  <2>1. \E k \in 1 .. Len(queue) : At(n, 6, 2) = lab[k]
    BY <1>2, InQueue
  <2> QED
    BY <2>1
<1>4. PICK e : e = At(n, 6, 2) /\ e.n = n /\ e.i = 6 /\ e.t = 2
  BY Labelled
<1>5. e \in Labels /\ Has(par[n], e) /\ Settings(par[n])
  BY <1>2, <1>4, InQueue DEF Program, QueueInv
<1>6. The(par, e).op = "end" /\ The(par, e).from = Cam(b)
  BY <1>1, <1>4, <1>5, EndSteps DEF The
<1>7. queue[k].op = "end" /\ queue[k].from = Cam(b)
  BY <1>3, <1>4, <1>6 DEF QueueInv, Like
<1>8. queue[k] \in Range(queue)
  BY DEF Range, QueueInv
<1> QED
  BY <1>7, <1>8 DEF InUse, Ends

\* Only an acquire takes an image from the camera, and its release is still to come.
LEMMA CamInvExecutes ==
  ASSUME NEW CONSTANT lab, NEW CONSTANT par, QueueInv(lab, par), CamInv(lab, par), Basics,
         NEW CONSTANT i \in DOMAIN queue, Execute(i),
         NEW CONSTANT rest, Without(lab, par, rest, i)
  PROVE  CamInv(rest, par)'
<1> SUFFICES ASSUME NEW CONSTANT b \in Bufs, layout'[Cam(b)] # "foreign"
             PROVE  \E n \in 1 .. frames' : par[n].b = b /\ At(n, 6, 0) \in Left(rest)
  BY DEF CamInv
<1>1. i \in 1 .. Len(queue) /\ \A j \in 1 .. i - 1 : ~Before(queue[j], queue[i])
  BY Executes
<1>2. PICK z : z = lab[i]
  OBVIOUS
<1>3. z \in Labels /\ z.n \in 1 .. frames /\ Has(par[z.n], z) /\ Settings(par[z.n]) /\ z \in Left(lab)
  <2>1. z \in Left(lab)
    BY <1>1, <1>2, InQueue
  <2> QED
    BY <2>1, IsLeft
<1>4. PICK c : c = The(par, z)
  OBVIOUS
<1>5. Like(queue[i], c)
  BY <1>1, <1>2, <1>4 DEF QueueInv
<1>6. Cam(b) \in DOMAIN layout
  BY DEF Basics, Memory
<1>7. /\ frames' = frames
      /\ layout' = IF c.op = "barrier" THEN [layout EXCEPT ![c.img] = c.new] ELSE layout
  BY <1>5 DEF Execute, Like
<1>8. Left(rest) = Left(lab) \ {z}
  BY <1>2 DEF Without
<1>9. c.op = "barrier" => BarrierKind(par[z.n], z, c)
  BY <1>3, <1>4, BarriersAre DEF The
<1>10. \A n \in 1 .. frames : par[n].w # Cam(b)
  BY DEF QueueInv, Settings, Window, Win, Cam
<1>11. ASSUME NEW n \in 1 .. frames, z = At(n, 6, 0)
       PROVE  c.op = "barrier" /\ c.img = Cam(par[n].b) /\ c.new = "foreign"
  <2>1. z.n = n /\ z.i = 6 /\ z.t = 0
    BY <1>11 DEF At
  <2> QED
    BY <1>3, <1>4, <2>1, EndSteps DEF The, IsBarrier
<1>12. CASE c.op = "barrier" /\ c.img = Cam(b)
  <2>1. c.new # "foreign"
    BY <1>6, <1>7, <1>12
  <2>2. /\ z.i = 0 /\ z.t = 3 /\ par[z.n].b # 0 /\ par[z.n].zc
        /\ IsBarrier(c, Cam(par[z.n].b), "foreign", "readonly", {}, {"frag"})
    BY <1>3, <1>9, <1>10, <1>12, <2>1 DEF BarrierKind, IsBarrier, Depth, Upload, Tmp, Cam
  <2>3. par[z.n].b = b
    BY <1>12, <2>2 DEF IsBarrier, Cam
  <2>4. PICK y : y = At(z.n, 6, 0) /\ y.n = z.n /\ y.i = 6 /\ y.t = 0
    BY Labelled
  <2>5. y \in Labels /\ Has(par[y.n], y) /\ y \in Program(par, frames)
    <3>1. OnVk(par[z.n])
      BY <1>3, <2>2, Kinds
    <3>2. z.n \in Nat
      BY <1>3 DEF Labels
    <3>3. y \in Labels /\ Has(par[y.n], y)
      BY <2>2, <2>4, <3>1, <3>2 DEF Labels, At, Has
    <3> QED
      BY <1>3, <2>4, <3>3 DEF Program
  <2>6. IsBarrier(The(par, y), Cam(b), "readonly", "foreign", {"frag"}, {})
    BY <1>3, <2>3, <2>4, <2>5, EndSteps DEF The
  <2>7. Must(par, z, y)
    <3>1. Less(z, y)
      BY <1>3, <2>2, <2>4 DEF Less
    <3> QED
      BY <1>4, <2>2, <2>6, <3>1 DEF Must, Ordered, IsBarrier, IsSync
  <2>8. y \in Left(rest)
    <3>1. y \in Left(lab)
      BY <1>3, <2>5, <2>7 DEF QueueInv
    <3> QED
      BY <1>8, <2>2, <2>4, <3>1
  <2> QED
    BY <1>3, <1>7, <2>3, <2>4, <2>8
<1>13. CASE ~(c.op = "barrier" /\ c.img = Cam(b))
  <2>1. layout[Cam(b)] # "foreign"
    BY <1>6, <1>7, <1>13
  <2>2. PICK n \in 1 .. frames : par[n].b = b /\ At(n, 6, 0) \in Left(lab)
    BY <2>1 DEF CamInv
  <2>3. At(n, 6, 0) # z
    BY <1>11, <1>13, <2>2
  <2> QED
    BY <1>7, <1>8, <2>2, <2>3
<1> QED
  BY <1>12, <1>13

\* The end of a frame changes no layout.
LEMMA CamInvFinishes ==
  ASSUME NEW CONSTANT lab, NEW CONSTANT par, QueueInv(lab, par), CamInv(lab, par), Finish,
         NEW CONSTANT rest, Without(lab, par, rest, 1)
  PROVE  CamInv(rest, par)'
<1> SUFFICES ASSUME NEW CONSTANT b \in Bufs, layout'[Cam(b)] # "foreign"
             PROVE  \E n \in 1 .. frames' : par[n].b = b /\ At(n, 6, 0) \in Left(rest)
  BY DEF CamInv
<1>1. 1 \in 1 .. Len(queue)
  BY Finishes
<1>2. PICK z : z = lab[1]
  OBVIOUS
<1>3. The(par, z).op = "end"
  BY <1>1, <1>2 DEF QueueInv, Like, Finish
<1>4. PICK n \in 1 .. frames : par[n].b = b /\ At(n, 6, 0) \in Left(lab)
  BY DEF CamInv, Finish
<1>5. PICK y : y = At(n, 6, 0) /\ y.n = n /\ y.i = 6 /\ y.t = 0
  BY Labelled
<1>6. The(par, y).op = "barrier"
  BY <1>4, <1>5, IsLeft, EndSteps DEF The, IsBarrier
<1>7. y # z
  BY <1>3, <1>6
<1>8. Left(rest) = Left(lab) \ {z} /\ frames' = frames
  BY <1>2 DEF Without, Finish
<1> QED
  BY <1>4, <1>5, <1>7, <1>8

\* A new frame adds only commands.
LEMMA CamInvDraws ==
  ASSUME NEW CONSTANT lab, NEW CONSTANT par, QueueInv(lab, par), CamInv(lab, par), Draw,
         NEW CONSTANT more, NEW CONSTANT pars, NEW CONSTANT p, With(lab, par, more, pars, p)
  PROVE  CamInv(more, pars)'
<1> SUFFICES ASSUME NEW CONSTANT b \in Bufs, layout'[Cam(b)] # "foreign"
             PROVE  \E n \in 1 .. frames' : pars[n].b = b /\ At(n, 6, 0) \in Left(more)
  BY DEF CamInv
<1>1. layout' = layout /\ frames' = frames + 1
  BY DEF Draw
<1>2. PICK n \in 1 .. frames : par[n].b = b /\ At(n, 6, 0) \in Left(lab)
  BY <1>1 DEF CamInv
<1>3. n \in 1 .. frames' /\ pars[n] = par[n] /\ At(n, 6, 0) \in Left(more)
  BY <1>1, <1>2 DEF With, QueueInv
<1> QED
  BY <1>2, <1>3

------------------------------------------------------------------------------
(* Who uses an image, and in which order *)

\* The other commands that use an image.
PlainKind(p, x, c) ==
  \/ x.i = 0 /\ x.t = 3 /\ p.b = 0 /\ IsPlain(c, "store", p.w, "color")
  \/ x.i = 0 /\ x.t = 4 /\ p.b # 0 /\ ~p.zc /\ IsPlain(c, "copy", Upload, "transfer")
  \/ /\ x.i \in 1 .. 5 /\ x.i = NPass(p) /\ x.t = 0
     /\ IsPlain(c, "clear", Depth, "depth") /\ c.draw = <<x.n, x.i>>
  \/ /\ x.i \in 1 .. 5 /\ x.i <= NPass(p) /\ x.t = 1 /\ p.b # 0
     /\ IsPlain(c, "fetch", DrawnBy(p, x.i), "frag") /\ c.from = ReadBy(p, x.i)
     /\ c.draw = <<x.n, x.i>>
  \/ /\ x.i \in 1 .. 5 /\ x.i <= NPass(p) /\ x.t = 2
     /\ IsPlain(c, "store", DrawnBy(p, x.i), "color") /\ c.draw = <<x.n, x.i>>
  \/ /\ x.i \in 1 .. 5 /\ x.i = NPass(p) /\ x.t = 3
     /\ IsPlain(c, "test", Depth, "depth") /\ c.draw = <<x.n, x.i>>

\* There are no other commands on images.
LEMMA PlainAre ==
  ASSUME NEW p, Settings(p), OnVk(p), NEW x \in Labels, Has(p, x), NEW c, c = Cmd(p, x),
         c.op \notin {"barrier", "wait", "end"}
  PROVE  PlainKind(p, x, c)
<1>1. CASE x.i = 0
  <2>1. x.t \in {0, 1, 2, 3, 4, 5}
    BY Kinds
  <2>2. (x.t \in {4, 5} => p.b # 0 /\ ~p.zc) /\ p.zc \in BOOLEAN
    BY <1>1 DEF Has, Settings
  <2>3. x.t # 0 /\ x.t # 1 /\ x.t # 2 /\ x.t # 5 /\ (x.t = 3 => p.b = 0)
    BY <1>1, <2>2, Preparation DEF IsBarrier
  <2> QED
    BY <1>1, <2>1, <2>2, <2>3, Preparation, BlackStores DEF PlainKind
<1>2. CASE x.i \in 1 .. 5
  <2>1. x.t \in {0, 1, 2, 3} /\ x.i \in 1 .. NPass(p) /\ p.b # 0 /\ x.i <= NPass(p)
    BY <1>2, Kinds DEF Drawn
  <2>2. x.t \in {0, 3} => x.i = NPass(p)
    BY <1>2, PassSteps DEF IsBarrier
  <2> QED
    BY <1>2, <2>1, <2>2, PassSteps DEF PlainKind
<1>3. CASE x.i = 6
  <2>1. x.t \in {0, 1, 2}
    BY <1>3, Kinds
  <2> QED
    BY <1>3, <2>1, EndSteps DEF IsBarrier
<1> QED
  BY <1>1, <1>2, <1>3, Kinds

\* The images are different.
LEMMA Images ==
  /\ Depth # Upload /\ Tmp(0) # Tmp(1)
  /\ \A d : Tmp(d) # Depth /\ Tmp(d) # Upload
  /\ \A b, d : Cam(b) # Tmp(d)
  /\ \A b : Cam(b) # Depth /\ Cam(b) # Upload /\ Cam(b)[1] = "cam"
  /\ \A d, e : Tmp(d) = Tmp(e) => d = e
  /\ \A w \in Window : /\ w # Depth /\ w # Upload /\ w[1] # "cam"
                       /\ \A b, d : w # Cam(b) /\ w # Tmp(d)
  BY DEF Depth, Upload, Tmp, Cam, Window, Win

\* Who uses the depth image.
LEMMA DepthUser ==
  ASSUME NEW p, Settings(p), OnVk(p), NEW x \in Labels, Has(p, x), NEW c, c = Cmd(p, x),
         c.op \notin {"wait", "end"}, Uses(c) = Depth
  PROVE  /\ c.src = {"depth"} /\ c.dst = {"depth"}
         /\ \/ x.i = 0 /\ x.t = 2 /\ IsBarrier(c, Depth, "none", "depth", {"depth"}, {"depth"})
            \/ /\ x.i = NPass(p) /\ x.i \in 1 .. 5 /\ c.draw = <<x.n, x.i>>
               /\ (x.t = 0 /\ c.op = "clear") \/ (x.t = 3 /\ c.op = "test")
<1>0. p.w \in Window
  BY DEF Settings
<1>1. CASE c.op = "barrier"
  <2>1. BarrierKind(p, x, c)
    BY <1>1, BarriersAre
  <2>2. c.img = Depth
    BY <1>1 DEF Uses
  <2> QED
    BY <1>0, <2>1, <2>2, Images DEF BarrierKind, IsBarrier
<1>2. CASE c.op # "barrier"
  <2>1. PlainKind(p, x, c)
    BY <1>2, PlainAre
  <2>2. \A i : ReadBy(p, i) # Depth
    BY Images DEF ReadBy, Source, First
  <2>3. \A i : DrawnBy(p, i) # Depth
    BY <1>0, Images DEF DrawnBy
  <2>4. c.op # "fetch" => c.img = Depth
    BY DEF Uses
  <2>5. c.op = "fetch" => c.from = Depth
    BY DEF Uses
  <2> QED
    BY <1>0, <2>1, <2>2, <2>3, <2>4, <2>5, Images DEF PlainKind, IsPlain
<1> QED
  BY <1>1, <1>2

\* Who uses the upload image.
LEMMA UploadUser ==
  ASSUME NEW p, Settings(p), OnVk(p), NEW x \in Labels, Has(p, x), NEW c, c = Cmd(p, x),
         c.op \notin {"wait", "end"}, Uses(c) = Upload
  PROVE  /\ p.b # 0 /\ ~p.zc
         /\ \/ /\ x.i = 0 /\ x.t = 3
               /\ IsBarrier(c, Upload, UploadOld(p.written), "transfer", {"frag"}, {"transfer"})
            \/ x.i = 0 /\ x.t = 4 /\ IsPlain(c, "copy", Upload, "transfer")
            \/ /\ x.i = 0 /\ x.t = 5
               /\ IsBarrier(c, Upload, "transfer", "readonly", {"transfer"}, {"frag"})
            \/ /\ x.i = 1 /\ x.t = 1 /\ c.op = "fetch" /\ c.src = {"frag"} /\ c.dst = {"frag"}
               /\ c.from = Upload
<1>0. p.w \in Window
  BY DEF Settings
<1>1. CASE c.op = "barrier"
  <2>1. BarrierKind(p, x, c)
    BY <1>1, BarriersAre
  <2>2. c.img = Upload
    BY <1>1 DEF Uses
  <2> QED
    BY <1>0, <2>1, <2>2, Images DEF BarrierKind, IsBarrier
<1>2. CASE c.op # "barrier"
  <2>1. PlainKind(p, x, c)
    BY <1>2, PlainAre
  <2>2. \A i : ReadBy(p, i) = Upload => i = 1 /\ ~p.zc
    BY Images DEF ReadBy, Source, First
  <2>3. \A i : DrawnBy(p, i) # Upload
    BY <1>0, Images DEF DrawnBy
  <2>4. c.op # "fetch" => c.img = Upload
    BY DEF Uses
  <2>5. c.op = "fetch" => c.from = Upload
    BY DEF Uses
  <2> QED
    BY <1>0, <2>1, <2>2, <2>3, <2>4, <2>5, Images DEF PlainKind, IsPlain
<1> QED
  BY <1>1, <1>2

\* Who uses a scratch image.
LEMMA TmpUser ==
  ASSUME NEW p, Settings(p), OnVk(p), NEW x \in Labels, Has(p, x), NEW c, c = Cmd(p, x),
         c.op \notin {"wait", "end"}, NEW d, Uses(c) = Tmp(d)
  PROVE  /\ x.i \in 1 .. 5 /\ x.i <= NPass(p) /\ p.b # 0
         /\ \/ /\ x.t = 0 /\ d = (x.i - 1) % 2 /\ x.i < NPass(p)
               /\ IsBarrier(c, Tmp(d), "none", "attachment", {"frag"}, {"color"})
            \/ x.t = 2 /\ d = (x.i - 1) % 2 /\ x.i < NPass(p) /\ IsPlain(c, "store", Tmp(d), "color")
            \/ /\ x.t = 3 /\ d = (x.i - 1) % 2 /\ x.i < NPass(p)
               /\ IsBarrier(c, Tmp(d), "attachment", "readonly", {"color"}, {"frag"})
            \/ /\ x.t = 1 /\ d = x.i % 2 /\ x.i > 1
               /\ c.op = "fetch" /\ c.src = {"frag"} /\ c.dst = {"frag"} /\ c.from = Tmp(d)
<1>0. p.w \in Window /\ NPass(p) \in 1 .. 5
  BY PassCount DEF Settings
<1>d. x.i \in 1 .. 5 => x.i <= NPass(p) /\ p.b # 0
  BY <1>0, Kinds DEF Drawn
<1>1. CASE c.op = "barrier"
  <2>1. BarrierKind(p, x, c)
    BY <1>1, BarriersAre
  <2>2. c.img = Tmp(d)
    BY <1>1 DEF Uses
  <2>3. /\ x.i \in 1 .. 5 /\ x.i # NPass(p)
        /\ \/ /\ x.t = 0 /\ d = (x.i - 1) % 2
              /\ IsBarrier(c, Tmp(d), "none", "attachment", {"frag"}, {"color"})
           \/ /\ x.t = 3 /\ d = (x.i - 1) % 2
              /\ IsBarrier(c, Tmp(d), "attachment", "readonly", {"color"}, {"frag"})
    BY <1>0, <2>1, <2>2, Images DEF BarrierKind, IsBarrier
  <2> QED
    BY <1>0, <1>d, <2>3
<1>2. CASE c.op # "barrier"
  <2>1. PlainKind(p, x, c)
    BY <1>2, PlainAre
  <2>2. \A i : ReadBy(p, i) = Tmp(d) => i # 1 /\ d = i % 2
    BY Images DEF ReadBy, Source, First
  <2>3. \A i : DrawnBy(p, i) = Tmp(d) => i # NPass(p) /\ d = (i - 1) % 2
    BY <1>0, Images DEF DrawnBy
  <2>4. c.op # "fetch" => c.img = Tmp(d)
    BY DEF Uses
  <2>5. c.op = "fetch" => c.from = Tmp(d)
    BY DEF Uses
  <2>6. x.i \in 1 .. 5 /\ x.t \in {1, 2}
    BY <1>0, <2>1, <2>4, Images DEF PlainKind, IsPlain
  <2>7. CASE x.t = 1
    <3>1. IsPlain(c, "fetch", DrawnBy(p, x.i), "frag") /\ c.from = ReadBy(p, x.i)
      BY <2>1, <2>6, <2>7 DEF PlainKind
    <3> QED
      BY <1>0, <1>d, <2>2, <2>5, <2>6, <2>7, <3>1 DEF IsPlain
  <2>8. CASE x.t = 2
    <3>1. IsPlain(c, "store", DrawnBy(p, x.i), "color")
      BY <2>1, <2>6, <2>8 DEF PlainKind
    <3> QED
      BY <1>0, <1>d, <2>3, <2>4, <2>6, <2>8, <3>1 DEF IsPlain
  <2> QED
    BY <2>6, <2>7, <2>8
<1> QED
  BY <1>1, <1>2

\* Who uses a window image.
LEMMA WindowUser ==
  ASSUME NEW p, Settings(p), OnVk(p), NEW x \in Labels, Has(p, x), NEW c, c = Cmd(p, x),
         c.op \notin {"wait", "end"}, Uses(c) \in Window
  PROVE  /\ Uses(c) = p.w
         /\ \/ x.i = 0 /\ x.t = 1 /\ IsBarrier(c, p.w, "none", "attachment", {}, {"color"})
            \/ x.i = 0 /\ x.t = 3 /\ p.b = 0 /\ IsPlain(c, "store", p.w, "color")
            \/ x.i = NPass(p) /\ x.i \in 1 .. 5 /\ x.t = 2 /\ IsPlain(c, "store", p.w, "color")
            \/ x.i = 6 /\ x.t = 1 /\ IsBarrier(c, p.w, "attachment", "present", {"color"}, {})
<1>0. p.w \in Window
  BY DEF Settings
<1>1. CASE c.op = "barrier"
  <2>1. BarrierKind(p, x, c)
    BY <1>1, BarriersAre
  <2>2. c.img \in Window /\ Uses(c) = c.img
    BY <1>1 DEF Uses
  <2> QED
    BY <1>0, <2>1, <2>2, Images DEF BarrierKind, IsBarrier
<1>2. CASE c.op # "barrier"
  <2>1. PlainKind(p, x, c)
    BY <1>2, PlainAre
  <2>2. \A i : ReadBy(p, i) \notin Window
    BY Images DEF ReadBy, Source, First
  <2>3. \A i : DrawnBy(p, i) \in Window => i = NPass(p) /\ DrawnBy(p, i) = p.w
    BY <1>0, Images DEF DrawnBy
  <2>4. c.op # "fetch" => c.img \in Window /\ Uses(c) = c.img
    BY DEF Uses
  <2>5. c.op = "fetch" => c.from \in Window
    BY DEF Uses
  <2> QED
    BY <1>0, <2>1, <2>2, <2>3, <2>4, <2>5, Images DEF PlainKind, IsPlain
<1> QED
  BY <1>1, <1>2

\* Two commands of one stage, one of them a barrier, stay in their order.
LEMMA Linked ==
  ASSUME NEW par, NEW N, NEW L, Closed(L, par, N), NEW x \in L, NEW y \in Program(par, N),
         Less(x, y), IsSync(The(par, x)) \/ IsSync(The(par, y)),
         The(par, x).dst \cap The(par, y).src # {}
  PROVE  y \in L
BY DEF Closed, Must, Ordered

\* The depth image's barrier of frame n.
LEMMA DepthFrame ==
  ASSUME NEW par, NEW N, NEW z, Recorded(par, N, "vk", z), NEW n \in 1 .. N
  PROVE  \E e \in Program(par, N) :
           /\ e = At(n, 0, 2) /\ e.n = n /\ e.i = 0 /\ e.t = 2
           /\ IsBarrier(The(par, e), Depth, "none", "depth", {"depth"}, {"depth"})
<1>1. PICK e : e = At(n, 0, 2) /\ e.n = n /\ e.i = 0 /\ e.t = 2
  BY Labelled
<1>2. n \in Nat /\ Settings(par[n]) /\ OnVk(par[n])
  BY DEF Recorded, OnVk
<1>3. e \in Labels /\ Has(par[n], e)
  BY <1>1, <1>2 DEF Labels, At, Has
<1>4. IsBarrier(The(par, e), Depth, "none", "depth", {"depth"}, {"depth"})
  BY <1>1, <1>2, <1>3, Preparation DEF The
<1> QED
  BY <1>1, <1>3, <1>4 DEF Program

\* With Vulkan the commands on the depth image stay in their order.
LEMMA DepthInTurn ==
  ASSUME NEW par, NEW N, NEW s, Recorded(par, N, "vk", s), NEW L, Closed(L, par, N),
         NEW x \in L, NEW y \in Program(par, N), Less(x, y),
         The(par, x).op \notin {"wait", "end"}, Uses(The(par, x)) = Depth,
         The(par, y).op \notin {"wait", "end"}, Uses(The(par, y)) = Depth
  PROVE  y \in L
<1>1. x \in Program(par, N)
  BY DEF Closed
<1>2. /\ x.n \in Nat /\ x.n # 0 /\ y.n \in 1 .. N /\ y.n \in Nat
      /\ x.i \in Nat /\ y.i \in Nat /\ x.t \in Nat /\ y.t \in Nat
  BY <1>1, OfProgram DEF Labels
<1>3. PICK c, d : c = The(par, x) /\ d = The(par, y)
  OBVIOUS
<1>4. /\ c.src = {"depth"} /\ c.dst = {"depth"}
      /\ \/ x.i = 0 /\ x.t = 2 /\ IsSync(c)
         \/ x.i = NPass(par[x.n]) /\ c.draw = <<x.n, x.i>>
  <2>1. Settings(par[x.n]) /\ OnVk(par[x.n]) /\ x \in Labels /\ Has(par[x.n], x) /\ c = Cmd(par[x.n], x)
    BY <1>1, <1>3, OfProgram DEF OnVk
  <2> QED
    BY <1>3, <2>1, DepthUser DEF IsBarrier, IsSync
<1>5. /\ d.src = {"depth"} /\ d.dst = {"depth"}
      /\ \/ y.i = 0 /\ y.t = 2 /\ IsSync(d)
         \/ y.i = NPass(par[y.n]) /\ d.draw = <<y.n, y.i>> /\ y.i > 0
  <2>1. Settings(par[y.n]) /\ OnVk(par[y.n]) /\ y \in Labels /\ Has(par[y.n], y) /\ d = Cmd(par[y.n], y)
    BY <1>3, OfProgram DEF OnVk
  <2> QED
    BY <1>3, <2>1, DepthUser, PassCount DEF IsBarrier, IsSync
<1>6. CASE IsSync(c) \/ IsSync(d)
  BY <1>3, <1>4, <1>5, <1>6, Linked
<1>7. CASE ~IsSync(c) /\ ~IsSync(d) /\ x.n = y.n
  <2>1. c.draw = d.draw
    BY <1>4, <1>5, <1>7
  <2>2. c.draw # NoDraw
    BY <1>2, <1>4, <1>7 DEF NoDraw
  <2> QED
    BY <1>3, <2>1, <2>2 DEF Closed, Must, Ordered
<1>8. CASE ~IsSync(c) /\ ~IsSync(d) /\ x.n # y.n
  <2>1. PICK e \in Program(par, N) :
           /\ e.n = y.n /\ e.i = 0 /\ e.t = 2
           /\ IsBarrier(The(par, e), Depth, "none", "depth", {"depth"}, {"depth"})
    BY <1>2, DepthFrame
  <2>2. x.n < y.n
    BY <1>8 DEF Less
  <2>3. Less(x, e) /\ Less(e, y)
    BY <1>5, <1>8, <2>1, <2>2 DEF Less
  <2>4. PICK g : /\ g = The(par, e) /\ IsSync(g) /\ g.src = {"depth"} /\ g.dst = {"depth"}
    BY <2>1 DEF IsBarrier, IsSync
  <2>5. e \in L
    BY <1>3, <1>4, <2>3, <2>4, Linked
  <2> QED
    BY <1>3, <1>5, <2>3, <2>4, <2>5, Linked
<1> QED
  BY <1>6, <1>7, <1>8

\* The upload image's barriers of frame n.
LEMMA UploadFrame ==
  ASSUME NEW par, NEW N, NEW s, Recorded(par, N, "vk", s), NEW n \in 1 .. N,
         par[n].b # 0, ~par[n].zc
  PROVE  \E a, e \in Program(par, N) :
           /\ a = At(n, 0, 3) /\ a.n = n /\ a.i = 0 /\ a.t = 3
           /\ IsBarrier(The(par, a), Upload, UploadOld(par[n].written), "transfer", {"frag"},
                        {"transfer"})
           /\ e = At(n, 0, 5) /\ e.n = n /\ e.i = 0 /\ e.t = 5
           /\ IsBarrier(The(par, e), Upload, "transfer", "readonly", {"transfer"}, {"frag"})
<1>1. PICK a, e : /\ a = At(n, 0, 3) /\ a.n = n /\ a.i = 0 /\ a.t = 3
                  /\ e = At(n, 0, 5) /\ e.n = n /\ e.i = 0 /\ e.t = 5
  BY Labelled
<1>2. n \in Nat /\ Settings(par[n]) /\ OnVk(par[n])
  BY DEF Recorded, OnVk
<1>3. a \in Labels /\ Has(par[n], a) /\ e \in Labels /\ Has(par[n], e)
  BY <1>1, <1>2 DEF Labels, At, Has
<1>4. IsBarrier(The(par, a), Upload, UploadOld(par[n].written), "transfer", {"frag"}, {"transfer"})
  BY <1>1, <1>2, <1>3, Preparation DEF The
<1>5. IsBarrier(The(par, e), Upload, "transfer", "readonly", {"transfer"}, {"frag"})
  BY <1>1, <1>2, <1>3, Preparation DEF The
<1> QED
  BY <1>1, <1>3, <1>4, <1>5 DEF Program

\* The roles of the commands on the upload image.
UploadRole(x, c) ==
  \/ x.i = 0 /\ x.t = 3 /\ IsSync(c) /\ c.src = {"frag"} /\ c.dst = {"transfer"}
  \/ x.i = 0 /\ x.t = 4 /\ ~IsSync(c) /\ c.src = {"transfer"} /\ c.dst = {"transfer"}
  \/ x.i = 0 /\ x.t = 5 /\ IsSync(c) /\ c.src = {"transfer"} /\ c.dst = {"frag"}
  \/ x.i = 1 /\ x.t = 1 /\ ~IsSync(c) /\ c.src = {"frag"} /\ c.dst = {"frag"}

\* Every command on the upload image has one of these roles.
LEMMA UploadRoles ==
  ASSUME NEW par, NEW N, NEW s, Recorded(par, N, "vk", s), NEW x \in Program(par, N),
         The(par, x).op \notin {"wait", "end"}, Uses(The(par, x)) = Upload
  PROVE  UploadRole(x, The(par, x)) /\ par[x.n].b # 0 /\ ~par[x.n].zc
<1>1. PICK c : c = The(par, x)
  OBVIOUS
<1>2. /\ Settings(par[x.n]) /\ OnVk(par[x.n]) /\ x \in Labels /\ Has(par[x.n], x)
      /\ c = Cmd(par[x.n], x)
  BY <1>1, OfProgram DEF OnVk, Settings
<1>3. /\ par[x.n].b # 0 /\ ~par[x.n].zc
      /\ \/ /\ x.i = 0 /\ x.t = 3
            /\ IsBarrier(c, Upload, UploadOld(par[x.n].written), "transfer", {"frag"}, {"transfer"})
         \/ x.i = 0 /\ x.t = 4 /\ IsPlain(c, "copy", Upload, "transfer")
         \/ /\ x.i = 0 /\ x.t = 5
            /\ IsBarrier(c, Upload, "transfer", "readonly", {"transfer"}, {"frag"})
         \/ x.i = 1 /\ x.t = 1 /\ c.op = "fetch" /\ c.src = {"frag"} /\ c.dst = {"frag"}
  BY <1>1, <1>2, UploadUser
<1>4. UploadRole(x, c)
  BY <1>3 DEF UploadRole, IsBarrier, IsPlain, IsSync
<1> QED
  BY <1>1, <1>2, <1>3, <1>4

\* What Linked asks of two commands.
Gates(c, d) == (IsSync(c) \/ IsSync(d)) /\ c.dst \cap d.src # {}

\* One stage on both sides is enough.
LEMMA GatesBy ==
  ASSUME NEW c, NEW d, NEW t, c.dst = {t}, d.src = {t}, IsSync(c) \/ IsSync(d)
  PROVE  Gates(c, d)
BY DEF Gates

\* Linked, in these words.
LEMMA LinkedBy ==
  ASSUME NEW par, NEW N, NEW L, Closed(L, par, N), NEW x \in L, NEW y \in Program(par, N),
         Less(x, y), Gates(The(par, x), The(par, y))
  PROVE  y \in L
BY Linked DEF Gates

\* Within a frame the commands on the upload image stay in their order.
LEMMA UploadSame ==
  ASSUME NEW par, NEW N, NEW s, Recorded(par, N, "vk", s), NEW L, Closed(L, par, N),
         NEW x \in L, NEW y \in Program(par, N), Less(x, y), x.n = y.n,
         The(par, x).op \notin {"wait", "end"}, Uses(The(par, x)) = Upload,
         The(par, y).op \notin {"wait", "end"}, Uses(The(par, y)) = Upload
  PROVE  y \in L
<1>1. x \in Program(par, N)
  BY DEF Closed
<1>2. x.n \in 1 .. N /\ x.n \in Nat
  BY <1>1, OfProgram
<1> DEFINE c == The(par, x)
           d == The(par, y)
<1>3. UploadRole(x, c) /\ par[x.n].b # 0 /\ ~par[x.n].zc
  BY <1>1, UploadRoles
<1>4. UploadRole(y, d)
  BY UploadRoles
<1> HIDE DEF c, d
<1>5. (x.i = 0 /\ y.i = 1) \/ (x.i = 0 /\ y.i = 0 /\ x.t < y.t)
  BY <1>2, <1>3, <1>4 DEF UploadRole, Less
<1>6. CASE c.dst = d.src
  <2>1. IsSync(c) \/ IsSync(d)
    BY <1>3, <1>4, <1>5, <1>6 DEF UploadRole
  <2>2. c.dst = {"transfer"} \/ c.dst = {"frag"}
    BY <1>3 DEF UploadRole
  <2>3. Gates(c, d)
    BY <1>6, <2>1, <2>2, GatesBy
  <2> QED
    BY <2>3, LinkedBy DEF c, d
<1>7. CASE c.dst # d.src
  <2>1. x.i = 0 /\ x.t \in {3, 4} /\ c.dst = {"transfer"} /\ d.src = {"frag"} /\ y.i = 1
    BY <1>3, <1>4, <1>5, <1>7 DEF UploadRole
  <2>2. PICK g \in Program(par, N) :
          /\ g.n = x.n /\ g.i = 0 /\ g.t = 5
          /\ IsBarrier(The(par, g), Upload, "transfer", "readonly", {"transfer"}, {"frag"})
    BY <1>2, <1>3, UploadFrame
  <2>3. IsSync(The(par, g)) /\ The(par, g).src = {"transfer"} /\ The(par, g).dst = {"frag"}
    BY <2>2 DEF IsBarrier, IsSync
  <2>4. Less(x, g) /\ Less(g, y)
    BY <2>1, <2>2 DEF Less
  <2>5. Gates(c, The(par, g)) /\ Gates(The(par, g), d)
    BY <2>1, <2>3, GatesBy
  <2>6. g \in L
    BY <2>4, <2>5, LinkedBy DEF c
  <2> QED
    BY <2>4, <2>5, <2>6, LinkedBy DEF d
<1> QED
  BY <1>6, <1>7

\* The commands on the upload image stay in their order.
LEMMA UploadInTurn ==
  ASSUME NEW par, NEW N, NEW s, Recorded(par, N, "vk", s), NEW L, Closed(L, par, N),
         NEW x \in L, NEW y \in Program(par, N), Less(x, y),
         The(par, x).op \notin {"wait", "end"}, Uses(The(par, x)) = Upload,
         The(par, y).op \notin {"wait", "end"}, Uses(The(par, y)) = Upload
  PROVE  y \in L
<1>1. x \in Program(par, N)
  BY DEF Closed
<1>2. x.n \in 1 .. N /\ y.n \in 1 .. N /\ x.n \in Nat /\ y.n \in Nat
  BY <1>1, OfProgram
<1> DEFINE c == The(par, x)
           d == The(par, y)
<1>3. UploadRole(x, c) /\ par[x.n].b # 0 /\ ~par[x.n].zc
  BY <1>1, UploadRoles
<1>4. UploadRole(y, d) /\ par[y.n].b # 0 /\ ~par[y.n].zc
  BY UploadRoles
<1>5. CASE x.n = y.n
  BY <1>5, UploadSame
<1> HIDE DEF c, d
<1>6. CASE x.n # y.n
  <2>0. x.n < y.n
    BY <1>6 DEF Less
  <2>1. PICK a \in Program(par, N) :
          /\ a.n = y.n /\ a.i = 0 /\ a.t = 3 /\ a = At(y.n, 0, 3)
          /\ IsBarrier(The(par, a), Upload, UploadOld(par[y.n].written), "transfer", {"frag"},
                       {"transfer"})
    BY <1>2, <1>3, <1>4, UploadFrame
  <2>2. PICK g \in Program(par, N) :
          /\ g.n = x.n /\ g.i = 0 /\ g.t = 5 /\ g = At(x.n, 0, 5)
          /\ IsBarrier(The(par, g), Upload, "transfer", "readonly", {"transfer"}, {"frag"})
    BY <1>2, <1>3, UploadFrame
  <2>3. /\ IsSync(The(par, a)) /\ The(par, a).src = {"frag"} /\ The(par, a).dst = {"transfer"}
        /\ The(par, a).op \notin {"wait", "end"} /\ Uses(The(par, a)) = Upload
    BY <2>1 DEF IsBarrier, IsSync, Uses
  <2>4. /\ IsSync(The(par, g)) /\ The(par, g).src = {"transfer"} /\ The(par, g).dst = {"frag"}
        /\ The(par, g).op \notin {"wait", "end"} /\ Uses(The(par, g)) = Upload
    BY <2>2 DEF IsBarrier, IsSync, Uses
  <2>5. Less(x, a) /\ Less(g, a)
    BY <2>0, <2>1, <2>2 DEF Less
  <2>6. a \in L
    <3>1. CASE c.dst = {"frag"}
      <4>1. Gates(c, The(par, a))
        BY <2>3, <3>1, GatesBy
      <4> QED
        BY <2>5, <4>1, LinkedBy DEF c
    <3>2. CASE c.dst # {"frag"}
      <4>1. x.i = 0 /\ x.t \in {3, 4}
        BY <1>3, <3>2 DEF UploadRole
      <4>2. Less(x, g)
        BY <2>2, <4>1 DEF Less
      <4>3. g \in L
        BY <2>2, <2>4, <4>2, UploadSame
      <4>4. Gates(The(par, g), The(par, a))
        BY <2>3, <2>4, GatesBy
      <4> QED
        BY <2>5, <4>3, <4>4, LinkedBy
    <3> QED
      BY <3>1, <3>2
  <2>7. CASE y = a
    BY <2>6, <2>7
  <2>8. CASE y # a
    <3>1. ~(y.i = 0 /\ y.t = 3)
      <4>1. y \in Labels /\ y = At(y.n, y.i, y.t)
        BY OfProgram DEF Labels, At
      <4> QED
        BY <2>1, <2>8, <4>1
    <3>2. Less(a, y)
      BY <1>4, <2>1, <3>1 DEF UploadRole, Less
    <3> QED
      BY <2>1, <2>3, <2>6, <3>2, UploadSame
  <2> QED
    BY <2>7, <2>8
<1> QED
  BY <1>5, <1>6

\* The two scratch images take turns.
LEMMA Parity ==
  /\ \A i \in 1 .. 5 : (i - 1) % 2 # i % 2
  /\ \A i \in 1 .. 5 : i % 2 \in {0, 1} /\ (i - 1) % 2 \in {0, 1}
  /\ \A i \in 2 .. 5 : (i - 2) % 2 = i % 2
<1>1. /\ 0 % 2 = 0 /\ 1 % 2 = 1 /\ 2 % 2 = 0 /\ 3 % 2 = 1 /\ 4 % 2 = 0 /\ 5 % 2 = 1
  OBVIOUS
<1>2. \A i \in 1 .. 5 : i \in {1, 2, 3, 4, 5}
  OBVIOUS
<1> QED
  BY <1>1, <1>2

\* The barriers around scratch pass i of frame n.
LEMMA TmpFrame ==
  ASSUME NEW par, NEW N, NEW s, Recorded(par, N, "vk", s), NEW n \in 1 .. N,
         NEW i \in 1 .. 5, i < NPass(par[n]), par[n].b # 0
  PROVE  \E a, e \in Program(par, N) :
           /\ a = At(n, i, 0) /\ a.n = n /\ a.i = i /\ a.t = 0
           /\ IsBarrier(The(par, a), Tmp((i - 1) % 2), "none", "attachment", {"frag"}, {"color"})
           /\ e = At(n, i, 3) /\ e.n = n /\ e.i = i /\ e.t = 3
           /\ IsBarrier(The(par, e), Tmp((i - 1) % 2), "attachment", "readonly", {"color"}, {"frag"})
<1>1. PICK a, e : /\ a = At(n, i, 0) /\ a.n = n /\ a.i = i /\ a.t = 0
                  /\ e = At(n, i, 3) /\ e.n = n /\ e.i = i /\ e.t = 3
  BY Labelled
<1>2. n \in Nat /\ Settings(par[n]) /\ OnVk(par[n]) /\ NPass(par[n]) \in 1 .. 5
  BY PassCount DEF Recorded, OnVk
<1>3. a \in Labels /\ Has(par[n], a) /\ e \in Labels /\ Has(par[n], e)
  BY <1>1, <1>2 DEF Labels, At, Has
<1>4. IsBarrier(The(par, a), Tmp((i - 1) % 2), "none", "attachment", {"frag"}, {"color"})
  BY <1>1, <1>2, <1>3, PassSteps DEF The
<1>5. IsBarrier(The(par, e), Tmp((i - 1) % 2), "attachment", "readonly", {"color"}, {"frag"})
  BY <1>1, <1>2, <1>3, PassSteps DEF The
<1> QED
  BY <1>1, <1>3, <1>4, <1>5 DEF Program

\* The roles of the commands on a scratch image.
TmpRole(x, c, d) ==
  \/ x.t = 0 /\ d = (x.i - 1) % 2 /\ IsSync(c) /\ c.src = {"frag"} /\ c.dst = {"color"}
  \/ x.t = 2 /\ d = (x.i - 1) % 2 /\ ~IsSync(c) /\ c.src = {"color"} /\ c.dst = {"color"}
  \/ x.t = 3 /\ d = (x.i - 1) % 2 /\ IsSync(c) /\ c.src = {"color"} /\ c.dst = {"frag"}
  \/ /\ x.t = 1 /\ d = x.i % 2 /\ x.i > 1
     /\ ~IsSync(c) /\ c.src = {"frag"} /\ c.dst = {"frag"}

\* Every command on a scratch image has one of these roles.
LEMMA TmpRoles ==
  ASSUME NEW par, NEW N, NEW s, Recorded(par, N, "vk", s), NEW x \in Program(par, N),
         The(par, x).op \notin {"wait", "end"}, NEW d, Uses(The(par, x)) = Tmp(d)
  PROVE  /\ TmpRole(x, The(par, x), d) /\ x.i \in 1 .. 5 /\ x.i <= NPass(par[x.n])
         /\ par[x.n].b # 0 /\ (x.t # 1 => x.i < NPass(par[x.n]))
<1> DEFINE c == The(par, x)
<1>1. /\ Settings(par[x.n]) /\ OnVk(par[x.n]) /\ x \in Labels /\ Has(par[x.n], x)
      /\ c = Cmd(par[x.n], x)
  BY OfProgram DEF OnVk
<1>2. c.op \notin {"wait", "end"} /\ Uses(c) = Tmp(d)
  OBVIOUS
<1> HIDE DEF c
<1>3. /\ x.i \in 1 .. 5 /\ x.i <= NPass(par[x.n]) /\ par[x.n].b # 0
      /\ \/ /\ x.t = 0 /\ d = (x.i - 1) % 2 /\ x.i < NPass(par[x.n])
            /\ IsBarrier(c, Tmp(d), "none", "attachment", {"frag"}, {"color"})
         \/ /\ x.t = 2 /\ d = (x.i - 1) % 2 /\ x.i < NPass(par[x.n])
            /\ IsPlain(c, "store", Tmp(d), "color")
         \/ /\ x.t = 3 /\ d = (x.i - 1) % 2 /\ x.i < NPass(par[x.n])
            /\ IsBarrier(c, Tmp(d), "attachment", "readonly", {"color"}, {"frag"})
         \/ /\ x.t = 1 /\ d = x.i % 2 /\ x.i > 1
            /\ c.op = "fetch" /\ c.src = {"frag"} /\ c.dst = {"frag"} /\ c.from = Tmp(d)
  BY <1>1, <1>2, TmpUser
<1>4. TmpRole(x, c, d)
  BY <1>3 DEF TmpRole, IsBarrier, IsPlain, IsSync
<1> QED
  BY <1>3, <1>4 DEF c

\* The commands on a scratch image stay in their order, two readings apart.
LEMMA TmpInTurn ==
  ASSUME NEW par, NEW N, NEW s, Recorded(par, N, "vk", s), NEW L, Closed(L, par, N),
         NEW x \in L, NEW y \in Program(par, N), Less(x, y), x.t # 1 \/ y.t # 1, NEW k,
         The(par, x).op \notin {"wait", "end"}, Uses(The(par, x)) = Tmp(k),
         The(par, y).op \notin {"wait", "end"}, Uses(The(par, y)) = Tmp(k)
  PROVE  y \in L
<1>1. x \in Program(par, N)
  BY DEF Closed
<1>2. x.n \in 1 .. N /\ y.n \in 1 .. N /\ x.n \in Nat /\ y.n \in Nat
  BY <1>1, OfProgram
<1> DEFINE c == The(par, x)
           d == The(par, y)
<1>3. /\ TmpRole(x, c, k) /\ x.i \in 1 .. 5 /\ par[x.n].b # 0
      /\ (x.t # 1 => x.i < NPass(par[x.n]))
  BY <1>1, TmpRoles
<1>4. /\ TmpRole(y, d, k) /\ y.i \in 1 .. 5 /\ par[y.n].b # 0
      /\ (y.t # 1 => y.i < NPass(par[y.n]))
  BY TmpRoles
<1> HIDE DEF c, d
<1>5. ASSUME NEW u \in L, NEW v \in Program(par, N), Less(u, v), Gates(The(par, u), The(par, v))
      PROVE  v \in L
  BY <1>5, LinkedBy
<1>6. CASE x.n = y.n /\ x.i = y.i
  <2>1. x.t < y.t
    BY <1>2, <1>3, <1>4, <1>6 DEF Less
  <2>2. /\ x.t \in {0, 2} /\ c.dst = {"color"} /\ y.t \in {2, 3} /\ d.src = {"color"}
        /\ IsSync(c) \/ IsSync(d)
    BY <1>3, <1>4, <1>6, <2>1, Parity DEF TmpRole
  <2>3. Gates(c, d)
    BY <2>2, GatesBy
  <2> QED
    BY <1>5, <2>3 DEF c, d
<1>7. CASE ~(x.n = y.n /\ x.i = y.i)
  <2>1. x.n < y.n \/ (x.n = y.n /\ x.i < y.i)
    BY <1>2, <1>3, <1>4, <1>7 DEF Less
  <2>2. PICK u \in L : /\ The(par, u).dst = {"frag"} /\ (IsSync(The(par, u)) \/ x.t = 1)
                       /\ u.n = x.n /\ u.i = x.i
    <3>1. CASE x.t \in {0, 2}
      <4>1. x.i < NPass(par[x.n]) /\ c.dst = {"color"}
        BY <1>3, <3>1 DEF TmpRole
      <4>2. PICK e \in Program(par, N) :
              /\ e.n = x.n /\ e.i = x.i /\ e.t = 3
              /\ IsBarrier(The(par, e), Tmp((x.i - 1) % 2), "attachment", "readonly", {"color"},
                           {"frag"})
        BY <1>2, <1>3, <4>1, TmpFrame
      <4>3. IsSync(The(par, e)) /\ The(par, e).src = {"color"} /\ The(par, e).dst = {"frag"}
        BY <4>2 DEF IsBarrier, IsSync
      <4>4. Less(x, e)
        BY <3>1, <4>2 DEF Less
      <4>5. Gates(c, The(par, e))
        BY <4>1, <4>3, GatesBy
      <4> QED
        BY <1>5, <4>2, <4>3, <4>4, <4>5 DEF c
    <3>2. CASE x.t \notin {0, 2}
      <4>1. c.dst = {"frag"} /\ (IsSync(c) \/ x.t = 1)
        BY <1>3, <3>2 DEF TmpRole
      <4> QED
        BY <4>1 DEF c
    <3> QED
      BY <3>1, <3>2
  <2>3. CASE y.t = 1
    <3>1. IsSync(The(par, u)) /\ d.src = {"frag"}
      BY <1>4, <2>2, <2>3 DEF TmpRole
    <3>2. Gates(The(par, u), d) /\ Less(u, y)
      BY <2>1, <2>2, <3>1, GatesBy DEF Less
    <3> QED
      BY <1>5, <3>2 DEF d
  <2>4. CASE y.t # 1
    <3>1. PICK a \in Program(par, N) :
            /\ a = At(y.n, y.i, 0) /\ a.n = y.n /\ a.i = y.i /\ a.t = 0
            /\ IsBarrier(The(par, a), Tmp((y.i - 1) % 2), "none", "attachment", {"frag"}, {"color"})
      BY <1>2, <1>4, <2>4, TmpFrame
    <3>2. IsSync(The(par, a)) /\ The(par, a).src = {"frag"} /\ The(par, a).dst = {"color"}
      BY <3>1 DEF IsBarrier, IsSync
    <3>3. Gates(The(par, u), The(par, a)) /\ Less(u, a)
      BY <2>1, <2>2, <3>1, <3>2, GatesBy DEF Less
    <3>4. a \in L
      BY <1>5, <3>3
    <3>5. CASE y.t = 0
      <4>1. y = a
        <5>1. y = At(y.n, y.i, y.t)
          BY OfProgram DEF Labels, At
        <5> QED
          BY <3>1, <3>5, <5>1
      <4> QED
        BY <3>4, <4>1
    <3>6. CASE y.t # 0
      <4>1. d.src = {"color"} /\ y.t \in {2, 3}
        BY <1>4, <2>4, <3>6 DEF TmpRole
      <4>2. Less(a, y)
        BY <3>1, <4>1 DEF Less
      <4>3. Gates(The(par, a), d)
        BY <3>2, <4>1, GatesBy
      <4> QED
        BY <1>5, <3>4, <4>2, <4>3 DEF d
    <3> QED
      BY <3>5, <3>6
  <2> QED
    BY <2>3, <2>4
<1> QED
  BY <1>6, <1>7

\* A window image belongs to one frame that has not ended.
WinInv(L, par, N) ==
  \A n, k \in 1 .. N : n < k /\ par[n].w = par[k].w => At(n, 6, 2) \notin L

\* The roles of the commands on a window image.
WindowRole(p, x, c) ==
  \/ x.i = 0 /\ x.t = 1 /\ IsSync(c) /\ c.dst = {"color"}
  \/ x.i = 0 /\ x.t = 3 /\ p.b = 0 /\ ~IsSync(c) /\ c.src = {"color"} /\ c.dst = {"color"}
  \/ x.i \in 1 .. 5 /\ x.i = NPass(p) /\ p.b # 0 /\ x.t = 2 /\ ~IsSync(c) /\ c.src = {"color"}
     /\ c.dst = {"color"}
  \/ x.i = 6 /\ x.t = 1 /\ IsSync(c) /\ c.src = {"color"}

\* Every command on a window image has one of these roles.
LEMMA WindowRoles ==
  ASSUME NEW par, NEW N, NEW s, Recorded(par, N, "vk", s), NEW x \in Program(par, N),
         The(par, x).op \notin {"wait", "end"}, Uses(The(par, x)) \in Window
  PROVE  WindowRole(par[x.n], x, The(par, x)) /\ Uses(The(par, x)) = par[x.n].w
<1> DEFINE c == The(par, x)
           p == par[x.n]
<1>1. Settings(p) /\ OnVk(p) /\ x \in Labels /\ Has(p, x) /\ c = Cmd(p, x)
  BY OfProgram DEF OnVk
<1>2. c.op \notin {"wait", "end"} /\ Uses(c) \in Window
  OBVIOUS
<1> HIDE DEF c, p
<1>3. /\ Uses(c) = p.w
      /\ \/ x.i = 0 /\ x.t = 1 /\ IsBarrier(c, p.w, "none", "attachment", {}, {"color"})
         \/ x.i = 0 /\ x.t = 3 /\ p.b = 0 /\ IsPlain(c, "store", p.w, "color")
         \/ x.i = NPass(p) /\ x.i \in 1 .. 5 /\ x.t = 2 /\ IsPlain(c, "store", p.w, "color")
         \/ x.i = 6 /\ x.t = 1 /\ IsBarrier(c, p.w, "attachment", "present", {"color"}, {})
  BY <1>1, <1>2, WindowUser
<1>4. x.i \in 1 .. 5 => p.b # 0
  BY <1>1, Kinds DEF Drawn
<1>5. WindowRole(p, x, c)
  BY <1>3, <1>4 DEF WindowRole, IsBarrier, IsPlain, IsSync
<1> QED
  BY <1>3, <1>5 DEF c, p

\* The commands on a window image stay in their order, frame after frame.
LEMMA WindowInTurn ==
  ASSUME NEW par, NEW N, NEW s, Recorded(par, N, "vk", s), NEW L, Closed(L, par, N),
         WinInv(L, par, N),
         NEW x \in L, NEW y \in Program(par, N), Less(x, y),
         The(par, x).op \notin {"wait", "end"}, Uses(The(par, x)) \in Window,
         The(par, y).op \notin {"wait", "end"}, Uses(The(par, y)) = Uses(The(par, x))
  PROVE  y \in L
<1>1. x \in Program(par, N)
  BY DEF Closed
<1>2. x.n \in 1 .. N /\ y.n \in 1 .. N /\ x.n \in Nat /\ y.n \in Nat
  BY <1>1, OfProgram
<1> DEFINE c == The(par, x)
           d == The(par, y)
<1>3. WindowRole(par[x.n], x, c) /\ Uses(c) = par[x.n].w
  BY <1>1, WindowRoles
<1>4. WindowRole(par[y.n], y, d) /\ Uses(d) = par[y.n].w
  BY WindowRoles
<1>5. x.n = y.n
  <2>1. par[x.n].w = par[y.n].w
    BY <1>3, <1>4
  <2>2. At(x.n, 6, 2) \in L
    BY <1>2, EndStays
  <2>3. ~(x.n < y.n)
    BY <1>2, <2>1, <2>2 DEF WinInv
  <2> QED
    BY <1>2, <2>3 DEF Less
<1> HIDE DEF c, d
<1>6. x.i < y.i \/ (x.i = y.i /\ x.t < y.t)
  BY <1>2, <1>5 DEF Less
<1>7. NPass(par[x.n]) \in 1 .. 5
  BY <1>1, OfProgram, PassCount
<1>8. /\ c.dst = {"color"} /\ d.src = {"color"}
      /\ IsSync(c) \/ IsSync(d)
  BY <1>3, <1>4, <1>5, <1>6, <1>7 DEF WindowRole
<1>9. Gates(c, d)
  BY <1>8, GatesBy
<1> QED
  BY <1>9, LinkedBy DEF c, d

\* A command on one of the images that are not the camera's.
IsUser(c) == c.op \notin {"wait", "end"} /\ Uses(c)[1] # "cam"

\* The images that are not the camera's.
LEMMA UsersAre ==
  ASSUME NEW par, NEW N, NEW s, Recorded(par, N, "vk", s), NEW x \in Program(par, N),
         IsUser(The(par, x))
  PROVE  \/ Uses(The(par, x)) \in Window
         \/ Uses(The(par, x)) = Depth
         \/ Uses(The(par, x)) = Upload
         \/ Uses(The(par, x)) = Tmp(0)
         \/ Uses(The(par, x)) = Tmp(1)
<1> DEFINE c == The(par, x)
           p == par[x.n]
<1>1. Settings(p) /\ OnVk(p) /\ x \in Labels /\ Has(p, x) /\ c = Cmd(p, x)
  BY OfProgram DEF OnVk
<1>2. c.op \notin {"wait", "end"} /\ Uses(c)[1] # "cam"
  BY DEF IsUser
<1> HIDE DEF c, p
<1>3. p.w \in Window
  BY <1>1 DEF Settings
<1>4. \A i \in 1 .. 5 : Tmp(i % 2) \in {Tmp(0), Tmp(1)} /\ Tmp((i - 1) % 2) \in {Tmp(0), Tmp(1)}
  BY Parity
<1>5. CASE c.op = "barrier"
  <2>1. BarrierKind(p, x, c)
    BY <1>1, <1>5, BarriersAre
  <2>2. Uses(c) = c.img
    BY <1>5 DEF Uses
  <2>3. c.img[1] # "cam"
    BY <1>2, <2>2
  <2>4. \A b : Cam(b)[1] = "cam"
    BY Images
  <2>5. \/ c.img = p.w \/ c.img = Depth \/ c.img = Upload \/ c.img \in {Tmp(0), Tmp(1)}
    BY <1>4, <2>1, <2>3, <2>4 DEF BarrierKind, IsBarrier
  <2> QED
    BY <1>3, <2>2, <2>5 DEF c
<1>6. CASE c.op # "barrier"
  <2>1. PlainKind(p, x, c)
    BY <1>1, <1>2, <1>6, PlainAre
  <2>2. \A i \in 1 .. 5 : ReadBy(p, i)[1] = "cam" \/ ReadBy(p, i) \in {Upload, Tmp(0), Tmp(1)}
    BY <1>4, Images DEF ReadBy, Source, First
  <2>3. \A i \in 1 .. 5 : DrawnBy(p, i) = p.w \/ DrawnBy(p, i) \in {Tmp(0), Tmp(1)}
    BY <1>4 DEF DrawnBy
  <2>4. c.op # "fetch" => Uses(c) = c.img
    BY DEF Uses
  <2>5. c.op = "fetch" => Uses(c) = c.from
    BY DEF Uses
  <2>6. Uses(c) = p.w \/ Uses(c) \in {Depth, Upload, Tmp(0), Tmp(1)}
    BY <1>2, <2>1, <2>2, <2>3, <2>4, <2>5 DEF PlainKind, IsPlain
  <2> QED
    BY <1>3, <2>6 DEF c
<1> QED
  BY <1>5, <1>6

\* Whatever order the GPU picks, two commands on an image stay in their order unless both
\* only read.
LEMMA InTurn ==
  ASSUME NEW par, NEW N, NEW s, Recorded(par, N, "vk", s), NEW L, Closed(L, par, N),
         WinInv(L, par, N),
         NEW x \in L, NEW y \in Program(par, N), Less(x, y),
         IsUser(The(par, x)), IsUser(The(par, y)), Uses(The(par, y)) = Uses(The(par, x)),
         The(par, x).op # "fetch" \/ The(par, y).op # "fetch"
  PROVE  y \in L
<1>1. x \in Program(par, N)
  BY DEF Closed
<1>2. The(par, x).op \notin {"wait", "end"} /\ The(par, y).op \notin {"wait", "end"}
  BY DEF IsUser
<1>3. CASE Uses(The(par, x)) \in Window
  BY <1>2, <1>3, WindowInTurn
<1>4. CASE Uses(The(par, x)) = Depth
  BY <1>2, <1>4, DepthInTurn
<1>5. CASE Uses(The(par, x)) = Upload
  BY <1>2, <1>5, UploadInTurn
<1>6. ASSUME NEW d, Uses(The(par, x)) = Tmp(d) PROVE y \in L
  <2>1. x.t = 1 => The(par, x).op = "fetch"
    <3>1. x.i \in 1 .. 5
      BY <1>1, <1>2, <1>6, TmpRoles
    <3> QED
      BY <1>1, <3>1, OfProgram, PassSteps DEF IsPlain
  <2>2. y.t = 1 => The(par, y).op = "fetch"
    <3>1. y.i \in 1 .. 5
      BY <1>2, <1>6, TmpRoles
    <3> QED
      BY <3>1, OfProgram, PassSteps DEF IsPlain
  <2> QED
    BY <1>2, <1>6, <2>1, <2>2, TmpInTurn
<1> QED
  BY <1>1, <1>3, <1>4, <1>5, <1>6, UsersAre


\* The end of a frame that has not ended is in the queue.
LEMMA EndIsQueued ==
  ASSUME NEW CONSTANT lab, NEW CONSTANT par, QueueInv(lab, par),
         NEW CONSTANT n \in 1 .. frames, At(n, 6, 2) \in Left(lab)
  PROVE  \E c \in Ends : c.img = par[n].w /\ c.from = Cam(par[n].b)
<1>1. PICK e : e = At(n, 6, 2) /\ e.n = n /\ e.i = 6 /\ e.t = 2
  BY Labelled
<1>2. PICK k \in 1 .. Len(queue) : e = lab[k]
  BY <1>1, InQueue
<1>3. /\ e \in Labels /\ Has(par[n], e) /\ Settings(par[n])
      /\ The(par, e) = Cmd(par[n], e)
  BY <1>1, IsLeft DEF The
<1>4. The(par, e).op = "end" /\ The(par, e).img = par[n].w /\ The(par, e).from = Cam(par[n].b)
  BY <1>1, <1>3, EndSteps
<1>5. Like(queue[k], The(par, e))
  BY <1>2 DEF QueueInv
<1>6. queue[k].op = "end" /\ queue[k].img = par[n].w /\ queue[k].from = Cam(par[n].b)
  BY <1>4, <1>5 DEF Like
<1>7. queue[k] \in Range(queue)
  BY <1>2 DEF Range, QueueInv
<1> QED
  BY <1>6, <1>7 DEF Ends

\* What is taken away leaves the windows to their frames.
LEMMA WinInvLess ==
  ASSUME NEW L, NEW M, M \subseteq L, NEW par, NEW N, WinInv(L, par, N)
  PROVE  WinInv(M, par, N)
BY DEF WinInv

\* A new frame is drawn to an image that no frame in flight draws to.
LEMMA WinInvDraws ==
  ASSUME NEW CONSTANT lab, NEW CONSTANT par, QueueInv(lab, par),
         WinInv(Left(lab), par, frames),
         NEW CONSTANT more, NEW CONSTANT pars, NEW CONSTANT p,
         With(lab, par, more, pars, p), DrawnWith(p)
  PROVE  WinInv(Left(more), pars, frames + 1)
<1> SUFFICES ASSUME NEW CONSTANT n \in 1 .. frames + 1, NEW CONSTANT k \in 1 .. frames + 1,
                    n < k, pars[n].w = pars[k].w, At(n, 6, 2) \in Left(more)
             PROVE  FALSE
  BY DEF WinInv
<1>1. frames \in Nat /\ n \in 1 .. frames /\ pars[n] = par[n]
  BY DEF QueueInv, With
<1>2. At(n, 6, 2) \in Left(lab)
  <2>1. At(n, 6, 2).n = n
    BY Labelled
  <2>2. At(n, 6, 2) \notin Names(p, frames + 1)
    BY <1>1, <2>1 DEF Names
  <2> QED
    BY <2>2 DEF With
<1>3. CASE k \in 1 .. frames
  <2>1. pars[k] = par[k]
    BY <1>3 DEF With
  <2> QED
    BY <1>1, <1>2, <1>3, <2>1 DEF WinInv
<1>4. CASE k = frames + 1
  <2>1. p.w \in Targets /\ p.w = par[n].w
    BY <1>1, <1>4 DEF With, DrawnWith
  <2>2. PICK c \in Ends : c.img = par[n].w
    BY <1>1, <1>2, EndIsQueued
  <2> QED
    BY <2>1, <2>2, TargetsAre
<1> QED
  BY <1>1, <1>3, <1>4

------------------------------------------------------------------------------
(* Layouts *)

\* The layout that a command was recorded for.
Need(c) == IF c.op = "barrier" THEN c.old ELSE LayoutFor(c.op)

\* z changes the layout of image m.
Flips(par, z, m) == The(par, z).op = "barrier" /\ The(par, z).img = m

\* No change of layout is left before x.
AllFlipped(L, par, x) == \A z \in L : Flips(par, z, Uses(The(par, x))) => ~Less(z, x)

\* The first barrier of the upload image: it takes over what an earlier frame has left.
TakesOver(par, x) == x.i = 0 /\ Uses(The(par, x)) = Upload /\ Flips(par, x, Upload) /\ x.t = 3

\* q is the barrier that gives x its layout, the last one before it.
Gives(par, N, q, x) ==
  /\ q.n = x.n /\ Less(q, x)
  /\ Flips(par, q, Uses(The(par, x))) /\ The(par, q).new = Need(The(par, x))
  /\ \A z \in Program(par, N) :
       Flips(par, z, Uses(The(par, x))) /\ Less(z, x) => z = q \/ Less(z, q)

\* What a frame does first with the depth image, and what gives it the layout.
LEMMA DepthGiven ==
  ASSUME NEW par, NEW N, NEW s, Recorded(par, N, "vk", s), NEW x \in Program(par, N),
         IsUser(The(par, x)), Uses(The(par, x)) = Depth, Need(The(par, x)) # "none"
  PROVE  \E q \in Program(par, N) : Gives(par, N, q, x)
<1> DEFINE c == The(par, x)
<1>1. Settings(par[x.n]) /\ OnVk(par[x.n]) /\ x \in Labels /\ Has(par[x.n], x) /\ x.n \in 1 .. N
      /\ c = Cmd(par[x.n], x)
  BY OfProgram DEF OnVk
<1>2. c.op \notin {"wait", "end"} /\ Uses(c) = Depth /\ Need(c) # "none"
  BY DEF IsUser
<1> HIDE DEF c
<1>3. /\ x.i \in 1 .. 5
      /\ (x.t = 0 /\ c.op = "clear") \/ (x.t = 3 /\ c.op = "test")
  <2>1. \/ x.i = 0 /\ x.t = 2 /\ IsBarrier(c, Depth, "none", "depth", {"depth"}, {"depth"})
        \/ /\ x.i = NPass(par[x.n]) /\ x.i \in 1 .. 5 /\ c.draw = <<x.n, x.i>>
           /\ (x.t = 0 /\ c.op = "clear") \/ (x.t = 3 /\ c.op = "test")
    BY <1>1, <1>2, DepthUser
  <2>2. IsBarrier(c, Depth, "none", "depth", {"depth"}, {"depth"}) => Need(c) = "none"
    BY DEF IsBarrier, Need
  <2> QED
    BY <1>2, <2>1, <2>2
<1>4. Need(c) = "depth"
  BY <1>3 DEF Need, LayoutFor
<1>5. PICK q \in Program(par, N) :
        /\ q.n = x.n /\ q.i = 0 /\ q.t = 2
        /\ IsBarrier(The(par, q), Depth, "none", "depth", {"depth"}, {"depth"})
  BY <1>1, DepthFrame
<1>6. Less(q, x)
  BY <1>3, <1>5 DEF Less
<1>7. ASSUME NEW z \in Program(par, N), Flips(par, z, Depth)
      PROVE  z.n \in Nat /\ z.i = 0 /\ z.t = 2
  <2> DEFINE d == The(par, z)
  <2>1. Settings(par[z.n]) /\ OnVk(par[z.n]) /\ z \in Labels /\ Has(par[z.n], z)
        /\ d = Cmd(par[z.n], z) /\ z.n \in Nat
    BY OfProgram DEF OnVk
  <2>2. d.op = "barrier" /\ d.img = Depth
    BY <1>7 DEF Flips
  <2> HIDE DEF d
  <2>3. Uses(d) = Depth
    BY <2>2 DEF Uses
  <2> QED
    BY <2>1, <2>2, <2>3, DepthUser
<1>8. ASSUME NEW z \in Program(par, N), Flips(par, z, Depth), Less(z, x)
      PROVE  z = q \/ Less(z, q)
  <2>1. z \in Labels /\ q \in Labels
    BY DEF Program
  <2>2. z.n \in Nat /\ q.n \in Nat /\ z.i = q.i /\ z.t = q.t
    BY <1>5, <1>7, <1>8, <2>1 DEF Labels
  <2>3. ~(q.n < z.n)
    BY <1>1, <1>5, <1>8, <2>2 DEF Less
  <2>4. ~Less(q, z)
    BY <2>2, <2>3, <2>1 DEF Less, Labels
  <2> QED
    BY <2>1, <2>4, OneOrder
<1>9. Flips(par, q, Depth) /\ The(par, q).new = "depth"
  BY <1>5 DEF Flips, IsBarrier
<1> QED
  BY <1>2, <1>4, <1>5, <1>6, <1>8, <1>9 DEF Gives, c

\* The same for the upload image.
LEMMA UploadGiven ==
  ASSUME NEW par, NEW N, NEW s, Recorded(par, N, "vk", s), NEW x \in Program(par, N),
         IsUser(The(par, x)), Uses(The(par, x)) = Upload, ~TakesOver(par, x)
  PROVE  \E q \in Program(par, N) : Gives(par, N, q, x)
<1> DEFINE c == The(par, x)
<1>1. Settings(par[x.n]) /\ OnVk(par[x.n]) /\ x \in Labels /\ Has(par[x.n], x) /\ x.n \in 1 .. N
      /\ c = Cmd(par[x.n], x) /\ x.n \in Nat
  BY OfProgram DEF OnVk
<1>2. c.op \notin {"wait", "end"} /\ Uses(c) = Upload
  BY DEF IsUser
<1>3. TakesOver(par, x) <=> x.i = 0 /\ x.t = 3 /\ c.op = "barrier" /\ c.img = Upload
  BY <1>2 DEF TakesOver, Flips
<1> HIDE DEF c
<1>4. /\ par[x.n].b # 0 /\ ~par[x.n].zc
      /\ \/ x.i = 0 /\ x.t = 4 /\ c.op = "copy"
         \/ x.i = 0 /\ x.t = 5 /\ c.op = "barrier" /\ c.old = "transfer"
         \/ x.i = 1 /\ x.t = 1 /\ c.op = "fetch"
  <2>1. /\ par[x.n].b # 0 /\ ~par[x.n].zc
        /\ \/ /\ x.i = 0 /\ x.t = 3
              /\ IsBarrier(c, Upload, UploadOld(par[x.n].written), "transfer", {"frag"}, {"transfer"})
           \/ x.i = 0 /\ x.t = 4 /\ IsPlain(c, "copy", Upload, "transfer")
           \/ /\ x.i = 0 /\ x.t = 5
              /\ IsBarrier(c, Upload, "transfer", "readonly", {"transfer"}, {"frag"})
           \/ x.i = 1 /\ x.t = 1 /\ c.op = "fetch" /\ c.src = {"frag"} /\ c.dst = {"frag"}
    BY <1>1, <1>2, UploadUser
  <2> QED
    BY <1>3, <2>1 DEF IsBarrier, IsPlain
<1>5. Need(c) = IF x.i = 1 THEN "readonly" ELSE "transfer"
  BY <1>4 DEF Need, LayoutFor
<1>6. PICK a, e \in Program(par, N) :
        /\ a.n = x.n /\ a.i = 0 /\ a.t = 3
        /\ IsBarrier(The(par, a), Upload, UploadOld(par[x.n].written), "transfer", {"frag"},
                     {"transfer"})
        /\ e.n = x.n /\ e.i = 0 /\ e.t = 5
        /\ IsBarrier(The(par, e), Upload, "transfer", "readonly", {"transfer"}, {"frag"})
  BY <1>1, <1>4, UploadFrame
<1>7. a \in Labels /\ e \in Labels
  BY DEF Program
<1>8. PICK q \in {a, e} : q = IF x.i = 1 THEN e ELSE a
  OBVIOUS
<1>9. q \in Labels /\ q.n = x.n /\ Less(q, x)
  BY <1>4, <1>6, <1>7, <1>8 DEF Less
<1>10. ASSUME NEW z \in Program(par, N), Flips(par, z, Upload)
       PROVE  z \in Labels /\ z.n \in Nat /\ z.i = 0 /\ z.t \in {3, 5}
  <2> DEFINE d == The(par, z)
  <2>1. Settings(par[z.n]) /\ OnVk(par[z.n]) /\ z \in Labels /\ Has(par[z.n], z)
        /\ d = Cmd(par[z.n], z) /\ z.n \in Nat
    BY OfProgram DEF OnVk
  <2>2. d.op = "barrier" /\ d.img = Upload
    BY <1>10 DEF Flips
  <2> HIDE DEF d
  <2>3. Uses(d) = Upload
    BY <2>2 DEF Uses
  <2> QED
    BY <2>1, <2>2, <2>3, UploadUser DEF IsPlain
<1>11. ASSUME NEW z \in Program(par, N), Flips(par, z, Upload), Less(z, x)
       PROVE  z = q \/ Less(z, q)
  <2>1. z \in Labels /\ z.n \in Nat /\ z.i = 0 /\ z.t \in {3, 5}
    BY <1>10, <1>11
  <2>2. ~Less(q, z)
    BY <1>1, <1>4, <1>6, <1>8, <1>11, <2>1 DEF Less
  <2> QED
    BY <1>9, <2>1, <2>2, OneOrder
<1>12. Flips(par, q, Upload) /\ The(par, q).new = Need(c)
  BY <1>4, <1>5, <1>6, <1>8 DEF Flips, IsBarrier
<1>13. Gives(par, N, q, x)
  BY <1>2, <1>9, <1>11, <1>12 DEF Gives, c
<1> QED
  BY <1>6, <1>8, <1>13

\* The same for the scratch images.
LEMMA TmpGiven ==
  ASSUME NEW par, NEW N, NEW s, Recorded(par, N, "vk", s), NEW x \in Program(par, N), NEW d,
         IsUser(The(par, x)), Uses(The(par, x)) = Tmp(d), Need(The(par, x)) # "none"
  PROVE  \E q \in Program(par, N) : Gives(par, N, q, x)
<1> DEFINE c == The(par, x)
<1>1. Settings(par[x.n]) /\ OnVk(par[x.n]) /\ x \in Labels /\ Has(par[x.n], x) /\ x.n \in 1 .. N
      /\ c = Cmd(par[x.n], x) /\ x.n \in Nat
  BY OfProgram DEF OnVk
<1>2. c.op \notin {"wait", "end"} /\ Uses(c) = Tmp(d) /\ Need(c) # "none"
  BY DEF IsUser
<1> HIDE DEF c
<1>3. NPass(par[x.n]) \in 1 .. 5
  BY <1>1, PassCount
<1>4. /\ x.i \in 1 .. 5 /\ x.i <= NPass(par[x.n]) /\ par[x.n].b # 0
      /\ \/ x.t = 2 /\ d = (x.i - 1) % 2 /\ x.i < NPass(par[x.n]) /\ c.op = "store"
         \/ x.t = 3 /\ d = (x.i - 1) % 2 /\ x.i < NPass(par[x.n]) /\ c.op = "barrier"
            /\ c.old = "attachment"
         \/ x.t = 1 /\ d = x.i % 2 /\ x.i > 1 /\ c.op = "fetch"
  <2>1. /\ x.i \in 1 .. 5 /\ x.i <= NPass(par[x.n]) /\ par[x.n].b # 0
        /\ \/ /\ x.t = 0 /\ d = (x.i - 1) % 2 /\ x.i < NPass(par[x.n])
              /\ IsBarrier(c, Tmp(d), "none", "attachment", {"frag"}, {"color"})
           \/ /\ x.t = 2 /\ d = (x.i - 1) % 2 /\ x.i < NPass(par[x.n])
              /\ IsPlain(c, "store", Tmp(d), "color")
           \/ /\ x.t = 3 /\ d = (x.i - 1) % 2 /\ x.i < NPass(par[x.n])
              /\ IsBarrier(c, Tmp(d), "attachment", "readonly", {"color"}, {"frag"})
           \/ /\ x.t = 1 /\ d = x.i % 2 /\ x.i > 1
              /\ c.op = "fetch" /\ c.src = {"frag"} /\ c.dst = {"frag"} /\ c.from = Tmp(d)
    BY <1>1, <1>2, TmpUser
  <2>2. IsBarrier(c, Tmp(d), "none", "attachment", {"frag"}, {"color"}) => Need(c) = "none"
    BY DEF IsBarrier, Need
  <2> QED
    BY <1>2, <2>1, <2>2 DEF IsBarrier, IsPlain
<1>5. Need(c) = IF x.t = 1 THEN "readonly" ELSE "attachment"
  BY <1>4 DEF Need, LayoutFor
<1>6. PICK i \in 1 .. 5 : i = (IF x.t = 1 THEN x.i - 1 ELSE x.i) /\ i < NPass(par[x.n])
  BY <1>3, <1>4
<1>7. d = (i - 1) % 2
  <2>1. x.t = 1 => x.i \in 2 .. 5 /\ i - 1 = x.i - 2
    BY <1>4, <1>6
  <2> QED
    BY <1>4, <1>6, <2>1, Parity
<1>f. x.n \in 1 .. N /\ i \in 1 .. 5 /\ i < NPass(par[x.n]) /\ par[x.n].b # 0
  BY <1>1, <1>4, <1>6
<1>t. PICK m : m = (i - 1) % 2
  OBVIOUS
<1>a. PICK a \in Program(par, N) :
        /\ a = At(x.n, i, 0) /\ a.n = x.n /\ a.i = i /\ a.t = 0
        /\ IsBarrier(The(par, a), Tmp(m), "none", "attachment", {"frag"}, {"color"})
  BY <1>f, <1>t, TmpFrame
<1>e. PICK e \in Program(par, N) :
        /\ e = At(x.n, i, 3) /\ e.n = x.n /\ e.i = i /\ e.t = 3
        /\ IsBarrier(The(par, e), Tmp(m), "attachment", "readonly", {"color"}, {"frag"})
  BY <1>f, <1>t, TmpFrame
<1>8. /\ a.n = x.n /\ a.i = i /\ a.t = 0 /\ e.n = x.n /\ e.i = i /\ e.t = 3 /\ d = m
      /\ IsBarrier(The(par, a), Tmp(m), "none", "attachment", {"frag"}, {"color"})
      /\ IsBarrier(The(par, e), Tmp(m), "attachment", "readonly", {"color"}, {"frag"})
  BY <1>7, <1>t, <1>a, <1>e
<1>9. a \in Labels /\ e \in Labels
  BY DEF Program
<1>10. PICK q \in {a, e} : q = IF x.t = 1 THEN e ELSE a
  OBVIOUS
<1>11. q \in Labels /\ q.n = x.n /\ Less(q, x)
  <2>1. q \in Labels /\ q.n = x.n
    BY <1>8, <1>9, <1>10
  <2>2. q.i < x.i \/ (q.i = x.i /\ q.t < x.t)
    BY <1>4, <1>6, <1>8, <1>10
  <2> QED
    BY <2>1, <2>2 DEF Less
<1>12. ASSUME NEW z \in Program(par, N), Flips(par, z, Tmp(d))
       PROVE  z \in Labels /\ z.n \in Nat /\ z.i \in 1 .. 5 /\ z.t \in {0, 3} /\ d = (z.i - 1) % 2
  <2> DEFINE k == The(par, z)
  <2>1. Settings(par[z.n]) /\ OnVk(par[z.n]) /\ z \in Labels /\ Has(par[z.n], z)
        /\ k = Cmd(par[z.n], z) /\ z.n \in Nat
    BY OfProgram DEF OnVk
  <2>2. k.op = "barrier" /\ k.img = Tmp(d)
    BY <1>12 DEF Flips
  <2> HIDE DEF k
  <2>3. Uses(k) = Tmp(d)
    BY <2>2 DEF Uses
  <2>4. k.op \notin {"wait", "end", "fetch", "store"}
    BY <2>2
  <2> QED
    BY <2>1, <2>3, <2>4, TmpUser DEF IsPlain
<1>13. ASSUME NEW z \in Program(par, N), Flips(par, z, Tmp(d)), Less(z, x)
       PROVE  z = q \/ Less(z, q)
  <2>1. z \in Labels /\ z.n \in Nat /\ z.i \in 1 .. 5 /\ z.t \in {0, 3} /\ d = (z.i - 1) % 2
    BY <1>12, <1>13
  <2>2. x.t = 1 => z.i # x.i
    BY <1>4, <2>1, Parity
  <2>3. ~Less(q, z)
    <3>1. z.n < x.n \/ (z.n = x.n /\ (z.i < x.i \/ (z.i = x.i /\ z.t < x.t)))
      BY <1>13 DEF Less
    <3>2. CASE x.t = 1
      <4>1. q.n = x.n /\ q.i = x.i - 1 /\ q.t = 3
        BY <1>6, <1>8, <1>10, <3>2
      <4>2. ~(q.n < z.n) /\ (q.n = z.n => ~(q.i < z.i) /\ ~(q.t < z.t))
        BY <1>1, <1>4, <2>1, <2>2, <3>1, <3>2, <4>1
      <4> QED
        BY <4>2 DEF Less
    <3>3. CASE x.t # 1
      <4>1. q.n = x.n /\ q.i = x.i /\ q.t = 0 /\ x.t \in {2, 3}
        BY <1>4, <1>6, <1>8, <1>10, <3>3
      <4>2. ~(q.n < z.n) /\ (q.n = z.n => ~(q.i < z.i) /\ (q.i = z.i => ~(q.t < z.t)))
        BY <1>1, <1>4, <2>1, <3>1, <4>1
      <4> QED
        BY <4>2 DEF Less
    <3> QED
      BY <3>2, <3>3
  <2> QED
    BY <1>11, <2>1, <2>3, OneOrder
<1>14. Flips(par, q, Tmp(d)) /\ The(par, q).new = Need(c)
  BY <1>4, <1>5, <1>7, <1>8, <1>10 DEF Flips, IsBarrier
<1>15. Gives(par, N, q, x)
  BY <1>2, <1>11, <1>13, <1>14 DEF Gives, c
<1> QED
  BY <1>8, <1>10, <1>15

\* The same for the window images.
LEMMA WindowGiven ==
  ASSUME NEW par, NEW N, NEW s, Recorded(par, N, "vk", s), NEW x \in Program(par, N),
         IsUser(The(par, x)), Uses(The(par, x)) \in Window, Need(The(par, x)) # "none"
  PROVE  \E q \in Program(par, N) : Gives(par, N, q, x)
<1> DEFINE c == The(par, x)
           p == par[x.n]
<1>1. Settings(p) /\ OnVk(p) /\ x \in Labels /\ Has(p, x) /\ x.n \in 1 .. N
      /\ c = Cmd(p, x) /\ x.n \in Nat
  BY OfProgram DEF OnVk
<1>2. c.op \notin {"wait", "end"} /\ Uses(c) \in Window /\ Need(c) # "none"
  BY DEF IsUser
<1> HIDE DEF c
<1>3. /\ Uses(c) = p.w
      /\ \/ x.i = 0 /\ x.t = 3 /\ c.op = "store"
         \/ x.i \in 1 .. 5 /\ x.t = 2 /\ c.op = "store"
         \/ x.i = 6 /\ x.t = 1 /\ c.op = "barrier" /\ c.old = "attachment"
  <2>1. /\ Uses(c) = p.w
        /\ \/ x.i = 0 /\ x.t = 1 /\ IsBarrier(c, p.w, "none", "attachment", {}, {"color"})
           \/ x.i = 0 /\ x.t = 3 /\ p.b = 0 /\ IsPlain(c, "store", p.w, "color")
           \/ x.i = NPass(p) /\ x.i \in 1 .. 5 /\ x.t = 2 /\ IsPlain(c, "store", p.w, "color")
           \/ x.i = 6 /\ x.t = 1 /\ IsBarrier(c, p.w, "attachment", "present", {"color"}, {})
    BY <1>1, <1>2, WindowUser
  <2>2. IsBarrier(c, p.w, "none", "attachment", {}, {"color"}) => Need(c) = "none"
    BY DEF IsBarrier, Need
  <2> QED
    BY <1>2, <2>1, <2>2 DEF IsBarrier, IsPlain
<1>4. Need(c) = "attachment"
  BY <1>3 DEF Need, LayoutFor
<1>5. PICK q : q = At(x.n, 0, 1) /\ q.n = x.n /\ q.i = 0 /\ q.t = 1
  BY Labelled
<1>6. q \in Labels /\ Has(p, q) /\ q \in Program(par, N)
  <2>1. q \in Labels
    BY <1>1, <1>5 DEF Labels, At
  <2>2. Has(p, q)
    BY <1>1, <1>5 DEF Has, OnVk
  <2> QED
    BY <1>1, <1>5, <2>1, <2>2 DEF Program
<1>7. IsBarrier(The(par, q), p.w, "none", "attachment", {}, {"color"})
  BY <1>1, <1>5, <1>6, Preparation DEF The
<1>8. Less(q, x)
  BY <1>3, <1>5 DEF Less
<1>9. ASSUME NEW z \in Program(par, N), Flips(par, z, p.w)
      PROVE  z \in Labels /\ z.n \in Nat /\ ((z.i = 0 /\ z.t = 1) \/ (z.i = 6 /\ z.t = 1))
  <2> DEFINE d == The(par, z)
  <2>1. Settings(par[z.n]) /\ OnVk(par[z.n]) /\ z \in Labels /\ Has(par[z.n], z)
        /\ d = Cmd(par[z.n], z) /\ z.n \in Nat
    BY OfProgram DEF OnVk
  <2>2. d.op = "barrier" /\ d.img = p.w /\ p.w \in Window
    BY <1>1, <1>9 DEF Flips, Settings
  <2> HIDE DEF d
  <2>3. Uses(d) \in Window /\ d.op \notin {"wait", "end", "store"}
    BY <2>2 DEF Uses
  <2> QED
    BY <2>1, <2>3, WindowUser DEF IsPlain
<1>10. ASSUME NEW z \in Program(par, N), Flips(par, z, p.w), Less(z, x)
       PROVE  z = q \/ Less(z, q)
  <2>1. z \in Labels /\ z.n \in Nat /\ ((z.i = 0 /\ z.t = 1) \/ (z.i = 6 /\ z.t = 1))
    BY <1>9, <1>10
  <2>2. z.n < x.n \/ (z.n = x.n /\ (z.i < x.i \/ (z.i = x.i /\ z.t < x.t)))
    BY <1>10 DEF Less
  <2>3. ~(q.n < z.n) /\ (q.n = z.n => ~(q.i < z.i) /\ ~(q.t < z.t))
    BY <1>1, <1>3, <1>5, <2>1, <2>2
  <2>4. ~Less(q, z)
    BY <2>3 DEF Less
  <2> QED
    BY <1>6, <2>1, <2>4, OneOrder
<1>11. Flips(par, q, p.w) /\ The(par, q).new = "attachment"
  BY <1>7 DEF Flips, IsBarrier
<1>12. Gives(par, N, q, x)
  BY <1>3, <1>4, <1>5, <1>8, <1>10, <1>11 DEF Gives, c
<1> QED
  BY <1>6, <1>12

\* Every command that needs a layout gets it from a barrier of its own frame, except for
\* the one that takes over the upload image.
LEMMA Given ==
  ASSUME NEW par, NEW N, NEW s, Recorded(par, N, "vk", s), NEW x \in Program(par, N),
         IsUser(The(par, x)), Need(The(par, x)) # "none", ~TakesOver(par, x)
  PROVE  \E q \in Program(par, N) : Gives(par, N, q, x)
BY UsersAre, WindowGiven, DepthGiven, UploadGiven, TmpGiven

\* The images that the barriers of a frame keep in their layout.
LEMMA UsersInMemory ==
  ASSUME NEW par, NEW N, NEW s, Recorded(par, N, "vk", s), NEW x \in Program(par, N),
         IsUser(The(par, x))
  PROVE  Uses(The(par, x)) \in Memory
BY UsersAre DEF Memory

\* The layout of every image is the one that its next command was recorded for.
LayoutInv(L, par) ==
  \A x \in L :
    IsUser(The(par, x)) /\ Need(The(par, x)) # "none" /\ AllFlipped(L, par, x)
      => layout[Uses(The(par, x))] = Need(The(par, x))

\* What was uploaded is to be read.
UploadInv(L, par) ==
  fallback_image_written /\ (\A z \in L : ~Flips(par, z, Upload)) => layout[Upload] = "readonly"

\* A command is taken away and has changed the layout.
Relaid(par, N, s, L, z) ==
  /\ Recorded(par, N, "vk", s) /\ Closed(L, par, N) /\ Closed(L \ {z}, par, N)
  /\ WinInv(L, par, N) /\ z \in L
  /\ layout' = IF The(par, z).op = "barrier"
                 THEN [layout EXCEPT ![The(par, z).img] = The(par, z).new] ELSE layout
  /\ DOMAIN layout = Memory /\ UNCHANGED fallback_image_written

\* A barrier on an image comes after those on it that are before it and not left.
LEMMA FlipsInTurn ==
  ASSUME NEW CONSTANT par, NEW CONSTANT N, NEW CONSTANT s, NEW CONSTANT L, NEW CONSTANT z,
         Relaid(par, N, s, L, z),
         NEW CONSTANT m, m[1] # "cam", Flips(par, z, m),
         NEW CONSTANT q \in Program(par, N), Flips(par, q, m), Less(z, q)
  PROVE  q \in L \ {z}
<1>1. z \in Program(par, N) /\ z \in L
  BY DEF Relaid, Closed
<1>2. z \in Labels /\ q \in Labels
  BY <1>1 DEF Program
<1> DEFINE c == The(par, z)
           d == The(par, q)
<1>3. c.op = "barrier" /\ c.img = m /\ d.op = "barrier" /\ d.img = m
  BY DEF Flips
<1> HIDE DEF c, d
<1>4. IsUser(c) /\ IsUser(d) /\ Uses(c) = m /\ Uses(d) = m /\ c.op # "fetch"
  BY <1>3 DEF IsUser, Uses
<1>5. q \in L
  <2>1. Recorded(par, N, "vk", s) /\ Closed(L, par, N) /\ WinInv(L, par, N)
    BY DEF Relaid
  <2> QED
    BY <1>1, <1>4, <2>1, InTurn DEF c, d
<1>6. q # z
  BY <1>2, OneOrder
<1> QED
  BY <1>5, <1>6

\* Only a barrier of an image changes its layout.
LEMMA LayoutStays ==
  ASSUME NEW CONSTANT par, NEW CONSTANT N, NEW CONSTANT s, NEW CONSTANT L, NEW CONSTANT z,
         Relaid(par, N, s, L, z), NEW CONSTANT m \in Memory
  PROVE  layout'[m] = IF Flips(par, z, m) THEN The(par, z).new ELSE layout[m]
<1> DEFINE c == The(par, z)
<1>1. layout' = (IF c.op = "barrier" THEN [layout EXCEPT ![c.img] = c.new] ELSE layout)
      /\ DOMAIN layout = Memory
  BY DEF Relaid
<1>2. Flips(par, z, m) <=> c.op = "barrier" /\ c.img = m
  BY DEF Flips
<1> HIDE DEF c
<1>3. layout'[m] = IF Flips(par, z, m) THEN c.new ELSE layout[m]
  BY <1>1, <1>2
<1> QED
  BY <1>3 DEF c

\* A barrier of the upload image with none left behind it in its frame leaves it readable.
LEMMA UploadRelaid ==
  ASSUME NEW CONSTANT par, NEW CONSTANT N, NEW CONSTANT s, NEW CONSTANT L, NEW CONSTANT z,
         Relaid(par, N, s, L, z), Flips(par, z, Upload),
         NEW CONSTANT e, e = At(z.n, 0, 5), ~(e \in L \ {z})
  PROVE  The(par, z).new = "readonly"
<1> DEFINE c == The(par, z)
           p == par[z.n]
<1>1. z \in Program(par, N) /\ Recorded(par, N, "vk", s)
  BY DEF Relaid, Closed
<1>2. Settings(p) /\ OnVk(p) /\ z \in Labels /\ Has(p, z) /\ z.n \in 1 .. N
      /\ c = Cmd(p, z) /\ z.n \in Nat
  BY <1>1, OfProgram DEF OnVk
<1>3. c.op = "barrier" /\ c.img = Upload
  BY DEF Flips
<1> HIDE DEF c
<1>4. Uses(c) = Upload
  BY <1>3 DEF Uses
<1>5. /\ p.b # 0 /\ ~p.zc
      /\ \/ z.i = 0 /\ z.t = 3
         \/ z.i = 0 /\ z.t = 5 /\ c.new = "readonly"
  BY <1>2, <1>3, <1>4, UploadUser DEF IsPlain, IsBarrier
<1>6. PICK q \in Program(par, N) :
        /\ q = At(z.n, 0, 5) /\ q.n = z.n /\ q.i = 0 /\ q.t = 5
        /\ IsBarrier(The(par, q), Upload, "transfer", "readonly", {"transfer"}, {"frag"})
  BY <1>1, <1>2, <1>5, UploadFrame
<1>7. Flips(par, q, Upload) /\ Upload[1] # "cam"
  BY <1>6 DEF Flips, IsBarrier, Upload
<1>8. z.t # 3
  <2> SUFFICES ASSUME z.t = 3 PROVE FALSE
    OBVIOUS
  <2>1. Less(z, q)
    BY <1>5, <1>6 DEF Less
  <2> QED
    BY <1>6, <1>7, <2>1, FlipsInTurn
<1> QED
  BY <1>5, <1>8 DEF c

\* Executing a command keeps the layouts right for those that are left.
LEMMA LayoutInvStep ==
  ASSUME NEW CONSTANT par, NEW CONSTANT N, NEW CONSTANT s, NEW CONSTANT L, NEW CONSTANT z,
         Relaid(par, N, s, L, z), LayoutInv(L, par)
  PROVE  LayoutInv(L \ {z}, par)'
<1> DEFINE M == L \ {z}
<1> SUFFICES ASSUME NEW CONSTANT x \in M, IsUser(The(par, x)), Need(The(par, x)) # "none",
                    AllFlipped(M, par, x)
             PROVE  layout'[Uses(The(par, x))] = Need(The(par, x))
  BY DEF LayoutInv
<1>1. /\ Recorded(par, N, "vk", s) /\ Closed(L, par, N) /\ Closed(M, par, N)
      /\ WinInv(L, par, N) /\ WinInv(M, par, N) /\ z \in L
  BY WinInvLess DEF Relaid
<1>2. z \in Program(par, N) /\ x \in Program(par, N) /\ x # z /\ x \in L
  BY <1>1 DEF Closed
<1>3. z \in Labels /\ x \in Labels
  BY <1>2 DEF Program
<1>4. PICK m : m = Uses(The(par, x))
  OBVIOUS
<1>5. m \in Memory /\ m[1] # "cam"
  BY <1>1, <1>2, <1>4, UsersInMemory DEF IsUser
<1>6. \A y \in M : Flips(par, y, m) => ~Less(y, x)
  BY <1>4 DEF AllFlipped
<1>7. CASE ~Flips(par, z, m)
  <2>1. layout'[m] = layout[m]
    BY <1>5, <1>7, LayoutStays
  <2>2. AllFlipped(L, par, x)
    BY <1>4, <1>6, <1>7 DEF AllFlipped
  <2>3. layout[m] = Need(The(par, x))
    BY <1>2, <1>4, <2>2 DEF LayoutInv
  <2> QED
    BY <1>4, <2>1, <2>3
<1>8. CASE Flips(par, z, m)
  <2>1. layout'[m] = The(par, z).new
    BY <1>5, <1>8, LayoutStays
  <2>2. ~Less(x, z)
    <3> SUFFICES ASSUME Less(x, z) PROVE FALSE
      OBVIOUS
    <3> DEFINE c == The(par, z)
    <3>1. c.op = "barrier" /\ c.img = m
      BY <1>8 DEF Flips
    <3> HIDE DEF c
    <3>2. IsUser(c) /\ Uses(c) = m /\ c.op # "fetch"
      BY <1>5, <3>1 DEF IsUser, Uses
    <3>3. z \in M
      BY <1>1, <1>2, <1>4, <3>2, InTurn DEF c
    <3> QED
      BY <3>3
  <2>3. Less(z, x)
    BY <1>2, <1>3, <2>2, OneOrder
  <2>4. CASE ~TakesOver(par, x)
    <3>1. PICK q \in Program(par, N) : Gives(par, N, q, x)
      BY <1>1, <1>2, <2>4, Given
    <3>2. /\ Less(q, x) /\ Flips(par, q, m) /\ The(par, q).new = Need(The(par, x))
          /\ z = q \/ Less(z, q)
      BY <1>2, <1>4, <1>8, <2>3, <3>1 DEF Gives
    <3>3. ~Less(z, q)
      BY <1>5, <1>6, <1>8, <3>2, FlipsInTurn
    <3> QED
      BY <1>4, <2>1, <3>2, <3>3
  <2>5. CASE TakesOver(par, x)
    <3>1. m = Upload /\ x.i = 0 /\ x.t = 3
      BY <1>4, <2>5 DEF TakesOver
    <3>2. z.n \in Nat /\ x.n \in Nat /\ z.i \in 0 .. 6 /\ z.t \in 0 .. 5
      BY <1>3 DEF Labels
    <3>3. PICK e : e = At(z.n, 0, 5) /\ e.n = z.n /\ e.i = 0 /\ e.t = 5
      BY Labelled
    <3>n. CASE z.n = x.n
      <4>1. ~Less(z, x)
        <5> DEFINE c == The(par, z)
        <5>1. Settings(par[z.n]) /\ OnVk(par[z.n]) /\ Has(par[z.n], z) /\ c = Cmd(par[z.n], z)
          BY <1>1, <1>2, OfProgram DEF OnVk
        <5>2. c.op = "barrier" /\ Uses(c) = Upload
          BY <1>8, <3>1 DEF Flips, Uses
        <5> HIDE DEF c
        <5>3. z.i = 0 /\ z.t \in {3, 5}
          BY <1>3, <5>1, <5>2, UploadUser DEF IsPlain
        <5> QED
          BY <3>1, <3>2, <3>n, <5>3 DEF Less
      <4> QED
        BY <2>3, <4>1
    <3>m. CASE z.n # x.n
      <4>1. Less(e, x)
        BY <2>3, <3>2, <3>3, <3>m DEF Less
      <4>2. e \notin M
        <5> SUFFICES ASSUME e \in M PROVE FALSE
          OBVIOUS
        <5>1. Flips(par, e, Upload)
          <6> DEFINE c == The(par, e)
          <6>1. e \in Program(par, N)
            BY <1>1 DEF Closed
          <6>2. Settings(par[e.n]) /\ e \in Labels /\ Has(par[e.n], e) /\ c = Cmd(par[e.n], e)
            BY <1>1, <6>1, OfProgram
          <6> HIDE DEF c
          <6>3. c.op = "barrier" /\ c.img = Upload
            BY <3>3, <6>2, Preparation DEF IsBarrier
          <6> QED
            BY <6>3 DEF c, Flips
        <5> QED
          BY <1>6, <3>1, <4>1, <5>1
      <4>3. The(par, z).new = "readonly"
        BY <1>8, <3>1, <3>3, <4>2, UploadRelaid
      <4>4. Need(The(par, x)) = "readonly"
        <5> DEFINE c == The(par, x)
        <5>1. Settings(par[x.n]) /\ x \in Labels /\ Has(par[x.n], x) /\ c = Cmd(par[x.n], x)
              /\ OnVk(par[x.n])
          BY <1>1, <1>2, OfProgram DEF OnVk
        <5>2. c.op = "barrier" /\ Uses(c) = Upload /\ Need(c) # "none"
          BY <2>5 DEF TakesOver, Flips
        <5> HIDE DEF c
        <5>3. IsBarrier(c, Upload, UploadOld(par[x.n].written), "transfer", {"frag"}, {"transfer"})
          BY <3>1, <5>1, <5>2, UploadUser
        <5>4. Need(c) = "readonly"
          BY <5>2, <5>3 DEF IsBarrier, Need, UploadOld
        <5> QED
          BY <5>4 DEF c
      <4> QED
        BY <1>4, <2>1, <4>3, <4>4
    <3> QED
      BY <3>n, <3>m
  <2> QED
    BY <2>4, <2>5
<1> QED
  BY <1>7, <1>8

\* Executing a command keeps what was uploaded readable.
LEMMA UploadInvStep ==
  ASSUME NEW CONSTANT par, NEW CONSTANT N, NEW CONSTANT s, NEW CONSTANT L, NEW CONSTANT z,
         Relaid(par, N, s, L, z), UploadInv(L, par)
  PROVE  UploadInv(L \ {z}, par)'
<1> SUFFICES ASSUME fallback_image_written', \A y \in L \ {z} : ~Flips(par, y, Upload)
             PROVE  layout'[Upload] = "readonly"
  BY DEF UploadInv
<1>1. fallback_image_written /\ Upload \in Memory
  BY DEF Relaid, Memory
<1>2. CASE Flips(par, z, Upload)
  <2>1. PICK e : e = At(z.n, 0, 5) /\ e.n = z.n /\ e.i = 0 /\ e.t = 5
    BY Labelled
  <2>2. e \notin L \ {z}
    <3> SUFFICES ASSUME e \in L \ {z} PROVE FALSE
      OBVIOUS
    <3> DEFINE c == The(par, e)
    <3>1. e \in Program(par, N) /\ Recorded(par, N, "vk", s)
      BY DEF Relaid, Closed
    <3>2. Settings(par[e.n]) /\ e \in Labels /\ Has(par[e.n], e) /\ c = Cmd(par[e.n], e)
      BY <3>1, OfProgram
    <3> HIDE DEF c
    <3>3. c.op = "barrier" /\ c.img = Upload
      BY <2>1, <3>2, Preparation DEF IsBarrier
    <3>4. Flips(par, e, Upload)
      BY <3>3 DEF c, Flips
    <3> QED
      BY <3>4
  <2>3. The(par, z).new = "readonly"
    BY <1>2, <2>1, <2>2, UploadRelaid
  <2> QED
    BY <1>1, <1>2, <2>3, LayoutStays
<1>3. CASE ~Flips(par, z, Upload)
  <2>1. layout[Upload] = "readonly"
    BY <1>1, <1>3 DEF UploadInv
  <2> QED
    BY <1>1, <1>3, <2>1, LayoutStays
<1> QED
  BY <1>2, <1>3

\* A new frame finds the images in the layouts that it was recorded for.
LEMMA LayoutInvDraws ==
  ASSUME NEW CONSTANT lab, NEW CONSTANT par, QueueInv(lab, par), scene = "vk",
         LayoutInv(Left(lab), par), UploadInv(Left(lab), par),
         NEW CONSTANT more, NEW CONSTANT pars, NEW CONSTANT p,
         With(lab, par, more, pars, p), DrawnWith(p), Recorded(pars, frames + 1, "vk", zero_copy),
         UNCHANGED layout
  PROVE  LayoutInv(Left(more), pars)'
<1> DEFINE L == Left(lab)
           M == Left(more)
           N == frames + 1
<1> SUFFICES ASSUME NEW CONSTANT x \in M, IsUser(The(pars, x)), Need(The(pars, x)) # "none",
                    AllFlipped(M, pars, x)
             PROVE  layout[Uses(The(pars, x))] = Need(The(pars, x))
  BY DEF LayoutInv
<1>1. frames \in Nat /\ M = L \cup Names(p, N) /\ pars[N] = p /\ (\A n \in 1 .. frames : pars[n] = par[n])
      /\ Program(pars, N) = Program(par, frames) \cup Names(p, N)
  BY DEF QueueInv, With
<1>2. L \subseteq Program(par, frames)
  BY ClosedNow DEF Closed
<1>3. \A y \in L : y \in Labels /\ y.n \in 1 .. frames /\ The(pars, y) = The(par, y)
  BY <1>1, <1>2 DEF Program, The
<1>4. \A y \in Names(p, N) : y \in Labels /\ y.n = N /\ y \in M
  BY <1>1 DEF Names
<1>5. CASE x \in L
  <2>1. The(pars, x) = The(par, x)
    BY <1>3, <1>5
  <2>2. AllFlipped(L, par, x)
    <3> SUFFICES ASSUME NEW y \in L, Flips(par, y, Uses(The(par, x))) PROVE ~Less(y, x)
      BY DEF AllFlipped
    <3>1. Flips(pars, y, Uses(The(pars, x))) /\ y \in M
      BY <1>1, <1>3, <2>1 DEF Flips
    <3> QED
      BY <3>1 DEF AllFlipped
  <2> QED
    BY <1>5, <2>1, <2>2 DEF LayoutInv
<1>6. CASE x \notin L
  <2>1. x \in Names(p, N) /\ x \in Program(pars, N) /\ x.n = N /\ x \in Labels
    BY <1>1, <1>4, <1>6
  <2>2. CASE ~TakesOver(pars, x)
    <3>1. PICK q \in Program(pars, N) : Gives(pars, N, q, x)
      BY <2>1, <2>2, Given
    <3>2. q.n = N /\ Less(q, x) /\ Flips(pars, q, Uses(The(pars, x)))
      BY <2>1, <3>1 DEF Gives
    <3>3. q \in M
      <4>1. q \in Labels /\ Has(pars[q.n], q)
        BY DEF Program
      <4>2. q \in Names(p, N)
        BY <1>1, <3>2, <4>1 DEF Names
      <4> QED
        BY <1>1, <4>2
    <3> QED
      BY <3>2, <3>3 DEF AllFlipped
  <2>3. CASE TakesOver(pars, x)
    <3>1. Uses(The(pars, x)) = Upload
      BY <2>3 DEF TakesOver
    <3>2. \A z \in L : ~Flips(par, z, Upload)
      <4> SUFFICES ASSUME NEW z \in L, Flips(par, z, Upload) PROVE FALSE
        OBVIOUS
      <4>1. Flips(pars, z, Uses(The(pars, x))) /\ z \in M
        BY <1>1, <1>3, <3>1 DEF Flips
      <4>2. z.n < x.n
        BY <1>1, <1>3, <2>1
      <4> QED
        BY <4>1, <4>2 DEF AllFlipped, Less
    <3>3. Need(The(pars, x)) = UploadOld(p.written)
      <4> DEFINE c == The(pars, x)
      <4>1. Settings(p) /\ OnVk(p) /\ Has(p, x) /\ c = Cmd(p, x)
        BY <1>1, <2>1, OfProgram DEF OnVk
      <4>2. c.op = "barrier" /\ Uses(c) = Upload /\ x.i = 0 /\ x.t = 3
        BY <2>3 DEF TakesOver, Flips
      <4> HIDE DEF c
      <4>3. IsBarrier(c, Upload, UploadOld(p.written), "transfer", {"frag"}, {"transfer"})
        BY <2>1, <4>1, <4>2, UploadUser
      <4>4. Need(c) = UploadOld(p.written)
        BY <4>3 DEF IsBarrier, Need
      <4> QED
        BY <4>4 DEF c
    <3>4. fallback_image_written /\ Need(The(pars, x)) = "readonly"
      BY <3>3 DEF UploadOld, DrawnWith
    <3> QED
      BY <3>1, <3>2, <3>4 DEF UploadInv
  <2> QED
    BY <2>2, <2>3
<1> QED
  BY <1>5, <1>6

\* A frame that uploads has barriers of its own to come.
LEMMA UploadInvDraws ==
  ASSUME NEW CONSTANT lab, NEW CONSTANT par, QueueInv(lab, par), scene = "vk", Basics,
         UploadInv(Left(lab), par),
         NEW CONSTANT more, NEW CONSTANT pars, NEW CONSTANT p,
         With(lab, par, more, pars, p), DrawnWith(p), Recorded(pars, frames + 1, "vk", zero_copy),
         UNCHANGED layout,
         fallback_image_written' = (fallback_image_written \/ (latest # 0 /\ ~zero_copy))
  PROVE  UploadInv(Left(more), pars)'
<1> DEFINE L == Left(lab)
           M == Left(more)
           N == frames + 1
<1> SUFFICES ASSUME fallback_image_written', \A z \in M : ~Flips(pars, z, Upload)
             PROVE  layout[Upload] = "readonly"
  BY DEF UploadInv
<1>1. frames \in Nat /\ M = L \cup Names(p, N) /\ pars[N] = p /\ (\A n \in 1 .. frames : pars[n] = par[n])
      /\ N \in 1 .. N
  BY DEF QueueInv, With
<1>2. L \subseteq Program(par, frames)
  BY ClosedNow DEF Closed
<1>3. \A y \in L : y \in M /\ The(pars, y) = The(par, y)
  BY <1>1, <1>2 DEF Program, The
<1>4. \A z \in L : ~Flips(par, z, Upload)
  BY <1>3 DEF Flips
<1>5. ~(latest # 0 /\ ~zero_copy)
  <2> SUFFICES ASSUME latest # 0, ~zero_copy PROVE FALSE
    OBVIOUS
  <2>1. p.b # 0 /\ ~p.zc
    BY DEF DrawnWith
  <2>2. PICK a \in Program(pars, N) :
          /\ a = At(N, 0, 3) /\ a.n = N
          /\ IsBarrier(The(pars, a), Upload, UploadOld(pars[N].written), "transfer", {"frag"},
                       {"transfer"})
    BY <1>1, <2>1, UploadFrame
  <2>3. a \in M
    BY <1>1, <2>2 DEF Program, Names
  <2>4. Flips(pars, a, Upload)
    BY <2>2 DEF Flips, IsBarrier
  <2> QED
    BY <2>3, <2>4
<1>6. fallback_image_written
  BY <1>5
<1> QED
  BY <1>4, <1>6 DEF UploadInv

\* What could be executed finds its layout.
LEMMA LayoutInvGives ==
  ASSUME NEW CONSTANT lab, NEW CONSTANT par, QueueInv(lab, par),
         WinInv(Left(lab), par, frames), scene = "vk" => LayoutInv(Left(lab), par)
  PROVE  LayoutsMatch
<1> SUFFICES ASSUME scene = "vk", NEW CONSTANT i \in DOMAIN queue, Ready(i),
                    queue[i].op \notin {"end", "wait"}, Uses(queue[i])[1] # "cam"
             PROVE  IF queue[i].op = "barrier" THEN queue[i].old \in {"none", layout[queue[i].img]}
                    ELSE layout[Uses(queue[i])] = LayoutFor(queue[i].op)
  BY DEF LayoutsMatch
<1> DEFINE L == Left(lab)
<1>1. i \in 1 .. Len(queue) /\ \A j \in 1 .. i - 1 : ~Before(queue[j], queue[i])
  BY DEF Ready, QueueInv
<1>2. PICK x : x = lab[i] /\ x \in L
  BY <1>1, InQueue
<1>3. PICK c : c = The(par, x)
  OBVIOUS
<1>4. Like(queue[i], c)
  BY <1>1, <1>2, <1>3 DEF QueueInv
<1>5. queue[i].op = c.op /\ queue[i].img = c.img /\ queue[i].old = c.old /\ Uses(queue[i]) = Uses(c)
  BY <1>4 DEF Like, Uses
<1>6. IsUser(c)
  BY <1>5 DEF IsUser
<1>7. Closed(L, par, frames) /\ Recorded(par, frames, "vk", zero_copy) /\ x \in Program(par, frames)
  BY <1>2, ClosedNow, IsLeft
<1>8. Closed(L \ {x}, par, frames) /\ WinInv(L \ {x}, par, frames)
  BY <1>1, <1>2, ClosedNext, WinInvLess
<1>9. AllFlipped(L, par, x)
  <2> SUFFICES ASSUME NEW CONSTANT z \in L, Flips(par, z, Uses(c)), Less(z, x) PROVE FALSE
    BY <1>3 DEF AllFlipped
  <2> DEFINE d == The(par, z)
  <2>1. d.op = "barrier" /\ d.img = Uses(c)
    BY DEF Flips
  <2> HIDE DEF d
  <2>2. IsUser(d) /\ Uses(d) = Uses(c) /\ d.op # "fetch"
    BY <1>6, <2>1 DEF IsUser, Uses
  <2>3. z # x
    BY <1>7, OneOrder DEF Program
  <2>4. x \in L \ {x}
    BY <1>3, <1>6, <1>7, <1>8, <2>2, <2>3, InTurn DEF d
  <2> QED
    BY <2>4
<1>10. Need(c) # "none" => layout[Uses(c)] = Need(c)
  BY <1>2, <1>3, <1>6, <1>9 DEF LayoutInv
<1>11. c.op = "barrier" => Uses(c) = c.img /\ Need(c) = c.old
  BY DEF Uses, Need
<1>12. c.op # "barrier" => Need(c) = LayoutFor(c.op) /\ Need(c) # "none"
  <2> SUFFICES ASSUME c.op # "barrier" PROVE Need(c) = LayoutFor(c.op) /\ Need(c) # "none"
    OBVIOUS
  <2>1. /\ Settings(par[x.n]) /\ OnVk(par[x.n]) /\ x \in Labels /\ Has(par[x.n], x)
        /\ c = Cmd(par[x.n], x)
    BY <1>3, <1>7, OfProgram DEF OnVk
  <2>2. c.op \notin {"barrier", "wait", "end"}
    BY <1>6 DEF IsUser
  <2>3. PlainKind(par[x.n], x, c)
    BY <2>1, <2>2, PlainAre
  <2>4. c.op \in {"store", "copy", "clear", "fetch", "test"}
    BY <2>3 DEF PlainKind, IsPlain
  <2> QED
    BY <2>4 DEF Need, LayoutFor
<1> QED
  BY <1>5, <1>10, <1>11, <1>12

------------------------------------------------------------------------------
(* The depth image *)

\* A test and the clear before it, and who else writes to the depth image.
LEMMA Tests ==
  ASSUME NEW par, NEW N, NEW s, NEW z, Recorded(par, N, s, z), NEW x \in Program(par, N),
         The(par, x).op = "test"
  PROVE  /\ x.i = NPass(par[x.n]) /\ x.i \in 1 .. 5 /\ x.t = 3 /\ The(par, x).img = Depth
         /\ s # "shm"
         /\ \E e \in Program(par, N) :
              /\ e = At(x.n, x.i, 0) /\ e.n = x.n /\ e.i = x.i /\ e.t = 0 /\ Less(e, x)
              /\ The(par, e).op = "clear" /\ The(par, e).img = Depth
              /\ The(par, e).draw = The(par, x).draw
<1> DEFINE c == The(par, x)
           p == par[x.n]
<1>1. Settings(p) /\ x \in Labels /\ Has(p, x) /\ x.n \in 1 .. N /\ c = Cmd(p, x)
      /\ x.n \in Nat /\ p.scene = s
  BY OfProgram
<1>2. c.op = "test"
  OBVIOUS
<1> HIDE DEF c, p
<1>3. x.i \in 1 .. 5
  <2>1. x.i # 0
    <3> SUFFICES ASSUME x.i = 0 PROVE FALSE
      OBVIOUS
    <3>1. x.t \in {0, 1, 2, 3, 4, 5}
      BY <1>1, Kinds
    <3>2. BlackStore(p.w).op # "test"
      BY BlackStores DEF IsPlain
    <3>3. x.t # 0 /\ x.t # 2 /\ x.t # 4 /\ x.t # 5
      BY <1>1, <1>2, Preparation DEF IsPlain, IsBarrier
    <3>4. x.t # 1
      BY <1>1, <1>2, <3>2, Preparation DEF IsBarrier
    <3>5. x.t # 3
      <4>1. p.zc \in BOOLEAN
        BY <1>1 DEF Settings
      <4> QED
        BY <1>1, <1>2, <3>2, <4>1, Preparation DEF IsBarrier
    <3> QED
      BY <3>1, <3>3, <3>4, <3>5
  <2>2. x.i # 6
    <3> SUFFICES ASSUME x.i = 6 PROVE FALSE
      OBVIOUS
    <3>1. x.t \in {0, 1, 2}
      BY <1>1, Kinds
    <3> QED
      BY <1>1, <1>2, <3>1, EndSteps DEF IsBarrier
  <2> QED
    BY <1>1, <2>1, <2>2, Kinds
<1>4. x.t = 3 /\ x.i = NPass(p) /\ c.draw = <<x.n, x.i>> /\ c.img = Depth
  <2>1. x.t \in {0, 1, 2, 3}
    BY <1>1, <1>3, Kinds
  <2> QED
    BY <1>1, <1>2, <1>3, <2>1, PassSteps DEF IsPlain, IsBarrier
<1>5. PICK e : e = At(x.n, x.i, 0) /\ e.n = x.n /\ e.i = x.i /\ e.t = 0
  BY Labelled
<1>6. Drawn(p) /\ p.cube
  BY <1>1, <1>3, <1>4, PassCount DEF Has, Drawn
<1>7. e \in Labels /\ Has(p, e)
  <2>1. e \in Labels
    BY <1>1, <1>3, <1>5 DEF Labels, At
  <2>2. NPass(p) \in 1 .. 5
    BY <1>1, PassCount
  <2> QED
    BY <1>4, <1>5, <1>6, <2>1, <2>2 DEF Has
<1>8. e \in Program(par, N)
  BY <1>1, <1>5, <1>7 DEF Program, p
<1>9. IsPlain(The(par, e), "clear", Depth, "depth") /\ The(par, e).draw = <<e.n, e.i>>
  BY <1>1, <1>3, <1>4, <1>5, <1>7, PassSteps DEF The, p
<1>10. Less(e, x)
  BY <1>4, <1>5 DEF Less
<1>11. s # "shm"
  BY <1>1, <1>6 DEF Drawn
<1> QED
  BY <1>3, <1>4, <1>5, <1>8, <1>9, <1>10, <1>11 DEF IsPlain, c, p

\* Nothing else writes to the depth image.
LEMMA DepthWriters ==
  ASSUME NEW par, NEW N, NEW s, NEW z, Recorded(par, N, s, z), NEW x \in Program(par, N),
         The(par, x).op \in {"barrier", "store", "copy", "clear"}, The(par, x).img = Depth
  PROVE  \/ x.i = 0 /\ x.t = 2
         \/ x.i = NPass(par[x.n]) /\ x.i \in 1 .. 5 /\ x.t = 0 /\ The(par, x).op = "clear"
<1> DEFINE c == The(par, x)
           p == par[x.n]
<1>1. Settings(p) /\ x \in Labels /\ Has(p, x) /\ x.n \in 1 .. N /\ c = Cmd(p, x)
  BY OfProgram
<1>2. c.op \in {"barrier", "store", "copy", "clear"} /\ c.img = Depth
  OBVIOUS
<1> HIDE DEF c, p
<1>0. p.w \in Window /\ p.zc \in BOOLEAN
  BY <1>1 DEF Settings
<1>3. CASE c.op = "barrier"
  <2>1. BarrierKind(p, x, c)
    BY <1>1, <1>3, BarriersAre
  <2> QED
    BY <1>0, <1>2, <2>1, Images DEF BarrierKind, IsBarrier
<1>4. CASE c.op \in {"store", "copy", "clear"}
  <2>1. CASE x.i = 0
    <3>1. x.t \in {0, 1, 2, 3, 4, 5}
      BY <1>1, Kinds
    <3>2. BlackStore(p.w).img # Depth
      BY <1>0, BlackStores, Images DEF IsPlain
    <3>3. x.t # 1
      BY <1>1, <1>2, <1>4, <2>1, <3>2, Preparation DEF IsBarrier
    <3>4. x.t # 3
      BY <1>0, <1>1, <1>2, <1>4, <2>1, <3>2, Preparation DEF IsBarrier
    <3>5. x.t # 4
      BY <1>1, <1>2, <2>1, Preparation, Images DEF IsPlain
    <3>6. x.t # 0 /\ x.t # 5
      BY <1>1, <1>4, <2>1, Preparation DEF IsBarrier
    <3> QED
      BY <2>1, <3>1, <3>3, <3>4, <3>5, <3>6
  <2>2. CASE x.i \in 1 .. 5
    <3>1. x.t \in {0, 1, 2, 3}
      BY <1>1, <2>2, Kinds
    <3>2. DrawnBy(p, x.i) # Depth
      BY <1>0, Images DEF DrawnBy
    <3>3. x.t # 1
      BY <1>1, <1>4, <2>2, PassSteps DEF IsPlain
    <3>4. x.t # 2
      BY <1>1, <1>2, <2>2, <3>2, PassSteps DEF IsPlain
    <3>5. x.t # 3
      BY <1>1, <1>4, <2>2, PassSteps DEF IsPlain, IsBarrier
    <3>6. x.t = 0 => x.i = NPass(p) /\ c.op = "clear"
      BY <1>1, <1>4, <2>2, PassSteps DEF IsPlain, IsBarrier
    <3> QED
      BY <2>2, <3>1, <3>3, <3>4, <3>5, <3>6 DEF c, p
  <2>3. CASE x.i = 6
    <3>1. x.t \in {0, 1, 2}
      BY <1>1, <2>3, Kinds
    <3> QED
      BY <1>1, <1>4, <2>3, <3>1, EndSteps DEF IsBarrier
  <2> QED
    BY <1>1, <2>1, <2>2, <2>3, Kinds
<1> QED
  BY <1>2, <1>3, <1>4

\* The commands on the depth image stay in their order, with OpenGL too.
LEMMA DepthTurn ==
  ASSUME NEW par, NEW N, NEW s, NEW b, Recorded(par, N, s, b), NEW L, Closed(L, par, N),
         NEW x \in L, NEW y \in Program(par, N), Less(x, y),
         The(par, x).op \notin {"fetch", "wait", "end"}, The(par, x).img = Depth,
         The(par, y).op \notin {"fetch", "wait", "end"}, The(par, y).img = Depth
  PROVE  y \in L
<1> DEFINE c == The(par, x)
           d == The(par, y)
<1>1. c.op \notin {"fetch", "wait", "end"} /\ c.img = Depth
      /\ d.op \notin {"fetch", "wait", "end"} /\ d.img = Depth
  OBVIOUS
<1> HIDE DEF c, d
<1>2. Uses(c) = Depth /\ Uses(d) = Depth
  BY <1>1 DEF Uses
<1>3. CASE s = "vk"
  BY <1>1, <1>2, <1>3, DepthInTurn DEF c, d
<1>4. CASE s # "vk"
  <2>1. x \in Program(par, N)
    BY DEF Closed
  <2>2. par[x.n].scene # "vk"
    BY <1>4, <2>1, OfProgram
  <2>3. Must(par, x, y)
    BY <1>1, <2>2 DEF Must, Ordered, c, d
  <2> QED
    BY <2>3 DEF Closed
<1> QED
  BY <1>3, <1>4

\* From its clear to its tests the depth image belongs to one draw.
DepthInv(L, par) ==
  \A x \in L :
    The(par, x).op = "test" /\ At(x.n, x.i, 0) \notin L => mem[Depth] = The(par, x).draw

\* z writes to the depth image.
Draws3D(par, z) ==
  The(par, z).op \in {"barrier", "store", "copy", "clear"} /\ The(par, z).img = Depth

\* Taking a command away keeps the depth image to its draw.
LEMMA DepthStep ==
  ASSUME NEW CONSTANT par, NEW CONSTANT N, NEW CONSTANT s, NEW CONSTANT b,
         Recorded(par, N, s, b), NEW CONSTANT L, NEW CONSTANT z \in L,
         Closed(L, par, N), Closed(L \ {z}, par, N), DepthInv(L, par),
         s # "shm" =>
           /\ ~Draws3D(par, z) => mem'[Depth] = mem[Depth]
           /\ The(par, z).op = "clear" /\ The(par, z).img = Depth => mem'[Depth] = The(par, z).draw
  PROVE  DepthInv(L \ {z}, par)'
<1> DEFINE M == L \ {z}
<1> SUFFICES ASSUME NEW CONSTANT x \in M, The(par, x).op = "test", At(x.n, x.i, 0) \notin M
             PROVE  mem'[Depth] = The(par, x).draw
  BY DEF DepthInv
<1>1. x \in Program(par, N) /\ z \in Program(par, N) /\ x # z
  BY DEF Closed
<1>2. PICK e \in Program(par, N) :
        /\ e = At(x.n, x.i, 0) /\ e.n = x.n /\ e.i = x.i /\ e.t = 0 /\ Less(e, x)
        /\ The(par, e).op = "clear" /\ The(par, e).img = Depth
        /\ The(par, e).draw = The(par, x).draw
  BY <1>1, Tests
<1>3. /\ x.i = NPass(par[x.n]) /\ x.i \in 1 .. 5 /\ x.t = 3 /\ The(par, x).img = Depth
      /\ s # "shm"
  BY <1>1, Tests
<1>4. e \in Labels /\ x \in Labels /\ z \in Labels
  BY <1>1 DEF Program
<1>5. CASE z = e
  BY <1>2, <1>3, <1>5
<1>6. CASE z # e /\ ~Draws3D(par, z)
  <2>1. e \notin L
    BY <1>2, <1>6
  <2> QED
    BY <1>2, <1>3, <1>6, <2>1 DEF DepthInv
<1>7. CASE z # e /\ Draws3D(par, z)
  <2>0. /\ The(par, z).op \in {"barrier", "store", "copy", "clear"} /\ The(par, z).img = Depth
        /\ The(par, z).op \notin {"fetch", "wait", "end"}
    BY <1>7 DEF Draws3D
  <2>1. ~Less(x, z)
    <3> SUFFICES ASSUME Less(x, z) PROVE FALSE
      OBVIOUS
    <3>1. The(par, x).op \notin {"fetch", "wait", "end"}
      OBVIOUS
    <3>2. z \in M
      BY <1>1, <1>3, <2>0, <3>1, DepthTurn
    <3> QED
      BY <3>2
  <2>2. Less(z, x)
    BY <1>1, <1>4, <2>1, OneOrder
  <2>3. \/ z.i = 0 /\ z.t = 2
        \/ z.i = NPass(par[z.n]) /\ z.i \in 1 .. 5 /\ z.t = 0
    BY <1>1, <2>0, DepthWriters
  <2>4. x.n \in Nat /\ z.n \in Nat
    BY <1>4 DEF Labels
  <2>5. Less(z, e)
    <3>1. CASE z.n = x.n
      <4>1. z.i = 0
        <5> SUFFICES ASSUME z.i # 0 PROVE FALSE
          OBVIOUS
        <5>1. z.n = e.n /\ z.i = e.i /\ z.t = e.t
          BY <1>2, <1>3, <2>3, <3>1
        <5>2. z = e
          BY <1>4, <5>1 DEF Labels
        <5> QED
          BY <1>7, <5>2
      <4> QED
        BY <1>2, <1>3, <3>1, <4>1 DEF Less
    <3>2. CASE z.n # x.n
      BY <1>2, <2>2, <2>4, <3>2 DEF Less
    <3> QED
      BY <3>1, <3>2
  <2>6. e \in L
    <3>1. The(par, e).op \notin {"fetch", "wait", "end"}
      BY <1>2
    <3> QED
      BY <1>2, <2>0, <2>5, <3>1, DepthTurn
  <2> QED
    BY <1>2, <1>7, <2>6
<1> QED
  BY <1>5, <1>6, <1>7

\* A new frame clears the depth image itself.
LEMMA DepthInvDraws ==
  ASSUME NEW CONSTANT lab, NEW CONSTANT par, QueueInv(lab, par), DepthInv(Left(lab), par),
         NEW CONSTANT more, NEW CONSTANT pars, NEW CONSTANT p,
         With(lab, par, more, pars, p), NEW CONSTANT s, NEW CONSTANT b,
         Recorded(pars, frames + 1, s, b), s # "shm" => mem'[Depth] = mem[Depth]
  PROVE  DepthInv(Left(more), pars)'
<1> DEFINE L == Left(lab)
           M == Left(more)
           N == frames + 1
<1> SUFFICES ASSUME NEW CONSTANT x \in M, The(pars, x).op = "test", At(x.n, x.i, 0) \notin M
             PROVE  mem'[Depth] = The(pars, x).draw
  BY DEF DepthInv
<1>1. frames \in Nat /\ M = L \cup Names(p, N) /\ pars[N] = p /\ (\A n \in 1 .. frames : pars[n] = par[n])
      /\ Program(pars, N) = Program(par, frames) \cup Names(p, N)
  BY DEF QueueInv, With
<1>2. L \subseteq Program(par, frames)
  BY ClosedNow DEF Closed
<1>3. x \in Program(pars, N)
  BY <1>1, <1>2
<1>4. PICK e \in Program(pars, N) : e = At(x.n, x.i, 0) /\ e.n = x.n
  BY <1>3, Tests
<1>5. x \notin Names(p, N)
  <2> SUFFICES ASSUME x \in Names(p, N) PROVE FALSE
    OBVIOUS
  <2>1. e.n = N
    BY <1>4 DEF Names
  <2>2. e \in Labels /\ Has(pars[e.n], e)
    BY DEF Program
  <2>3. e \in Names(p, N)
    BY <1>1, <2>1, <2>2 DEF Names
  <2> QED
    BY <1>1, <1>4, <2>3
<1>6. x \in L /\ x.n \in 1 .. frames
  BY <1>1, <1>2, <1>5 DEF Program
<1>7. The(pars, x) = The(par, x) /\ At(x.n, x.i, 0) \notin L
  BY <1>1, <1>6 DEF The
<1>8. s # "shm"
  BY <1>3, Tests
<1> QED
  BY <1>6, <1>7, <1>8 DEF DepthInv

\* So a test that could be executed meets the depth of its own draw.
LEMMA DepthInvGives ==
  ASSUME NEW CONSTANT lab, NEW CONSTANT par, QueueInv(lab, par), DepthInv(Left(lab), par)
  PROVE  DepthIsOwn
<1> SUFFICES ASSUME NEW CONSTANT i \in DOMAIN queue, queue[i].op = "test", Ready(i)
             PROVE  mem[Depth] = queue[i].draw
  BY DEF DepthIsOwn
<1> DEFINE L == Left(lab)
<1>1. i \in 1 .. Len(queue) /\ \A j \in 1 .. i - 1 : ~Before(queue[j], queue[i])
  BY DEF Ready, QueueInv
<1>2. PICK x : x = lab[i] /\ x \in L
  BY <1>1, InQueue
<1>3. Like(queue[i], The(par, x))
  BY <1>1, <1>2 DEF QueueInv
<1>4. queue[i].draw = The(par, x).draw /\ The(par, x).op = "test"
  BY <1>3 DEF Like
<1>5. /\ Closed(L, par, frames) /\ Recorded(par, frames, scene, zero_copy)
      /\ x \in Program(par, frames)
  BY <1>2, ClosedNow, IsLeft
<1>6. Closed(L \ {x}, par, frames)
  BY <1>1, <1>2, ClosedNext
<1>7. PICK e \in Program(par, frames) :
        /\ e = At(x.n, x.i, 0) /\ Less(e, x)
        /\ The(par, e).op = "clear" /\ The(par, e).img = Depth
  BY <1>4, <1>5, Tests
<1>8. e \notin L
  <2> SUFFICES ASSUME e \in L PROVE FALSE
    OBVIOUS
  <2>1. e # x /\ The(par, x).img = Depth
    BY <1>4, <1>5, <1>7, Tests
  <2>2. x \in L \ {x}
    <3>1. The(par, e).op \notin {"fetch", "wait", "end"} /\ The(par, x).op \notin {"fetch", "wait", "end"}
      BY <1>4, <1>7
    <3> QED
      BY <1>5, <1>6, <1>7, <2>1, <3>1, DepthTurn
  <2> QED
    BY <2>2
<1> QED
  BY <1>2, <1>4, <1>7, <1>8 DEF DepthInv

------------------------------------------------------------------------------
(* What the images hold *)

\* The history of a picture after the first i passes of its frame.
Hist(p, i) ==
  LET P == Passes(p.mask)
      a == Apply(p.pic, P[1])
      b == Apply(a, P[2])
      c == Apply(b, P[3])
      d == Apply(c, P[4])
      e == Apply(d, P[5])
  IN CASE i = 0 -> p.pic [] i = 1 -> a [] i = 2 -> b [] i = 3 -> c [] i = 4 -> d [] i = 5 -> e

\* Pass i adds one effect.
LEMMA HistStep ==
  ASSUME NEW p, NEW i \in 1 .. 5
  PROVE  Hist(p, 0) = p.pic /\ Hist(p, i) = Apply(Hist(p, i - 1), Passes(p.mask)[i])
<1> DEFINE A(h, j) == Apply(h, Passes(p.mask)[j])
<1>1. /\ Hist(p, 0) = p.pic /\ Hist(p, 1) = A(p.pic, 1) /\ Hist(p, 2) = A(A(p.pic, 1), 2)
      /\ Hist(p, 3) = A(A(A(p.pic, 1), 2), 3) /\ Hist(p, 4) = A(A(A(A(p.pic, 1), 2), 3), 4)
      /\ Hist(p, 5) = A(A(A(A(A(p.pic, 1), 2), 3), 4), 5)
  BY DEF Hist
<1>2. Hist(p, i) = A(Hist(p, i - 1), i)
  <2> HIDE DEF A
  <2>1. i \in {1, 2, 3, 4, 5}
    OBVIOUS
  <2> QED
    BY <1>1, <2>1
<1> QED
  BY <1>1, <1>2

\* The passes s make of h the history g.
Through(h, s, g) ==
  \E f : /\ f[0] = h /\ f[Len(s)] = g
         /\ \A k \in 1 .. Len(s) : f[k] = Apply(f[k - 1], s[k])

\* One list of passes after another.
LEMMA ThroughAfter ==
  ASSUME NEW C, NEW s \in Seq(C), NEW t \in Seq(C), NEW h, NEW g, NEW k,
         Through(h, s, g), Through(g, t, k)
  PROVE  Through(h, s \o t, k)
<1>m. PICK m \in Nat, n \in Nat : m = Len(s) /\ n = Len(t)
  OBVIOUS
<1>u. PICK u : u = s \o t
  OBVIOUS
<1>1. /\ Len(u) = m + n
      /\ \A j \in 1 .. m : u[j] = s[j]
      /\ \A j \in m + 1 .. m + n : u[j] = t[j - m]
  BY <1>m, <1>u
<1>2. PICK a : a[0] = h /\ a[m] = g /\ \A j \in 1 .. m : a[j] = Apply(a[j - 1], s[j])
  BY <1>m DEF Through
<1>3. PICK b : b[0] = g /\ b[n] = k /\ \A j \in 1 .. n : b[j] = Apply(b[j - 1], t[j])
  BY <1>m DEF Through
<1> DEFINE f == [j \in 0 .. m + n |-> IF j <= m THEN a[j] ELSE b[j - m]]
<1>4. /\ \A j \in 0 .. m : f[j] = a[j]
      /\ \A j \in m + 1 .. m + n : f[j] = b[j - m]
  OBVIOUS
<1> HIDE DEF f
<1>5. f[0] = h
  BY <1>2, <1>4
<1>6. f[m + n] = k
  <2>1. CASE n = 0
    <3>1. f[m + n] = a[m] /\ b[n] = b[0]
      BY <1>4, <2>1
    <3> QED
      BY <1>2, <1>3, <3>1
  <2>2. CASE n # 0
    <3>1. m + n \in m + 1 .. m + n /\ (m + n) - m = n
      BY <2>2
    <3> QED
      BY <1>3, <1>4, <3>1
  <2> QED
    BY <2>1, <2>2
<1>7. ASSUME NEW j \in 1 .. m + n PROVE f[j] = Apply(f[j - 1], u[j])
  <2>1. CASE j <= m
    <3>1. j \in 1 .. m /\ j \in 0 .. m /\ j - 1 \in 0 .. m
      BY <2>1
    <3>2. f[j] = a[j] /\ f[j - 1] = a[j - 1] /\ u[j] = s[j] /\ a[j] = Apply(a[j - 1], s[j])
      BY <1>1, <1>2, <1>4, <3>1
    <3> QED
      BY <3>2
  <2>2. CASE j > m
    <3>1. PICK i \in 1 .. n : i = j - m /\ j \in m + 1 .. m + n
      BY <2>2
    <3>2. f[j] = b[i] /\ u[j] = t[i] /\ b[i] = Apply(b[i - 1], t[i])
      BY <1>1, <1>3, <1>4, <3>1
    <3>3. f[j - 1] = b[i - 1]
      <4>1. CASE i = 1
        <5>1. j - 1 = m /\ i - 1 = 0 /\ m \in 0 .. m
          BY <3>1, <4>1
        <5> QED
          BY <1>2, <1>3, <1>4, <5>1
      <4>2. CASE i # 1
        <5>1. j - 1 \in m + 1 .. m + n /\ (j - 1) - m = i - 1
          BY <3>1, <4>2
        <5> QED
          BY <1>4, <5>1
      <4> QED
        BY <4>1, <4>2
    <3> QED
      BY <3>2, <3>3
  <2> QED
    BY <2>1, <2>2
<1>8. f[0] = h /\ f[Len(u)] = k /\ \A j \in 1 .. Len(u) : f[j] = Apply(f[j - 1], u[j])
  BY <1>1, <1>5, <1>6, <1>7
<1>9. Through(h, u, k)
  BY <1>8, Zenon DEF Through
<1> QED
  BY <1>9, <1>u

\* No pass, one, or two.
LEMMA ThroughFew ==
  ASSUME NEW h, NEW x, NEW y
  PROVE  /\ Through(h, <<>>, h) /\ Through(h, <<x>>, Apply(h, x))
         /\ Through(h, <<x, y>>, Apply(Apply(h, x), y))
<1> DEFINE f == [j \in 0 .. 2 |-> CASE j = 0 -> h [] j = 1 -> Apply(h, x)
                                    [] j = 2 -> Apply(Apply(h, x), y)]
<1>1. f[0] = h /\ f[1] = Apply(h, x) /\ f[2] = Apply(Apply(h, x), y)
  OBVIOUS
<1> HIDE DEF f
<1>2. Through(h, <<>>, h)
  <2>1. Len(<<>>) = 0 /\ 1 .. 0 = {}
    OBVIOUS
  <2> QED
    BY <1>1, <2>1 DEF Through
<1>3. Through(h, <<x>>, Apply(h, x))
  <2>1. Len(<<x>>) = 1 /\ <<x>>[1] = x /\ \A j \in 1 .. 1 : j = 1 /\ j - 1 = 0
    OBVIOUS
  <2>2. PICK s : s = <<x>>
    OBVIOUS
  <2>3. f[0] = h /\ f[Len(s)] = Apply(h, x) /\ \A j \in 1 .. Len(s) : f[j] = Apply(f[j - 1], s[j])
    BY <1>1, <2>1, <2>2
  <2>4. Through(h, s, Apply(h, x))
    BY <2>3, Zenon DEF Through
  <2> QED
    BY <2>2, <2>4
<1>4. Through(h, <<x, y>>, Apply(Apply(h, x), y))
  <2>1. /\ Len(<<x, y>>) = 2 /\ <<x, y>>[1] = x /\ <<x, y>>[2] = y
        /\ \A j \in 1 .. 2 : (j = 1 /\ j - 1 = 0) \/ (j = 2 /\ j - 1 = 1)
    OBVIOUS
  <2>2. PICK s : s = <<x, y>>
    OBVIOUS
  <2>3. /\ f[0] = h /\ f[Len(s)] = Apply(Apply(h, x), y)
        /\ \A j \in 1 .. Len(s) : f[j] = Apply(f[j - 1], s[j])
    BY <1>1, <2>1, <2>2
  <2>4. Through(h, s, Apply(Apply(h, x), y))
    BY <2>3, Zenon DEF Through
  <2> QED
    BY <2>2, <2>4
<1> QED
  BY <1>2, <1>3, <1>4

\* A list of at most five passes, unrolled.
LEMMA ThroughIs ==
  ASSUME NEW p, Len(Passes(p.mask)) \in 1 .. 5, NEW g, Through(p.pic, Passes(p.mask), g)
  PROVE  g = Hist(p, Len(Passes(p.mask)))
<1> DEFINE P == Passes(p.mask)
<1>1. PICK f : f[0] = p.pic /\ f[Len(P)] = g /\ \A k \in 1 .. Len(P) : f[k] = Apply(f[k - 1], P[k])
  BY DEF Through
<1>2. PICK n \in 1 .. 5 : n = Len(P)
  OBVIOUS
<1>3. ASSUME NEW i \in 1 .. 5, i <= n, f[i - 1] = Hist(p, i - 1) PROVE f[i] = Hist(p, i)
  <2>1. i \in 1 .. n
    BY <1>3
  <2> QED
    BY <1>1, <1>2, <1>3, <2>1, HistStep
<1>4. f[0] = Hist(p, 0)
  BY <1>1, HistStep
<1>5. f[1] = Hist(p, 1)
  BY <1>3, <1>4
<1>6. n >= 2 => f[2] = Hist(p, 2)
  BY <1>3, <1>5
<1>7. n >= 3 => f[3] = Hist(p, 3)
  BY <1>3, <1>6
<1>8. n >= 4 => f[4] = Hist(p, 4)
  BY <1>3, <1>7
<1>9. n >= 5 => f[5] = Hist(p, 5)
  BY <1>3, <1>8
<1>10. n \in {1, 2, 3, 4, 5} /\ g = f[n]
  BY <1>1, <1>2
<1>11. f[n] = Hist(p, n)
  BY <1>5, <1>6, <1>7, <1>8, <1>9, <1>10
<1> QED
  BY <1>2, <1>10, <1>11

\* The list of effect_chain.h and the documented order: quantize, smooth, detect, recolor.
LEMMA HistWanted ==
  ASSUME NEW p, p.mask \in SUBSET Effects, NEW b, b # 0, p.pic = mem[Cam(b)]
  PROVE  Wanted(b, p.mask) = Hist(p, Len(Passes(p.mask)))
<1> DEFINE mask == p.mask
           A == If("mosaic" \in mask, <<"mosaic">>)
           B == If("blur" \in mask, <<"blurH", "blurV">>)
           C == If("sobel" \in mask, <<"sobel">>)
           D == If("thermal" \in mask, <<"thermal">>)
           a == IF "mosaic" \in mask THEN Append(p.pic, "mosaic") ELSE p.pic
           c == IF "blur" \in mask THEN Append(Append(a, "blurH"), "blurV") ELSE a
           d == IF "sobel" \in mask THEN Append(c, "sobel") ELSE c
           e == IF "thermal" \in mask THEN Append(d, "thermal") ELSE d
<1>1. /\ A \in Seq(PassNames) /\ B \in Seq(PassNames) /\ C \in Seq(PassNames)
      /\ D \in Seq(PassNames)
  <2>1. /\ A \in {<<"mosaic">>, <<>>} /\ B \in {<<"blurH", "blurV">>, <<>>}
        /\ C \in {<<"sobel">>, <<>>} /\ D \in {<<"thermal">>, <<>>}
    BY DEF If
  <2> HIDE DEF A, B, C, D
  <2>2. <<>> \in Seq(PassNames) /\ <<"mosaic">> \in Seq(PassNames)
        /\ <<"sobel">> \in Seq(PassNames) /\ <<"thermal">> \in Seq(PassNames)
    BY DEF PassNames
  <2>3. <<"blurH", "blurV">> \in Seq(PassNames)
    BY DEF PassNames
  <2> QED
    BY <2>1, <2>2, <2>3
<1>2. \A h : /\ Through(h, <<>>, h)
             /\ Through(h, <<"mosaic">>, Append(h, "mosaic"))
             /\ Through(h, <<"blurH", "blurV">>, Append(Append(h, "blurH"), "blurV"))
             /\ Through(h, <<"sobel">>, Append(h, "sobel"))
             /\ Through(h, <<"thermal">>, Append(h, "thermal"))
             /\ Through(h, <<"none">>, h)
  <2>1. \A h, x : x # "none" => Apply(h, x) = Append(h, x)
    BY DEF Apply
  <2>2. \A h : Apply(h, "none") = h
    BY DEF Apply
  <2>3. \A h, x : x # "none" => Through(h, <<x>>, Append(h, x))
    BY <2>1, ThroughFew
  <2>4. \A h : Through(h, <<"blurH", "blurV">>, Append(Append(h, "blurH"), "blurV"))
    <3>1. TAKE h
    <3>2. Apply(Apply(h, "blurH"), "blurV") = Append(Append(h, "blurH"), "blurV")
      BY DEF Apply
    <3> QED
      BY <3>2, ThroughFew
  <2>5. \A h : Through(h, <<"none">>, h) /\ Through(h, <<>>, h)
    BY <2>2, ThroughFew
  <2> QED
    BY <2>3, <2>4, <2>5
<1>3. Through(p.pic, A, a) /\ Through(a, B, c) /\ Through(c, C, d) /\ Through(d, D, e)
  <2>1. Through(p.pic, A, a)
    BY <1>2 DEF If
  <2>2. Through(a, B, c)
    <3> HIDE DEF a
    <3> QED
      BY <1>2 DEF If
  <2>3. Through(c, C, d)
    <3> HIDE DEF c
    <3> QED
      BY <1>2 DEF If
  <2>4. Through(d, D, e)
    <3> HIDE DEF d
    <3> QED
      BY <1>2 DEF If
  <2> QED
    BY <2>1, <2>2, <2>3, <2>4
<1>4. Wanted(b, mask) = e
  BY Zenon DEF Wanted
<1> DEFINE list == ((A \o B) \o C) \o D
<1>5. Passes(mask) = IF list = <<>> THEN <<"none">> ELSE list
  BY Zenon DEF Passes
<1> HIDE DEF A, B, C, D, a, c, d, e
<1>6. Through(p.pic, list, e)
  <2>1. PICK u : u = A \o B
    OBVIOUS
  <2>2. u \in Seq(PassNames) /\ Through(p.pic, u, c)
    BY <1>1, <1>3, <2>1, ThroughAfter
  <2>3. PICK v : v = u \o C
    OBVIOUS
  <2>4. v \in Seq(PassNames) /\ Through(p.pic, v, d)
    BY <1>1, <1>3, <2>2, <2>3, ThroughAfter
  <2>5. Through(p.pic, v \o D, e)
    BY <1>1, <1>3, <2>4, ThroughAfter
  <2> QED
    BY <2>1, <2>3, <2>5 DEF list
<1> HIDE DEF list
<1>7. Through(p.pic, Passes(mask), e)
  <2>1. CASE list = <<>>
    <3>1. PICK f : f[0] = p.pic /\ f[Len(<<>>)] = e
      BY <1>6, <2>1 DEF Through
    <3>2. e = p.pic
      BY <3>1
    <3> QED
      BY <1>2, <1>5, <2>1, <3>2
  <2>2. CASE list # <<>>
    BY <1>5, <1>6, <2>2
  <2> QED
    BY <2>1, <2>2
<1>8. Len(Passes(mask)) \in 1 .. 5
  BY PassesAre
<1> QED
  BY <1>4, <1>7, <1>8, ThroughIs

\* The commands that read or write, by what they do.
LEMMA ByOp ==
  ASSUME NEW p, Settings(p), NEW x \in Labels, Has(p, x), NEW c, c = Cmd(p, x)
  PROVE  /\ c.op = "fetch" =>
              /\ x.i \in 1 .. 5 /\ x.i <= NPass(p) /\ x.t = 1 /\ Drawn(p)
              /\ c.from = ReadBy(p, x.i) /\ c.img = DrawnBy(p, x.i) /\ c.draw = <<x.n, x.i>>
         /\ c.op = "store" =>
              \/ /\ x.i = 0 /\ c = BlackStore(p.w)
                 /\ (x.t = 1 /\ p.scene = "gles") \/ (x.t = 3 /\ p.b = 0 /\ OnVk(p))
              \/ /\ x.i \in 1 .. 5 /\ x.i <= NPass(p) /\ x.t = 2 /\ Drawn(p)
                 /\ c.img = DrawnBy(p, x.i) /\ c.draw = <<x.n, x.i>>
                 /\ c.fx = Passes(p.mask)[x.i]
         /\ c.op = "copy" =>
              /\ x.i = 0 /\ x.t = 4 /\ OnVk(p) /\ p.b # 0 /\ ~p.zc
              /\ c.img = Upload /\ c.from = StagingOf(x.n % NLanes)
         /\ c.op = "clear" => c.img = Depth
         /\ c.op = "end" => x.i = 6 /\ x.t = 2 /\ c.img = p.w /\ c.val = p.want
<1>0. /\ IsPlain(BlackStore(p.w), "store", p.w, "color") /\ p.zc \in BOOLEAN
      /\ p.scene \in {"vk", "gles", "shm"}
  BY BlackStores DEF Settings, AllScenes
<1>1. CASE x.i = 0
  <2>1. x.t \in {0, 1, 2, 3, 4, 5} /\ (x.t # 1 => OnVk(p))
    BY <1>1, Kinds
  <2>2. (x.t \in {4, 5} => p.b # 0 /\ ~p.zc) /\ (x.t = 1 => p.scene # "shm")
    BY <1>1, PassCount DEF Has
  <2>3. CASE x.t \in {0, 2, 5}
    <3>1. c.op \in {"wait", "barrier"}
      BY <1>1, <2>3, Preparation DEF IsBarrier
    <3> QED
      BY <3>1
  <2>4. CASE x.t = 1
    <3>1. c.op = "barrier" \/ (c = BlackStore(p.w) /\ p.scene = "gles")
      BY <1>0, <1>1, <2>2, <2>4, Preparation DEF IsBarrier, OnVk
    <3> QED
      BY <1>0, <1>1, <2>4, <3>1 DEF IsPlain
  <2>5. CASE x.t = 3
    <3>1. c.op = "barrier" \/ (c = BlackStore(p.w) /\ p.b = 0)
      BY <1>0, <1>1, <2>5, Preparation DEF IsBarrier
    <3> QED
      BY <1>0, <1>1, <2>1, <2>5, <3>1 DEF IsPlain
  <2>6. CASE x.t = 4
    <3>1. IsPlain(c, "copy", Upload, "transfer") /\ c.from = StagingOf(x.n % NLanes)
      BY <1>1, <2>6, Preparation
    <3> QED
      BY <1>1, <2>1, <2>2, <2>6, <3>1 DEF IsPlain
  <2> QED
    BY <2>1, <2>3, <2>4, <2>5, <2>6
<1>2. CASE x.i \in 1 .. 5
  <2>1. x.t \in {0, 1, 2, 3} /\ x.i <= NPass(p) /\ Drawn(p)
    BY <1>2, Kinds
  <2>2. CASE x.t \in {0, 3}
    <3>1. c.op \in {"barrier", "test"} \/ (c.op = "clear" /\ c.img = Depth)
      BY <1>2, <2>2, PassSteps DEF IsBarrier, IsPlain
    <3> QED
      BY <3>1
  <2>3. CASE x.t = 1
    BY <1>2, <2>1, <2>3, PassSteps DEF IsPlain
  <2>4. CASE x.t = 2
    BY <1>2, <2>1, <2>4, PassSteps DEF IsPlain
  <2> QED
    BY <2>1, <2>2, <2>3, <2>4
<1>3. CASE x.i = 6
  <2>1. x.t \in {0, 1, 2}
    BY <1>3, Kinds
  <2>2. CASE x.t \in {0, 1}
    <3>1. c.op = "barrier"
      BY <1>3, <2>2, EndSteps DEF IsBarrier
    <3> QED
      BY <3>1
  <2>3. CASE x.t = 2
    BY <1>3, <2>3, EndSteps
  <2> QED
    BY <2>1, <2>2, <2>3
<1> QED
  BY <1>1, <1>2, <1>3, Kinds

\* c leaves image m with something else in it.
Writes(c, m) ==
  /\ c.img = m
  /\ c.op \in {"store", "copy", "clear"} \/ (c.op = "barrier" /\ c.old = "none")

\* Which commands write to an image.
WriteKind(p, x, m) ==
  \/ m = Depth
  \/ /\ m = p.w
     /\ \/ x.i = 0 /\ x.t = 1
        \/ x.i = 0 /\ x.t = 3 /\ p.b = 0 /\ OnVk(p)
        \/ x.i = NPass(p) /\ x.i \in 1 .. 5 /\ x.t = 2 /\ p.b # 0
  \/ m = Upload /\ x.i = 0 /\ x.t \in {3, 4}
  \/ m = Tmp((x.i - 1) % 2) /\ x.i \in 1 .. 5 /\ x.t \in {0, 2}

\* No other command writes, and nothing writes to a camera's image or a staging buffer.
LEMMA WritersAre ==
  ASSUME NEW par, NEW N, NEW s, NEW z, Recorded(par, N, s, z), NEW x \in Program(par, N),
         NEW m, Writes(The(par, x), m)
  PROVE  /\ WriteKind(par[x.n], x, m) /\ s # "shm" /\ m[1] \notin {"cam", "staging"}
         /\ The(par, x).op \notin {"fetch", "wait", "end"} /\ Uses(The(par, x)) = m
<1> DEFINE c == The(par, x)
           p == par[x.n]
<1>1. Settings(p) /\ x \in Labels /\ Has(p, x) /\ c = Cmd(p, x) /\ p.scene = s
  BY OfProgram
<1>2. /\ c.img = m
      /\ c.op \in {"store", "copy", "clear"} \/ (c.op = "barrier" /\ c.old = "none")
  BY DEF Writes
<1> HIDE DEF c, p
<1>0. p.w \in Window /\ p.w[1] = "win"
  BY <1>1 DEF Settings, Window, Win
<1>3. ASSUME c.op = "barrier" PROVE WriteKind(p, x, m) /\ s # "shm"
  <2>1. BarrierKind(p, x, c) /\ c.old = "none" /\ c.img = m
    BY <1>1, <1>2, <1>3, BarriersAre
  <2>2. \/ m = Depth /\ x.i = 0
        \/ m = p.w /\ x.i = 0 /\ x.t = 1
        \/ m = Upload /\ x.i = 0 /\ x.t = 3
        \/ m = Tmp((x.i - 1) % 2) /\ x.i \in 1 .. 5 /\ x.t = 0
    BY <2>1 DEF BarrierKind, IsBarrier
  <2>3. s # "shm"
    <3>1. x.i = 0 \/ x.i \in 1 .. 5
      BY <2>2
    <3>2. CASE x.i = 0
      BY <1>1, <3>2, PassCount DEF Has, OnVk
    <3>3. CASE x.i \in 1 .. 5
      BY <1>1, <3>3, Kinds DEF Drawn
    <3> QED
      BY <3>1, <3>2, <3>3
  <2> QED
    BY <2>2, <2>3, <1>3 DEF WriteKind
<1>4. ASSUME c.op = "store" PROVE WriteKind(p, x, m) /\ s # "shm"
  <2>1. \/ /\ x.i = 0 /\ c = BlackStore(p.w)
           /\ (x.t = 1 /\ p.scene = "gles") \/ (x.t = 3 /\ p.b = 0 /\ OnVk(p))
        \/ /\ x.i \in 1 .. 5 /\ x.i <= NPass(p) /\ x.t = 2 /\ Drawn(p)
           /\ c.img = DrawnBy(p, x.i)
    BY <1>1, <1>4, ByOp
  <2>2. BlackStore(p.w).img = p.w
    BY BlackStores DEF IsPlain
  <2> QED
    BY <1>1, <1>2, <1>4, <2>1, <2>2 DEF WriteKind, DrawnBy, Drawn, OnVk
<1>5. ASSUME c.op = "copy" PROVE WriteKind(p, x, m) /\ s # "shm"
  BY <1>1, <1>2, <1>5, ByOp DEF WriteKind, OnVk
<1>6. ASSUME c.op = "clear" PROVE WriteKind(p, x, m) /\ s # "shm"
  <2>1. c.img = Depth
    BY <1>1, <1>6, ByOp
  <2>2. s # "shm"
    <3> SUFFICES ASSUME s = "shm" PROVE FALSE
      OBVIOUS
    <3>1. x.i = 6 /\ x.t = 2
      BY <1>1, Kinds, PassCount DEF Has, OnVk, Drawn
    <3> QED
      BY <1>1, <1>6, <3>1, EndSteps
  <2> QED
    BY <1>2, <1>6, <2>1, <2>2 DEF WriteKind
<1>7. WriteKind(p, x, m) /\ s # "shm" /\ c.op \notin {"fetch", "wait", "end"} /\ Uses(c) = m
  <2>1. WriteKind(p, x, m) /\ s # "shm"
    BY <1>2, <1>3, <1>4, <1>5, <1>6
  <2> QED
    BY <1>2, <2>1 DEF Uses
<1>8. m[1] \notin {"cam", "staging"}
  <2>1. Depth[1] = "depth" /\ Upload[1] = "upload" /\ \A d : Tmp(d)[1] = "tmp"
    BY DEF Depth, Upload, Tmp
  <2> QED
    BY <1>0, <1>7, <2>1 DEF WriteKind
<1> QED
  BY <1>7, <1>8 DEF c, p

\* The image that a command reads, or hands to the compositor, and what it has to find there.
Reads(c) == c.op \in {"fetch", "copy", "end"}
\* The image.
From(c) == IF c.op = "end" THEN c.img ELSE c.from
\* Its content.
Value(p, x) == IF x.i = 0 THEN p.pic ELSE IF x.i = 6 THEN p.want ELSE Hist(p, x.i - 1)

\* The command of the same frame that puts it there; none, if the camera or the CPU does.
Giver(p, x) ==
  CASE x.i = 0 -> {}
    [] x.i = 1 -> IF OnVk(p) /\ ~p.zc THEN {At(x.n, 0, 4)} ELSE {}
    [] x.i \in 2 .. 5 -> {At(x.n, x.i - 1, 2)}
    [] x.i = 6 -> IF p.scene = "shm" THEN {}
                  ELSE IF p.b # 0 THEN {At(x.n, NPass(p), 2)}
                  ELSE {At(x.n, 0, IF OnVk(p) THEN 3 ELSE 1)}

\* What a copy or a store makes of its image.
Made(p, e) == IF e.i = 0 THEN IF e.t = 4 THEN p.pic ELSE Black ELSE Hist(p, e.i)

\* What was asked for is what the passes make.
Promised(p) ==
  p.scene # "shm" => p.want = IF p.b = 0 THEN Black ELSE Hist(p, NPass(p))

\* The giver is a command of the frame, before the reader, and gives what it has to find.
LEMMA Gave ==
  ASSUME NEW par, NEW N, NEW s, NEW z, Recorded(par, N, s, z), NEW x \in Program(par, N),
         Reads(The(par, x)), NEW e \in Giver(par[x.n], x)
  PROVE  /\ e \in Program(par, N) /\ e.n = x.n /\ Less(e, x)
         /\ The(par, e).op \in {"copy", "store"} /\ The(par, e).img = From(The(par, x))
         /\ Promised(par[x.n]) => Made(par[x.n], e) = Value(par[x.n], x)
<1> DEFINE c == The(par, x)
           p == par[x.n]
<1>1. /\ Settings(p) /\ x \in Labels /\ Has(p, x) /\ c = Cmd(p, x) /\ p.scene = s
      /\ x.n \in 1 .. N /\ x.n \in Nat
  BY OfProgram
<1>2. c.op \in {"fetch", "copy", "end"} /\ e \in Giver(p, x)
  BY DEF Reads
<1> HIDE DEF c, p
<1>3. NPass(p) \in 1 .. 5 /\ p.scene \in {"vk", "gles", "shm"}
  BY <1>1, PassCount DEF Settings, AllScenes
<1>4. \A i, t : i \in 0 .. 6 /\ t \in 0 .. 5 => At(x.n, i, t) \in Labels
  BY <1>1 DEF At, Labels
<1>5. x.i \in {0, 6} \cup 1 .. 5
  BY <1>1, Kinds
<1> DEFINE Good(f) == /\ f \in Labels /\ f.n = x.n /\ Less(f, x) /\ Has(p, f)
                      /\ Cmd(p, f).op \in {"copy", "store"} /\ Cmd(p, f).img = From(c)
                      /\ Promised(p) => Made(p, f) = Value(p, x)
<1>6. Good(e)
  <2>1. CASE x.i = 0
    BY <1>2, <2>1 DEF Giver
  <2>2. CASE x.i = 1
    <3>1. OnVk(p) /\ ~p.zc /\ e = At(x.n, 0, 4)
      BY <1>2, <2>2 DEF Giver
    <3>2. e.n = x.n /\ e.i = 0 /\ e.t = 4 /\ e \in Labels
      BY <1>4, <3>1, Labelled
    <3>3. x.t = 1 /\ c.from = ReadBy(p, 1) /\ Drawn(p) /\ c.op = "fetch"
      BY <1>1, <1>2, <2>2, ByOp
    <3>4. Has(p, e)
      BY <3>1, <3>2, <3>3 DEF Has, Drawn
    <3>5. Cmd(p, e).op = "copy" /\ Cmd(p, e).img = Upload
      BY <1>1, <3>2, <3>4, Preparation DEF IsPlain
    <3>6. From(c) = Upload
      BY <3>1, <3>3 DEF From, ReadBy, Source, First
    <3>7. Made(p, e) = Value(p, x)
      BY <2>2, <3>2, HistStep DEF Made, Value
    <3>8. Less(e, x)
      BY <2>2, <3>2 DEF Less
    <3> QED
      BY <3>2, <3>4, <3>5, <3>6, <3>7, <3>8
  <2>3. CASE x.i \in 2 .. 5
    <3>1. e = At(x.n, x.i - 1, 2) /\ x.i - 1 \in 1 .. 5
      BY <1>2, <2>3 DEF Giver
    <3>2. e.n = x.n /\ e.i = x.i - 1 /\ e.t = 2 /\ e \in Labels
      BY <1>4, <3>1, Labelled
    <3>3. x.t = 1 /\ c.from = ReadBy(p, x.i) /\ Drawn(p) /\ c.op = "fetch" /\ x.i <= NPass(p)
      BY <1>1, <1>2, <2>3, ByOp
    <3>4. Has(p, e)
      BY <1>3, <2>3, <3>1, <3>2, <3>3 DEF Has
    <3>5. Cmd(p, e).op = "store" /\ Cmd(p, e).img = DrawnBy(p, e.i)
      BY <1>1, <3>1, <3>2, <3>4, PassSteps DEF IsPlain
    <3>6. From(c) = Tmp(x.i % 2) /\ DrawnBy(p, e.i) = Tmp((x.i - 2) % 2)
      <4>1. e.i # NPass(p) /\ e.i - 1 = x.i - 2
        BY <1>3, <2>3, <3>2, <3>3
      <4>2. From(c) = Tmp(x.i % 2)
        BY <2>3, <3>3 DEF From, ReadBy, Source
      <4> QED
        BY <4>1, <4>2 DEF DrawnBy
    <3>7. Made(p, e) = Value(p, x)
      BY <2>3, <3>2 DEF Made, Value
    <3>8. Less(e, x)
      BY <2>3, <3>2 DEF Less
    <3> QED
      BY <2>3, <3>2, <3>4, <3>5, <3>6, <3>7, <3>8, Parity
  <2>4. CASE x.i = 6
    <3>0. c.op = "end" /\ x.t = 2 /\ c.img = p.w /\ From(c) = p.w /\ Value(p, x) = p.want
      BY <1>1, <1>2, <2>4, ByOp DEF From, Value
    <3>1. p.scene # "shm"
      BY <1>2, <2>4 DEF Giver
    <3>2. CASE p.b # 0
      <4>1. e = At(x.n, NPass(p), 2)
        BY <1>2, <2>4, <3>1, <3>2 DEF Giver
      <4>2. e.n = x.n /\ e.i = NPass(p) /\ e.t = 2 /\ e \in Labels
        BY <1>3, <1>4, <4>1, Labelled
      <4>3. Has(p, e)
        BY <1>3, <3>1, <3>2, <4>2 DEF Has, Drawn
      <4>4. Cmd(p, e).op = "store" /\ Cmd(p, e).img = p.w
        BY <1>1, <1>3, <4>2, <4>3, PassSteps DEF IsPlain, DrawnBy
      <4>5. Promised(p) => Made(p, e) = p.want
        BY <1>3, <3>1, <3>2, <4>2 DEF Made, Promised
      <4>6. Less(e, x)
        BY <1>3, <2>4, <4>2 DEF Less
      <4> QED
        BY <3>0, <4>2, <4>3, <4>4, <4>5, <4>6
    <3>3. CASE p.b = 0
      <4>1. e = At(x.n, 0, IF OnVk(p) THEN 3 ELSE 1)
        BY <1>2, <2>4, <3>1, <3>3 DEF Giver
      <4>2. e.n = x.n /\ e.i = 0 /\ e.t = (IF OnVk(p) THEN 3 ELSE 1) /\ e \in Labels
        BY <1>4, <4>1, Labelled
      <4>3. Has(p, e)
        BY <3>1, <4>2 DEF Has
      <4>4. Cmd(p, e) = BlackStore(p.w)
        BY <1>1, <3>3, <4>2, <4>3, Preparation
      <4>5. Cmd(p, e).op = "store" /\ Cmd(p, e).img = p.w
        BY <4>4, BlackStores DEF IsPlain
      <4>6. Promised(p) => Made(p, e) = p.want
        BY <3>1, <3>3, <4>2 DEF Made, Promised
      <4>7. Less(e, x)
        BY <2>4, <4>2 DEF Less
      <4> QED
        BY <3>0, <4>2, <4>3, <4>5, <4>6, <4>7
    <3> QED
      BY <3>2, <3>3
  <2> QED
    BY <1>5, <2>1, <2>2, <2>3, <2>4
<1>7. e \in Program(par, N) /\ The(par, e) = Cmd(p, e)
  BY <1>1, <1>6 DEF Program, The, p
<1> QED
  BY <1>6, <1>7 DEF c, p

\* Between the two, nothing of their frame writes to the image.
LEMMA NotBetween ==
  ASSUME NEW par, NEW N, NEW s, NEW b, Recorded(par, N, s, b), NEW x \in Program(par, N),
         Reads(The(par, x)), NEW z \in Program(par, N), z.n = x.n, Less(z, x),
         Writes(The(par, z), From(The(par, x)))
  PROVE  \E e \in Giver(par[x.n], x) : z = e \/ Less(z, e)
<1> DEFINE c == The(par, x)
           p == par[x.n]
           m == From(c)
<1>1. Settings(p) /\ x \in Labels /\ Has(p, x) /\ c = Cmd(p, x) /\ p.scene = s
  BY OfProgram
<1>2. Settings(p) /\ z \in Labels /\ Has(p, z)
  BY OfProgram
<1>3. WriteKind(p, z, m) /\ s # "shm" /\ m[1] \notin {"cam", "staging"}
  BY WritersAre
<1>4. c.op \in {"fetch", "copy", "end"}
  BY DEF Reads
<1> HIDE DEF c, p
<1>5. p.w \in Window /\ NPass(p) \in 1 .. 5 /\ p.zc \in BOOLEAN
      /\ (p.scene = "vk" \/ p.scene = "gles")
  BY <1>1, <1>3, PassCount DEF Settings, AllScenes
<1>6. /\ z.n \in Nat /\ z.i \in Nat /\ z.t \in Nat /\ x.i \in Nat /\ x.t \in Nat
      /\ z = At(x.n, z.i, z.t)
  BY <1>1, <1>2 DEF Labels, At
<1>7. z.i < x.i \/ (z.i = x.i /\ z.t < x.t)
  BY <1>6 DEF Less
<1>8. CASE c.op = "copy"
  <2>1. m = StagingOf(x.n % NLanes)
    BY <1>1, <1>8, ByOp DEF From
  <2> QED
    BY <1>3, <2>1 DEF StagingOf, Staging
<1>9. CASE c.op = "end"
  <2>1. m = p.w /\ x.i = 6 /\ x.t = 2
    BY <1>1, <1>9, ByOp DEF From
  <2>2. \/ z.i = 0 /\ z.t = 1
        \/ z.i = 0 /\ z.t = 3 /\ p.b = 0 /\ OnVk(p)
        \/ z.i = NPass(p) /\ z.i \in 1 .. 5 /\ z.t = 2 /\ p.b # 0
    BY <1>3, <1>5, <2>1, Images DEF WriteKind
  <2>3. CASE p.b # 0
    <3>1. PICK e : e = At(x.n, NPass(p), 2) /\ e.n = x.n /\ e.i = NPass(p) /\ e.t = 2
      BY Labelled
    <3>2. e \in Giver(p, x)
      BY <1>1, <1>3, <2>1, <2>3, <3>1 DEF Giver
    <3>3. z = e \/ Less(z, e)
      BY <1>5, <1>6, <2>2, <2>3, <3>1 DEF Less
    <3> QED
      BY <3>2, <3>3 DEF p
  <2>4. CASE p.b = 0
    <3>1. PICK t : t = IF OnVk(p) THEN 3 ELSE 1
      OBVIOUS
    <3>2. PICK e : e = At(x.n, 0, t) /\ e.n = x.n /\ e.i = 0 /\ e.t = t
      BY Labelled
    <3>3. e \in Giver(p, x)
      BY <1>1, <1>3, <2>1, <2>4, <3>1, <3>2 DEF Giver
    <3>4. z = e \/ Less(z, e)
      BY <1>5, <1>6, <2>2, <2>4, <3>1, <3>2 DEF Less
    <3> QED
      BY <3>3, <3>4 DEF p
  <2> QED
    BY <2>3, <2>4
<1>10. CASE c.op = "fetch"
  <2>1. m = ReadBy(p, x.i) /\ x.i \in 1 .. 5 /\ x.t = 1 /\ x.i <= NPass(p)
    BY <1>1, <1>10, ByOp DEF From
  <2>2. CASE x.i = 1
    <3>1. m = First(p)
      BY <2>1, <2>2 DEF ReadBy, Source
    <3>2. m = Upload /\ OnVk(p) /\ ~p.zc
      BY <1>3, <3>1, Images DEF First
    <3>3. z.i = 0 /\ z.t \in {3, 4}
      BY <1>3, <1>5, <3>2, Images DEF WriteKind
    <3>4. PICK e : e = At(x.n, 0, 4) /\ e.n = x.n /\ e.i = 0 /\ e.t = 4
      BY Labelled
    <3>5. e \in Giver(p, x)
      BY <2>2, <3>2, <3>4 DEF Giver
    <3>6. z = e \/ Less(z, e)
      BY <1>6, <3>3, <3>4 DEF Less
    <3> QED
      BY <3>5, <3>6 DEF p
  <2>3. CASE x.i # 1
    <3>1. m = Tmp(x.i % 2) /\ x.i \in 2 .. 5
      BY <2>1, <2>3 DEF ReadBy, Source
    <3>2. z.i \in 1 .. 5 /\ z.t \in {0, 2} /\ Tmp((z.i - 1) % 2) = Tmp(x.i % 2)
      BY <1>3, <1>5, <3>1, Images DEF WriteKind
    <3>3. (z.i - 1) % 2 = x.i % 2
      BY <3>2, Images
    <3>4. z.i # x.i
      BY <3>2, <3>3, Parity
    <3>5. PICK e : e = At(x.n, x.i - 1, 2) /\ e.n = x.n /\ e.i = x.i - 1 /\ e.t = 2
      BY Labelled
    <3>6. e \in Giver(p, x)
      BY <3>1, <3>5 DEF Giver
    <3>7. z = e \/ Less(z, e)
      <4>1. z.i < x.i - 1 \/ z.i = x.i - 1
        BY <1>6, <1>7, <3>1, <3>4
      <4>2. CASE z.i < x.i - 1
        BY <3>5, <4>2 DEF Less
      <4>3. CASE z.i = x.i - 1
        BY <1>6, <3>2, <3>5, <4>3 DEF Less
      <4> QED
        BY <4>1, <4>2, <4>3
    <3> QED
      BY <3>6, <3>7 DEF p
  <2> QED
    BY <2>2, <2>3
<1> QED
  BY <1>4, <1>8, <1>9, <1>10

\* The commands on an image stay in their order, with OpenGL too.
LEMMA InTurnToo ==
  ASSUME NEW par, NEW N, NEW s, NEW b, Recorded(par, N, s, b), NEW L, Closed(L, par, N),
         WinInv(L, par, N),
         NEW x \in L, NEW y \in Program(par, N), Less(x, y),
         IsUser(The(par, x)), IsUser(The(par, y)), Uses(The(par, y)) = Uses(The(par, x)),
         The(par, x).op # "fetch" \/ The(par, y).op # "fetch"
  PROVE  y \in L
<1>1. CASE s = "vk"
  BY <1>1, InTurn
<1>2. CASE s # "vk"
  <2>1. x \in Program(par, N)
    BY DEF Closed
  <2>2. par[x.n].scene # "vk"
    BY <1>2, <2>1, OfProgram
  <2>3. Must(par, x, y)
    BY <2>2 DEF Must, Ordered, IsUser
  <2> QED
    BY <2>3 DEF Closed
<1> QED
  BY <1>1, <1>2

\* What is still to be read is there, once it has been given.
MemInv(L, par) ==
  \A x \in L :
    Reads(The(par, x)) /\ Giver(par[x.n], x) \cap L = {} =>
      mem[From(The(par, x))] = Value(par[x.n], x)

\* The image is one of those that there are.
LEMMA FromInMemory ==
  ASSUME NEW par, NEW N, NEW s, NEW z, Recorded(par, N, s, z), NEW x \in Program(par, N),
         Reads(The(par, x))
  PROVE  From(The(par, x)) \in Memory
<1> DEFINE c == The(par, x)
           p == par[x.n]
<1>1. Settings(p) /\ x \in Labels /\ Has(p, x) /\ c = Cmd(p, x) /\ x.n \in Nat
  BY OfProgram
<1>2. c.op \in {"fetch", "copy", "end"}
  BY DEF Reads
<1> HIDE DEF c, p
<1>3. CASE c.op = "end"
  <2>1. From(c) = p.w /\ p.w \in Window
    BY <1>1, <1>3, ByOp DEF From, Settings
  <2> QED
    BY <2>1 DEF Memory, c
<1>4. CASE c.op = "copy"
  <2>1. From(c) = Staging(x.n % NLanes)
    BY <1>1, <1>4, ByOp DEF From, StagingOf
  <2>2. x.n % NLanes \in 0 .. NLanes - 1
    BY <1>1, ChainAssumption, ModRange
  <2> QED
    BY <2>1, <2>2 DEF Memory, c
<1>5. CASE c.op = "fetch"
  <2>1. From(c) = ReadBy(p, x.i) /\ x.i \in 1 .. 5 /\ p.b # 0
    BY <1>1, <1>5, ByOp DEF From, Drawn
  <2>2. p.b \in Bufs
    BY <1>1, <2>1, ChainAssumption DEF Settings, Bufs
  <2>3. ReadBy(p, x.i) \in {Upload, Cam(p.b), Tmp(0), Tmp(1)}
    <3>1. CASE x.i = 1
      BY <3>1 DEF ReadBy, Source, First
    <3>2. CASE x.i # 1
      <4>1. ReadBy(p, x.i) = Tmp(x.i % 2)
        BY <3>2 DEF ReadBy, Source
      <4>2. x.i % 2 \in {0, 1}
        BY <2>1, Parity
      <4> QED
        BY <4>1, <4>2
    <3> QED
      BY <3>1, <3>2
  <2> QED
    BY <2>1, <2>2, <2>3 DEF Memory, c
<1> QED
  BY <1>2, <1>3, <1>4, <1>5

\* What has been given is not written over before it is read.
LEMMA NotOver ==
  ASSUME NEW par, NEW N, NEW s, NEW b, Recorded(par, N, s, b), NEW L, NEW z \in L,
         Closed(L, par, N), Closed(L \ {z}, par, N), WinInv(L, par, N),
         NEW x \in L \ {z}, Reads(The(par, x)), Giver(par[x.n], x) \cap L = {}
  PROVE  ~Writes(The(par, z), From(The(par, x)))
<1> SUFFICES ASSUME Writes(The(par, z), From(The(par, x))) PROVE FALSE
  OBVIOUS
<1> DEFINE M == L \ {z}
           m == From(The(par, x))
<1>1. x \in Program(par, N) /\ z \in Program(par, N) /\ x # z /\ x \in M
  BY DEF Closed
<1>2. /\ WriteKind(par[z.n], z, m) /\ s # "shm" /\ m[1] \notin {"cam", "staging"}
      /\ The(par, z).op \notin {"fetch", "wait", "end"} /\ Uses(The(par, z)) = m
  BY <1>1, WritersAre
<1>3. /\ x \in Labels /\ z \in Labels /\ x.n \in 1 .. N /\ z.n \in 1 .. N /\ x.n \in Nat /\ z.n \in Nat
      /\ Settings(par[x.n]) /\ Has(par[x.n], x) /\ Settings(par[z.n])
      /\ The(par, x) = Cmd(par[x.n], x)
  BY <1>1, OfProgram
<1>4. Less(x, z) \/ Less(z, x)
  BY <1>1, <1>3, OneOrder
<1>5. WinInv(M, par, N)
  BY WinInvLess
<1>6. IsUser(The(par, z))
  BY <1>2 DEF IsUser
<1>7. z.n = x.n /\ Less(z, x) => \E e \in Giver(par[x.n], x) : z = e \/ Less(z, e)
  BY <1>1, NotBetween
<1>8. ASSUME NEW e \in Giver(par[x.n], x), z = e \/ Less(z, e) PROVE FALSE
  <2>1. /\ e \in Program(par, N) /\ The(par, e).op \in {"copy", "store"} /\ The(par, e).img = m
    BY <1>1, Gave
  <2>2. Uses(The(par, e)) = m /\ IsUser(The(par, e))
    BY <1>2, <2>1 DEF Uses, IsUser
  <2>3. z # e
    BY <1>8
  <2>4. e \in L
    BY <1>2, <1>6, <1>8, <2>1, <2>2, <2>3, InTurnToo
  <2> QED
    BY <1>8, <2>4
<1>9. CASE The(par, x).op = "end"
  <2>1. x.i = 6 /\ x.t = 2 /\ m = par[x.n].w
    BY <1>3, <1>9, ByOp DEF From
  <2>2. m = par[z.n].w
    BY <1>2, <1>3, <2>1, Images DEF WriteKind, Settings
  <2>3. x = At(x.n, 6, 2)
    BY <1>3, <2>1 DEF Labels, At
  <2>4. ~(x.n < z.n)
    BY <1>3, <2>1, <2>2, <2>3 DEF WinInv
  <2>5. At(z.n, 6, 2) \in L
    BY <1>3, EndStays
  <2>6. ~(z.n < x.n)
    BY <1>3, <2>1, <2>2, <2>5 DEF WinInv
  <2>7. z.n = x.n
    BY <1>3, <2>4, <2>6
  <2>8. Less(z, x)
    <3>1. z.i \in 0 .. 6 /\ z.t \in Nat /\ (z.i = 6 => z.t \in {0, 1, 2})
      <4>1. Has(par[z.n], z)
        BY <1>1, OfProgram
      <4> QED
        BY <1>3, <4>1, Kinds DEF Labels
    <3>2. ~Less(x, z)
      BY <1>3, <2>1, <2>7, <3>1 DEF Less
    <3> QED
      BY <1>4, <3>2
  <2> QED
    BY <1>7, <1>8, <2>7, <2>8
<1>10. CASE The(par, x).op # "end"
  <2>1. The(par, x).op \in {"fetch", "copy"} /\ m = The(par, x).from
    BY <1>10 DEF Reads, From
  <2>2. The(par, x).op = "fetch"
    <3> SUFFICES ASSUME The(par, x).op = "copy" PROVE FALSE
      BY <2>1
    <3>1. m = StagingOf(x.n % NLanes)
      BY <1>3, <2>1, ByOp
    <3> QED
      BY <1>2, <3>1 DEF StagingOf, Staging
  <2>3. Uses(The(par, x)) = m /\ IsUser(The(par, x))
    BY <1>2, <2>1, <2>2 DEF Uses, IsUser
  <2>4. ~Less(x, z)
    <3> SUFFICES ASSUME Less(x, z) PROVE FALSE
      OBVIOUS
    <3>1. z \in M
      BY <1>1, <1>2, <1>5, <1>6, <2>3, InTurnToo
    <3> QED
      BY <3>1
  <2>5. Less(z, x)
    BY <1>4, <2>4
  <2>6. CASE z.n = x.n
    BY <1>7, <1>8, <2>5, <2>6
  <2>7. CASE z.n # x.n
    <3>1. z.n < x.n
      BY <2>5, <2>7 DEF Less
    <3>2. Giver(par[x.n], x) # {}
      <4> SUFFICES ASSUME Giver(par[x.n], x) = {} PROVE FALSE
        OBVIOUS
      <4>1. x.i = 1 /\ ~(OnVk(par[x.n]) /\ ~par[x.n].zc)
        <5>1. x.i \in 1 .. 5
          BY <1>3, <2>2, ByOp
        <5> QED
          BY <5>1 DEF Giver
      <4>2. m = Cam(par[x.n].b)
        BY <1>3, <2>1, <2>2, <4>1, ByOp DEF ReadBy, Source, First
      <4> QED
        BY <1>2, <4>2 DEF Cam
    <3>3. PICK e \in Giver(par[x.n], x) : TRUE
      BY <3>2
    <3>4. e.n = x.n
      BY <1>1, Gave
    <3>5. Less(z, e)
      BY <3>1, <3>4 DEF Less
    <3> QED
      BY <1>8, <3>5
  <2> QED
    BY <2>6, <2>7
<1> QED
  BY <1>9, <1>10

\* Taking a command away keeps what is still to be read.
LEMMA MemStep ==
  ASSUME NEW CONSTANT par, NEW CONSTANT N, NEW CONSTANT s, NEW CONSTANT b,
         Recorded(par, N, s, b), NEW CONSTANT L, NEW CONSTANT z \in L,
         Closed(L, par, N), Closed(L \ {z}, par, N), WinInv(L, par, N), MemInv(L, par),
         \A n \in 1 .. N : Promised(par[n]),
         \A m \in Memory : ~Writes(The(par, z), m) => mem'[m] = mem[m],
         The(par, z).op \in {"copy", "store"} => mem'[The(par, z).img] = Made(par[z.n], z)
  PROVE  MemInv(L \ {z}, par)'
<1> SUFFICES ASSUME NEW CONSTANT x \in L \ {z}, Reads(The(par, x)),
                    Giver(par[x.n], x) \cap (L \ {z}) = {}
             PROVE  mem'[From(The(par, x))] = Value(par[x.n], x)
  BY DEF MemInv
<1>1. x \in Program(par, N) /\ x.n \in 1 .. N /\ x \in L
  BY OfProgram DEF Closed
<1>2. CASE z \in Giver(par[x.n], x)
  <2>1. /\ The(par, z).op \in {"copy", "store"} /\ The(par, z).img = From(The(par, x))
        /\ Made(par[x.n], z) = Value(par[x.n], x) /\ z.n = x.n
    BY <1>1, <1>2, Gave
  <2> QED
    BY <2>1
<1>3. CASE z \notin Giver(par[x.n], x)
  <2>1. Giver(par[x.n], x) \cap L = {}
    BY <1>3
  <2>2. mem[From(The(par, x))] = Value(par[x.n], x)
    BY <1>1, <2>1 DEF MemInv
  <2>3. ~Writes(The(par, z), From(The(par, x)))
    BY <2>1, NotOver
  <2>4. From(The(par, x)) \in Memory
    BY <1>1, FromInMemory
  <2> QED
    BY <2>2, <2>3, <2>4
<1> QED
  BY <1>2, <1>3

\* What could be executed now has been given what it reads.
LEMMA GivenNow ==
  ASSUME NEW par, NEW N, NEW s, NEW b, Recorded(par, N, s, b), NEW L, NEW z \in L,
         Closed(L, par, N), Closed(L \ {z}, par, N), WinInv(L, par, N), Reads(The(par, z))
  PROVE  Giver(par[z.n], z) \cap L = {}
<1> SUFFICES ASSUME NEW e \in Giver(par[z.n], z), e \in L PROVE FALSE
  OBVIOUS
<1>1. z \in Program(par, N)
  BY DEF Closed
<1>2. /\ e \in Program(par, N) /\ Less(e, z)
      /\ The(par, e).op \in {"copy", "store"} /\ The(par, e).img = From(The(par, z))
  BY <1>1, Gave
<1>3. e \in L \ {z}
  <2>1. e \in Labels /\ z \in Labels
    BY <1>1, <1>2 DEF Program
  <2> QED
    BY <1>2, <2>1, OneOrder
<1>4. CASE The(par, z).op = "end"
  <2>1. Must(par, e, z)
    BY <1>2, <1>4 DEF Must, Ordered
  <2> QED
    BY <1>1, <1>3, <2>1 DEF Closed
<1>5. CASE The(par, z).op = "copy"
  <2>1. z.i = 0
    BY <1>1, <1>5, OfProgram, ByOp
  <2> QED
    BY <2>1 DEF Giver
<1>6. CASE The(par, z).op = "fetch"
  <2>1. Writes(The(par, e), From(The(par, z)))
    BY <1>2 DEF Writes
  <2>2. From(The(par, z))[1] # "cam" /\ Uses(The(par, e)) = From(The(par, z))
    BY <1>2, <2>1, WritersAre
  <2>3. Uses(The(par, z)) = From(The(par, z))
    BY <1>6 DEF Uses, From
  <2>4. IsUser(The(par, e)) /\ IsUser(The(par, z)) /\ The(par, e).op # "fetch"
    BY <1>2, <1>6, <2>2, <2>3 DEF IsUser
  <2>5. WinInv(L \ {z}, par, N)
    BY WinInvLess
  <2>6. z \in L \ {z}
    BY <1>1, <1>2, <1>3, <2>2, <2>3, <2>4, <2>5, InTurnToo
  <2> QED
    BY <2>6
<1> QED
  BY <1>4, <1>5, <1>6 DEF Reads

\* A store that has its fetch behind it is given what it has to apply its effect to, and an
\* end what it has to show.
ValInv(lab, par) ==
  \A k \in 1 .. Len(queue) :
    /\ queue[k].op = "end" => queue[k].val = par[lab[k].n].want
    /\ queue[k].op = "store" /\ (lab[k].i = 0 \/ At(lab[k].n, lab[k].i, 1) \notin Left(lab)) =>
         Apply(queue[k].val, queue[k].fx) = Made(par[lab[k].n], lab[k])

\* What the images and the commands hold.
DataInv(lab, par) ==
  /\ DOMAIN mem = Memory
  /\ \A n \in 1 .. frames : Promised(par[n])
  /\ MemInv(Left(lab), par) /\ ValInv(lab, par)

\* What is known of place k of the queue.
LEMMA AtPlace ==
  ASSUME NEW CONSTANT lab, NEW CONSTANT par, QueueInv(lab, par), NEW CONSTANT k \in 1 .. Len(queue)
  PROVE  /\ lab[k] \in Left(lab) /\ lab[k] \in Program(par, frames) /\ lab[k] \in Labels
         /\ lab[k].n \in 1 .. frames /\ lab[k].n \in Nat /\ lab[k].n # 0
         /\ Settings(par[lab[k].n]) /\ Has(par[lab[k].n], lab[k])
         /\ The(par, lab[k]) = Cmd(par[lab[k].n], lab[k])
         /\ Like(queue[k], The(par, lab[k]))
<1>1. lab[k] \in Left(lab)
  BY InQueue
<1>2. Recorded(par, frames, scene, zero_copy) /\ lab[k] \in Program(par, frames)
  BY <1>1, ClosedNow, InQueue
<1> QED
  BY <1>1, <1>2, OfProgram DEF QueueInv

\* Executing a fetch hands its stores what they need.
LEMMA ValInvExecutes ==
  ASSUME NEW CONSTANT lab, NEW CONSTANT par, QueueInv(lab, par), DataInv(lab, par),
         WinInv(Left(lab), par, frames),
         NEW CONSTANT i \in 1 .. Len(queue), \A j \in 1 .. i - 1 : ~Before(queue[j], queue[i]),
         NEW CONSTANT rest, Without(lab, par, rest, i),
         \A k \in 1 .. Len(queue) - 1 : queue'[k] = Fed(i, k)
  PROVE  ValInv(rest, par)'
<1> DEFINE L == Left(lab)
           z == lab[i]
<1>1. /\ Recorded(par, frames, scene, zero_copy) /\ Closed(L, par, frames)
      /\ Closed(L \ {z}, par, frames)
  BY ClosedNow, ClosedNext
<1>2. Left(rest) = L \ {z} /\ Len(queue') = Len(queue) - 1
  BY DEF Without
<1> SUFFICES ASSUME NEW CONSTANT k \in 1 .. Len(queue) - 1
             PROVE  /\ queue'[k].op = "end" => queue'[k].val = par[rest[k].n].want
                    /\ queue'[k].op = "store"
                         /\ (rest[k].i = 0 \/ At(rest[k].n, rest[k].i, 1) \notin Left(rest)) =>
                         Apply(queue'[k].val, queue'[k].fx) = Made(par[rest[k].n], rest[k])
  BY <1>2 DEF ValInv
<1>w. PICK w \in 1 .. Len(queue) : w = Was(i, k) /\ rest[k] = lab[w] /\ queue'[k] = Fed(i, k)
  BY DEF Without
<1>3. PICK x : x = lab[w]
  OBVIOUS
<1>4. /\ x \in L /\ x \in Labels /\ x.n \in 1 .. frames /\ x.n \in Nat /\ x.n # 0
      /\ Settings(par[x.n]) /\ Has(par[x.n], x)
      /\ The(par, x) = Cmd(par[x.n], x) /\ Like(queue[w], The(par, x))
  BY <1>3, AtPlace
<1>5. /\ z \in L /\ z \in Labels /\ z.n \in 1 .. frames /\ z.n \in Nat
      /\ Settings(par[z.n]) /\ Has(par[z.n], z)
      /\ The(par, z) = Cmd(par[z.n], z) /\ Like(queue[i], The(par, z))
  BY AtPlace
<1>6. /\ queue[w].op = "end" => queue[w].val = par[x.n].want
      /\ queue[w].op = "store" /\ (x.i = 0 \/ At(x.n, x.i, 1) \notin L) =>
           Apply(queue[w].val, queue[w].fx) = Made(par[x.n], x)
  BY <1>3 DEF DataInv, ValInv
<1> HIDE DEF z
<1>7. CASE ~(queue[i].op = "fetch" /\ queue[w].op = "store" /\ queue[w].draw = queue[i].draw)
  <2>1. queue'[k] = queue[w]
    BY <1>w, <1>7 DEF Fed
  <2>2. queue[w].op = "store" /\ x.i # 0 /\ At(x.n, x.i, 1) \notin L \ {z} => At(x.n, x.i, 1) \notin L
    <3> SUFFICES ASSUME queue[w].op = "store", x.i # 0, z = At(x.n, x.i, 1) PROVE FALSE
      OBVIOUS
    <3>1. The(par, x).op = "store" /\ The(par, x).draw = queue[w].draw
      BY <1>4 DEF Like
    <3>2. x.i \in 1 .. 5 /\ queue[w].draw = <<x.n, x.i>>
      BY <1>4, <3>1, ByOp
    <3>3. z.n = x.n /\ z.i = x.i /\ z.t = 1
      BY Labelled
    <3>4. The(par, z).op = "fetch" /\ The(par, z).draw = <<x.n, x.i>>
      BY <1>5, <3>2, <3>3, PassSteps DEF IsPlain
    <3>5. queue[i].op = "fetch" /\ queue[i].draw = <<x.n, x.i>>
      BY <1>5, <3>4 DEF Like
    <3> QED
      BY <1>7, <3>2, <3>5
  <2> QED
    BY <1>w, <1>2, <1>3, <1>6, <2>1, <2>2
<1>8. CASE queue[i].op = "fetch" /\ queue[w].op = "store" /\ queue[w].draw = queue[i].draw
  <2>1. /\ The(par, z).op = "fetch" /\ The(par, x).op = "store"
        /\ The(par, x).draw = The(par, z).draw /\ IsCommand(queue[w])
        /\ queue[i].from = The(par, z).from /\ queue[i].img = The(par, z).img
        /\ queue[w].fx = The(par, x).fx
    BY <1>4, <1>5, <1>8 DEF Like
  <2>2. /\ z.i \in 1 .. 5 /\ z.i <= NPass(par[z.n]) /\ The(par, z).draw = <<z.n, z.i>>
        /\ The(par, z).from = ReadBy(par[z.n], z.i) /\ The(par, z).img = DrawnBy(par[z.n], z.i)
    BY <1>5, <2>1, ByOp
  <2>3. x.i # 0
    <3> SUFFICES ASSUME x.i = 0 PROVE FALSE
      OBVIOUS
    <3>1. The(par, x) = BlackStore(par[x.n].w)
      BY <1>4, <2>1, ByOp
    <3>2. The(par, x).draw = NoDraw
      BY <3>1, BlackStores
    <3>3. z.n # 0 /\ z.i # 0
      BY <1>5, <2>2
    <3> QED
      BY <2>1, <2>2, <3>2, <3>3 DEF NoDraw
  <2>4. x.i = z.i /\ x.n = z.n /\ queue[w].fx = Passes(par[x.n].mask)[x.i]
    BY <1>4, <2>1, <2>2, <2>3, ByOp
  <2>5. queue[i].from # queue[i].img
    <3>1. par[z.n].w \in Window
      BY <1>5 DEF Settings
    <3>2. CASE z.i = NPass(par[z.n])
      <4>1. \A j : ReadBy(par[z.n], j) \notin Window
        BY Images DEF ReadBy, Source, First
      <4> QED
        BY <2>1, <2>2, <3>1, <3>2, <4>1 DEF DrawnBy
    <3>3. CASE z.i # NPass(par[z.n])
      <4>1. The(par, z).img = Tmp((z.i - 1) % 2)
        BY <2>2, <3>3 DEF DrawnBy
      <4>2. ReadBy(par[z.n], z.i) = First(par[z.n]) \/ ReadBy(par[z.n], z.i) = Tmp(z.i % 2)
        BY DEF ReadBy, Source
      <4>3. First(par[z.n]) # Tmp((z.i - 1) % 2)
        BY Images DEF First
      <4>4. Tmp(z.i % 2) # Tmp((z.i - 1) % 2)
        BY <2>2, Parity, Images
      <4> QED
        BY <2>1, <2>2, <4>1, <4>2, <4>3, <4>4
    <3> QED
      BY <3>2, <3>3
  <2>6. mem[queue[i].from] = Hist(par[z.n], z.i - 1)
    <3>1. Reads(The(par, z)) /\ From(The(par, z)) = queue[i].from
      BY <2>1 DEF Reads, From
    <3>2. Giver(par[z.n], z) \cap L = {}
      BY <1>1, <1>5, <3>1, GivenNow
    <3>3. mem[queue[i].from] = Value(par[z.n], z)
      BY <1>5, <3>1, <3>2 DEF DataInv, MemInv
    <3> QED
      BY <2>2, <3>3 DEF Value
  <2>7. queue'[k] = [queue[w] EXCEPT !.val = Hist(par[z.n], z.i - 1)]
    BY <1>w, <1>8, <2>5, <2>6 DEF Fed
  <2>8. PICK c : c = queue[w]
    OBVIOUS
  <2>9. PICK d : d = [c EXCEPT !.val = Hist(par[z.n], z.i - 1)]
    OBVIOUS
  <2>10. d.op = c.op /\ d.fx = c.fx /\ d.val = Hist(par[z.n], z.i - 1)
    BY <2>1, <2>8, <2>9 DEF IsCommand
  <2>11. Made(par[x.n], x) = Hist(par[x.n], x.i)
    BY <2>3 DEF Made
  <2>12. Hist(par[x.n], x.i) = Apply(Hist(par[x.n], x.i - 1), Passes(par[x.n].mask)[x.i])
    BY <2>2, <2>4, HistStep
  <2>13. queue'[k] = d /\ d.op = "store" /\ rest[k] = x
    BY <1>w, <1>3, <1>8, <2>7, <2>8, <2>9, <2>10
  <2> QED
    BY <2>4, <2>8, <2>10, <2>11, <2>12, <2>13
<1> QED
  BY <1>7, <1>8

\* Executing a command keeps what the images hold.
LEMMA DataInvExecutes ==
  ASSUME NEW CONSTANT lab, NEW CONSTANT par, QueueInv(lab, par), DataInv(lab, par),
         WinInv(Left(lab), par, frames),
         NEW CONSTANT i \in DOMAIN queue, Execute(i),
         NEW CONSTANT rest, Without(lab, par, rest, i)
  PROVE  DataInv(rest, par)'
<1> DEFINE L == Left(lab)
<1>1. /\ i \in 1 .. Len(queue) /\ \A j \in 1 .. i - 1 : ~Before(queue[j], queue[i])
      /\ \A k \in 1 .. Len(queue) - 1 : queue'[k] = Fed(i, k)
  BY Executes
<1>2. PICK z : z = lab[i]
  OBVIOUS
<1>3. PICK p, c, d : p = par[z.n] /\ c = The(par, z) /\ d = queue[i]
  OBVIOUS
<1>4. /\ z \in L /\ z \in Labels /\ z.n \in 1 .. frames /\ z.n \in Nat /\ z.n # 0 /\ Settings(p) /\ Has(p, z)
      /\ c = Cmd(p, z) /\ Like(d, c) /\ z \in Program(par, frames)
  BY <1>1, <1>2, <1>3, AtPlace
<1>5. mem' = Contents(d) /\ d.op # "end" /\ frames' = frames
  BY <1>3 DEF Execute
<1>6. /\ Recorded(par, frames, scene, zero_copy) /\ Closed(L, par, frames)
      /\ Closed(L \ {z}, par, frames)
  BY <1>1, <1>2, ClosedNow, ClosedNext
<1>7. Left(rest) = L \ {z}
  BY <1>2 DEF Without
<1>8. d.op = c.op /\ d.img = c.img /\ d.old = c.old /\ d.from = c.from
  BY <1>4 DEF Like
<1>9. \/ mem' = mem
      \/ Writes(c, c.img) /\ \E v : mem' = [mem EXCEPT ![c.img] = v]
  BY <1>5, <1>8 DEF Contents, Writes
<1>10. DOMAIN mem' = Memory /\ DOMAIN mem = Memory
  BY <1>9 DEF DataInv
<1>11. \A m \in Memory : ~Writes(c, m) => mem'[m] = mem[m]
  <2> SUFFICES ASSUME NEW CONSTANT m \in Memory, ~Writes(c, m) PROVE mem'[m] = mem[m]
    OBVIOUS
  <2>1. CASE mem' = mem
    BY <2>1
  <2>2. CASE Writes(c, c.img) /\ \E v : mem' = [mem EXCEPT ![c.img] = v]
    <3>1. m # c.img
      BY <2>2
    <3> QED
      BY <1>10, <2>2, <3>1
  <2> QED
    BY <1>9, <2>1, <2>2
<1>12. ASSUME c.op = "copy" PROVE mem'[c.img] = Made(p, z)
  <2>1. z.i = 0 /\ z.t = 4 /\ c.img = Upload
    BY <1>4, <1>12, ByOp
  <2>2. mem' = [mem EXCEPT ![Upload] = mem[c.from]] /\ Upload \in DOMAIN mem
    BY <1>5, <1>8, <1>10, <1>12, <2>1 DEF Contents, Memory
  <2>3. Reads(The(par, z)) /\ From(The(par, z)) = c.from
    BY <1>3, <1>12 DEF Reads, From
  <2>4. Giver(par[z.n], z) \cap L = {}
    BY <2>1 DEF Giver
  <2>5. mem[c.from] = Value(par[z.n], z)
    BY <1>4, <2>3, <2>4 DEF DataInv, MemInv
  <2>6. mem[c.from] = p.pic /\ Made(p, z) = p.pic
    BY <1>3, <2>1, <2>5 DEF Value, Made
  <2> QED
    BY <2>1, <2>2, <2>6
<1>13. ASSUME c.op = "store" PROVE mem'[c.img] = Made(p, z)
  <2>1. \/ z.i = 0 /\ c = BlackStore(p.w)
        \/ z.i \in 1 .. 5 /\ z.i <= NPass(p) /\ z.t = 2 /\ Drawn(p) /\ c.img = DrawnBy(p, z.i)
           /\ c.draw = <<z.n, z.i>>
    BY <1>4, <1>13, ByOp
  <2>2. c.img \in Memory
    <3>1. p.w \in Memory
      BY <1>4 DEF Settings, Memory
    <3>2. \A j \in 1 .. 5 : Tmp((j - 1) % 2) \in Memory
      BY Parity DEF Memory
    <3>3. BlackStore(p.w).img = p.w
      BY BlackStores DEF IsPlain
    <3> QED
      BY <2>1, <3>1, <3>2, <3>3 DEF DrawnBy
  <2>3. mem' = [mem EXCEPT ![c.img] = Apply(d.val, d.fx)]
    BY <1>5, <1>8, <1>13 DEF Contents
  <2>4. z.i = 0 \/ At(z.n, z.i, 1) \notin L
    <3> SUFFICES ASSUME z.i # 0, At(z.n, z.i, 1) \in L PROVE FALSE
      OBVIOUS
    <3>1. z.i \in 1 .. 5 /\ z.i <= NPass(p) /\ z.t = 2 /\ c.draw = <<z.n, z.i>>
      BY <2>1
    <3>2. PICK e : e = At(z.n, z.i, 1) /\ e.n = z.n /\ e.i = z.i /\ e.t = 1
      BY Labelled
    <3>3. /\ e \in L /\ e \in Labels /\ Has(p, e) /\ The(par, e) = Cmd(p, e)
      BY <1>3, <3>2, IsLeft DEF The
    <3>4. The(par, e).draw = <<z.n, z.i>>
      BY <1>4, <3>1, <3>2, <3>3, PassSteps
    <3>5. <<z.n, z.i>> # NoDraw
      BY <1>4 DEF NoDraw
    <3>6. Less(e, z)
      BY <3>1, <3>2 DEF Less
    <3>7. Must(par, e, z)
      BY <1>3, <3>1, <3>4, <3>5, <3>6 DEF Must, Ordered
    <3>8. ~Must(par, e, lab[i])
      BY <1>1, <3>3, Foremost
    <3> QED
      BY <1>2, <3>7, <3>8
  <2>5. Apply(queue[i].val, queue[i].fx) = Made(par[lab[i].n], lab[i])
    BY <1>1, <1>2, <1>3, <1>8, <1>13, <2>4 DEF DataInv, ValInv
  <2> QED
    BY <1>2, <1>3, <1>10, <2>2, <2>3, <2>5
<1>14. MemInv(Left(rest), par)'
  <2>1. \A n \in 1 .. frames : Promised(par[n])
    BY DEF DataInv
  <2>2. MemInv(L, par)
    BY DEF DataInv
  <2>3. \A m \in Memory : ~Writes(The(par, z), m) => mem'[m] = mem[m]
    BY <1>3, <1>11
  <2>4. The(par, z).op \in {"copy", "store"} => mem'[The(par, z).img] = Made(par[z.n], z)
    BY <1>3, <1>12, <1>13
  <2>5. PICK N, s, b : N = frames /\ s = scene /\ b = zero_copy
    OBVIOUS
  <2>6. MemInv(L \ {z}, par)'
    BY <1>4, <1>6, <2>1, <2>2, <2>3, <2>4, <2>5, MemStep
  <2> QED
    BY <1>7, <2>6
<1>15. ValInv(rest, par)'
  BY <1>1, ValInvExecutes
<1> QED
  BY <1>5, <1>10, <1>14, <1>15 DEF DataInv

\* Finishing a frame keeps what the images hold.
LEMMA DataInvFinishes ==
  ASSUME NEW CONSTANT lab, NEW CONSTANT par, QueueInv(lab, par), DataInv(lab, par),
         WinInv(Left(lab), par, frames), Finish,
         NEW CONSTANT rest, Without(lab, par, rest, 1)
  PROVE  DataInv(rest, par)'
<1> DEFINE L == Left(lab)
<1>1. /\ 1 \in 1 .. Len(queue) /\ \A j \in 1 .. 1 - 1 : ~Before(queue[j], queue[1])
      /\ \A k \in 1 .. Len(queue) - 1 : queue'[k] = queue[Was(1, k)]
  BY Finishes
<1>2. PICK z : z = lab[1]
  OBVIOUS
<1>3. /\ z \in L /\ z \in Labels /\ Settings(par[z.n]) /\ Has(par[z.n], z)
      /\ The(par, z) = Cmd(par[z.n], z) /\ Like(queue[1], The(par, z))
  BY <1>1, <1>2, AtPlace
<1>4. UNCHANGED <<mem, frames>> /\ The(par, z).op = "end"
  BY <1>3 DEF Finish, Like
<1>5. z.i = 6
  BY <1>3, <1>4, ByOp
<1>6. Left(rest) = L \ {z} /\ Len(queue') = Len(queue) - 1
  BY <1>2 DEF Without
<1>7. MemInv(Left(rest), par)'
  <2>1. /\ Recorded(par, frames, scene, zero_copy) /\ Closed(L, par, frames)
        /\ Closed(L \ {z}, par, frames)
    BY <1>1, <1>2, ClosedNow, ClosedNext
  <2>2. \A n \in 1 .. frames : Promised(par[n])
    BY DEF DataInv
  <2>3. \A m \in Memory : ~Writes(The(par, z), m) => mem'[m] = mem[m]
    BY <1>4
  <2>4. The(par, z).op \notin {"copy", "store"}
    BY <1>4
  <2>5. MemInv(L, par)
    BY DEF DataInv
  <2>6. MemInv(L \ {z}, par)'
    BY <1>3, <2>1, <2>2, <2>3, <2>4, <2>5, MemStep
  <2> QED
    BY <1>6, <2>6
<1>8. ValInv(rest, par)'
  <2> SUFFICES ASSUME NEW CONSTANT k \in 1 .. Len(queue) - 1
               PROVE  /\ queue'[k].op = "end" => queue'[k].val = par[rest[k].n].want
                      /\ queue'[k].op = "store"
                           /\ (rest[k].i = 0 \/ At(rest[k].n, rest[k].i, 1) \notin Left(rest)) =>
                           Apply(queue'[k].val, queue'[k].fx) = Made(par[rest[k].n], rest[k])
    BY <1>6 DEF ValInv
  <2>1. PICK w \in 1 .. Len(queue) : w = Was(1, k) /\ rest[k] = lab[w] /\ queue'[k] = queue[w]
    BY <1>1 DEF Without
  <2>2. PICK x : x = lab[w]
    OBVIOUS
  <2>3. /\ queue[w].op = "end" => queue[w].val = par[x.n].want
        /\ queue[w].op = "store" /\ (x.i = 0 \/ At(x.n, x.i, 1) \notin L) =>
             Apply(queue[w].val, queue[w].fx) = Made(par[x.n], x)
    BY <2>2 DEF DataInv, ValInv
  <2>4. queue[w].op = "store" => x.i # 6
    <3>1. x \in Labels /\ Settings(par[x.n]) /\ Has(par[x.n], x)
          /\ The(par, x) = Cmd(par[x.n], x) /\ Like(queue[w], The(par, x))
      BY <2>2, AtPlace
    <3>2. The(par, x).op = "store" => x.i = 0 \/ x.i \in 1 .. 5
      BY <3>1, ByOp
    <3> QED
      BY <3>1, <3>2 DEF Like
  <2>5. queue[w].op = "store" => At(x.n, x.i, 1) # z
    BY <1>5, <2>4, Labelled
  <2> QED
    BY <1>6, <2>1, <2>2, <2>3, <2>5
<1> QED
  BY <1>4, <1>7, <1>8 DEF DataInv

\* One effect_pass of the CPU scene on the frame p.
CpuPass(p, m, i) == EffectPass(m, Source(Rgb, i), Tmp((i - 1) % 2), Passes(p.mask)[i])

\* After i passes of the CPU the next one finds their history, and no image but the three
\* of the chain has changed.
After(p, m, i) ==
  /\ DOMAIN m = Memory /\ m[Source(Rgb, i + 1)] = Hist(p, i)
  /\ \A v \in Memory : v \notin {Rgb, Tmp(0), Tmp(1)} => m[v] = mem[v]

\* The images that a pass of the CPU reads and writes.
LEMMA CpuImages ==
  /\ Rgb \in Memory /\ Tmp(0) \in Memory /\ Tmp(1) \in Memory
  /\ \A w \in Window : w \in Memory /\ w \notin {Rgb, Tmp(0), Tmp(1)}
  /\ \A b : Cam(b) \notin {Rgb, Tmp(0), Tmp(1)}
  /\ \A i \in 1 .. 5 : /\ Tmp((i - 1) % 2) \in {Tmp(0), Tmp(1)}
                       /\ Source(Rgb, i) # Tmp((i - 1) % 2)
                       /\ Source(Rgb, i + 1) = Tmp((i - 1) % 2)
  /\ Source(Rgb, 1) = Rgb /\ \A i \in 1 .. 5 : Source(Rgb, i) \in {Rgb, Tmp(0), Tmp(1)}
<1>1. /\ Rgb \in Memory /\ Tmp(0) \in Memory /\ Tmp(1) \in Memory
      /\ \A w \in Window : w \in Memory
  BY DEF Memory
<1>2. /\ \A d : Tmp(d) # Rgb
      /\ \A b, d : Cam(b) # Rgb /\ Cam(b) # Tmp(d)
      /\ \A w \in Window : \A d : w # Rgb /\ w # Tmp(d)
      /\ \A d, e : Tmp(d) = Tmp(e) => d = e
  BY DEF Rgb, Tmp, Cam, Window, Win
<1>3. \A i \in 1 .. 5 : (i + 1) % 2 = (i - 1) % 2 /\ i + 1 # 1
  <2>1. /\ 0 % 2 = 0 /\ 1 % 2 = 1 /\ 2 % 2 = 0 /\ 3 % 2 = 1 /\ 4 % 2 = 0 /\ 5 % 2 = 1 /\ 6 % 2 = 0
    OBVIOUS
  <2>2. \A i \in 1 .. 5 : i \in {1, 2, 3, 4, 5}
    OBVIOUS
  <2> QED
    BY <2>1, <2>2
<1>4. ASSUME NEW i \in 1 .. 5
      PROVE  /\ Tmp((i - 1) % 2) \in {Tmp(0), Tmp(1)}
             /\ Source(Rgb, i) # Tmp((i - 1) % 2)
             /\ Source(Rgb, i + 1) = Tmp((i - 1) % 2)
             /\ Source(Rgb, i) \in {Rgb, Tmp(0), Tmp(1)}
  <2>1. (i - 1) % 2 \in {0, 1} /\ i % 2 \in {0, 1} /\ (i - 1) % 2 # i % 2
    BY Parity
  <2>2. Source(Rgb, i + 1) = Tmp((i - 1) % 2)
    BY <1>3 DEF Source
  <2>3. Source(Rgb, i) = Rgb \/ Source(Rgb, i) = Tmp(i % 2)
    BY DEF Source
  <2> QED
    BY <1>2, <2>1, <2>2, <2>3
<1>5. Source(Rgb, 1) = Rgb
  BY DEF Source
<1> QED
  BY <1>1, <1>2, <1>4, <1>5

\* A pass adds its effect.
LEMMA CpuPasses ==
  ASSUME NEW p, NEW i \in 1 .. 5, NEW m, After(p, m, i - 1)
  PROVE  After(p, CpuPass(p, m, i), i)
<1>1. PICK a, t, fx : a = Source(Rgb, i) /\ t = Tmp((i - 1) % 2) /\ fx = Passes(p.mask)[i]
  OBVIOUS
<1>2. /\ t \in {Tmp(0), Tmp(1)} /\ a # t /\ t = Source(Rgb, i + 1) /\ t \in Memory
  BY <1>1, CpuImages
<1>3. CpuPass(p, m, i) = [m EXCEPT ![t] = Apply(m[a], fx)]
  BY <1>1, <1>2 DEF CpuPass, EffectPass
<1>4. m[a] = Hist(p, i - 1) /\ DOMAIN m = Memory
  <2>1. (i - 1) + 1 = i
    OBVIOUS
  <2> QED
    BY <1>1, <2>1 DEF After
<1>5. Hist(p, i) = Apply(Hist(p, i - 1), fx)
  BY <1>1, HistStep
<1>6. PICK n : n = CpuPass(p, m, i)
  OBVIOUS
<1>7. DOMAIN n = Memory /\ n[t] = Hist(p, i) /\ \A v \in Memory : v # t => n[v] = m[v]
  BY <1>2, <1>3, <1>4, <1>5, <1>6
<1>8. After(p, n, i)
  BY <1>2, <1>7 DEF After
<1> QED
  BY <1>6, <1>8

\* cam_draw of the CPU scene leaves in the window what was asked for, and nothing in another.
LEMMA ShmDrawn ==
  ASSUME DOMAIN mem = Memory, NEW w \in Window, NEW b \in 0 .. NBuf, NEW p,
         p.mask \in SUBSET Effects, p.pic = mem[Cam(b)], NEW m, m = ShmDraw(mem, w, b, p.mask)
  PROVE  DOMAIN m = Memory /\ m[w] = Wanted(b, p.mask) /\ \A v \in Window : v # w => m[v] = mem[v]
<1>1. CASE b = 0
  <2>1. m = [mem EXCEPT ![w] = Black] /\ w \in Memory
    BY <1>1, CpuImages DEF ShmDraw
  <2>2. Wanted(b, p.mask) = Black
    BY <1>1 DEF Wanted
  <2>3. \A v \in Window : v \in Memory
    BY CpuImages
  <2> QED
    BY <2>1, <2>2, <2>3
<1>2. CASE b # 0
  <2> DEFINE passes == Passes(p.mask)
             n == IF passes = <<"none">> THEN 0 ELSE Len(passes)
             m0 == [mem EXCEPT ![Rgb] = mem[Cam(b)]]
             Is(f) == f = [i \in 0 .. n |->
                             IF i = 0 THEN m0
                             ELSE EffectPass(f[i - 1], Source(Rgb, i), Tmp((i - 1) % 2), passes[i])]
             after == CHOOSE f : Is(f)
  <2>1. m = [after[n] EXCEPT ![w] = after[n][Source(Rgb, n + 1)]]
    BY <1>2, Zenon DEF ShmDraw
  <2>2. n \in 0 .. 5 /\ Len(passes) \in 1 .. 5
    BY PassesAre
  <2> HIDE DEF n, m0
  <2>3. \E f : Is(f)
    <3> DEFINE a == CpuPass(p, m0, 1)
               c == CpuPass(p, a, 2)
               d == CpuPass(p, c, 3)
               e == CpuPass(p, d, 4)
               g == CpuPass(p, e, 5)
               M(i) == CASE i = 0 -> m0 [] i = 1 -> a [] i = 2 -> c [] i = 3 -> d [] i = 4 -> e
                         [] i = 5 -> g
               h == [i \in 0 .. n |-> M(i)]
    <3>1. \A i \in 0 .. n : i \in {0, 1, 2, 3, 4, 5}
      BY <2>2
    <3>2. \A i \in 0 .. n : h[i] = IF i = 0 THEN m0 ELSE CpuPass(p, h[i - 1], i)
      <4>1. /\ a = CpuPass(p, m0, 1) /\ c = CpuPass(p, a, 2) /\ d = CpuPass(p, c, 3)
            /\ e = CpuPass(p, d, 4) /\ g = CpuPass(p, e, 5)
        OBVIOUS
      <4> HIDE DEF a, c, d, e, g
      <4>2. \A i \in 0 .. n : i - 1 \in 0 .. n \/ i = 0
        BY <2>2
      <4> QED
        BY <3>1, <4>1, <4>2
    <3>3. h = [i \in 0 .. n |-> IF i = 0 THEN m0 ELSE CpuPass(p, h[i - 1], i)]
      <4> HIDE DEF h, M
      <4>1. h = [i \in 0 .. n |-> h[i]]
        BY DEF h
      <4> QED
        BY <3>2, <4>1
    <3> HIDE DEF h
    <3>4. Is(h)
      BY <3>3 DEF CpuPass
    <3> QED
      BY <3>4
  <2>4. Is(after)
    BY <2>3
  <2> HIDE DEF after
  <2>5. \A i \in 0 .. n : after[i] = IF i = 0 THEN m0 ELSE CpuPass(p, after[i - 1], i)
    BY <2>4 DEF CpuPass
  <2> HIDE DEF Is
  <2>6. After(p, after[0], 0)
    <3>1. after[0] = m0
      BY <2>2, <2>5
    <3>2. m0[Rgb] = p.pic /\ DOMAIN m0 = Memory /\ \A v \in Memory : v # Rgb => m0[v] = mem[v]
      BY CpuImages DEF m0
    <3>3. Source(Rgb, 0 + 1) = Rgb /\ Hist(p, 0) = p.pic
      BY CpuImages, HistStep
    <3> QED
      BY <3>1, <3>2, <3>3 DEF After
  <2>7. ASSUME NEW i \in 1 .. 5, i <= n, After(p, after[i - 1], i - 1) PROVE After(p, after[i], i)
    <3>1. after[i] = CpuPass(p, after[i - 1], i)
      BY <2>2, <2>5, <2>7
    <3> QED
      BY <2>7, <3>1, CpuPasses
  <2>8. After(p, after[n], n)
    <3>1. n >= 1 => After(p, after[1], 1)
      BY <2>6, <2>7
    <3>2. n >= 2 => After(p, after[2], 2)
      BY <2>2, <2>7, <3>1
    <3>3. n >= 3 => After(p, after[3], 3)
      BY <2>2, <2>7, <3>2
    <3>4. n >= 4 => After(p, after[4], 4)
      BY <2>2, <2>7, <3>3
    <3>5. n >= 5 => After(p, after[5], 5)
      BY <2>2, <2>7, <3>4
    <3>6. n \in {0, 1, 2, 3, 4, 5}
      BY <2>2
    <3> QED
      BY <2>6, <3>1, <3>2, <3>3, <3>4, <3>5, <3>6
  <2>9. Hist(p, n) = Wanted(b, p.mask)
    <3>1. Wanted(b, p.mask) = Hist(p, Len(passes))
      BY <1>2, HistWanted
    <3>2. CASE passes = <<"none">>
      <4>1. Len(passes) = 1 /\ passes[1] = "none" /\ n = 0
        BY <3>2 DEF n
      <4>2. Hist(p, 1) = Apply(Hist(p, 1 - 1), passes[1])
        BY HistStep
      <4>3. Hist(p, 1) = Hist(p, 0)
        BY <4>1, <4>2 DEF Apply
      <4> QED
        BY <3>1, <4>1, <4>3
    <3>3. CASE passes # <<"none">>
      BY <3>1, <3>3 DEF n
    <3> QED
      BY <3>2, <3>3
  <2>10. PICK q : q = after[n]
    OBVIOUS
  <2>11. /\ m = [q EXCEPT ![w] = Wanted(b, p.mask)] /\ DOMAIN q = Memory
         /\ \A v \in Memory : v \notin {Rgb, Tmp(0), Tmp(1)} => q[v] = mem[v]
    BY <2>1, <2>8, <2>9, <2>10 DEF After
  <2> QED
    BY <2>11, CpuImages
<1> QED
  BY <1>1, <1>2

\* The camera fills a buffer that no frame in flight reads.
LEMMA DataInvCamera ==
  ASSUME NEW CONSTANT lab, NEW CONSTANT par, QueueInv(lab, par), DataInv(lab, par),
         NEW CONSTANT b \in Bufs, CameraTakes(b)
  PROVE  DataInv(lab, par)'
<1>1. /\ ~InUse(b) /\ UNCHANGED <<frames, queue>> /\ mem' = [mem EXCEPT ![Cam(b)] = <<pics + 1>>]
  BY DEF CameraTakes
<1>2. DOMAIN mem' = Memory /\ \A m : m # Cam(b) => mem'[m] = mem[m]
  BY <1>1 DEF DataInv
<1>3. ASSUME NEW CONSTANT x \in Left(lab), Reads(The(par, x)) PROVE From(The(par, x)) # Cam(b)
  <2> SUFFICES ASSUME From(The(par, x)) = Cam(b) PROVE FALSE
    OBVIOUS
  <2>1. /\ x \in Labels /\ x.n \in 1 .. frames /\ Has(par[x.n], x) /\ Settings(par[x.n])
        /\ The(par, x) = Cmd(par[x.n], x) /\ x.n \in Nat
    BY IsLeft DEF The
  <2>2. CASE The(par, x).op = "end"
    <3>1. par[x.n].w = Cam(b) /\ par[x.n].w \in Window
      BY <2>1, <2>2, ByOp DEF From, Settings
    <3> QED
      BY <3>1, Images
  <2>3. CASE The(par, x).op = "copy"
    <3>1. StagingOf(x.n % NLanes) = Cam(b)
      BY <2>1, <2>3, ByOp DEF From
    <3> QED
      BY <3>1 DEF StagingOf, Staging, Cam
  <2>4. CASE The(par, x).op = "fetch"
    <3>1. ReadBy(par[x.n], x.i) = Cam(b)
      BY <2>1, <2>4, ByOp DEF From
    <3>2. First(par[x.n]) = Cam(b)
      BY <3>1, Images DEF ReadBy, Source
    <3>3. par[x.n].b = b
      BY <3>2, Images DEF First, Cam
    <3>4. At(x.n, 6, 2) \in Left(lab)
      BY <2>1, EndIsLeft
    <3>5. InUse(b)
      BY <2>1, <3>3, <3>4, EndIsQueued DEF InUse
    <3> QED
      BY <1>1, <3>5
  <2> QED
    BY <1>3, <2>2, <2>3, <2>4 DEF Reads
<1>4. MemInv(Left(lab), par)'
  BY <1>2, <1>3 DEF DataInv, MemInv
<1>5. ValInv(lab, par)'
  BY <1>1 DEF DataInv, ValInv
<1> QED
  BY <1>1, <1>2, <1>4, <1>5 DEF DataInv

\* A step that leaves the queue and the images alone.
LEMMA DataInvStays ==
  ASSUME NEW CONSTANT lab, NEW CONSTANT par, DataInv(lab, par), UNCHANGED <<frames, queue, mem>>
  PROVE  DataInv(lab, par)'
BY DEF DataInv, MemInv, ValInv

\* What a frame that may end now shows.
LEMMA DataInvGives ==
  ASSUME NEW CONSTANT lab, NEW CONSTANT par, QueueInv(lab, par), DataInv(lab, par),
         WinInv(Left(lab), par, frames)
  PROVE  ShownIsChain
<1> SUFFICES ASSUME NEW CONSTANT i \in DOMAIN queue, queue[i].op = "end", Ready(i)
             PROVE  mem[queue[i].img] = queue[i].val
  BY DEF ShownIsChain
<1>1. i \in 1 .. Len(queue) /\ \A j \in 1 .. i - 1 : ~Before(queue[j], queue[i])
  BY DEF Ready, QueueInv
<1>2. PICK z : z = lab[i]
  OBVIOUS
<1>3. /\ z \in Left(lab) /\ z \in Labels /\ Settings(par[z.n]) /\ Has(par[z.n], z)
      /\ The(par, z) = Cmd(par[z.n], z) /\ Like(queue[i], The(par, z))
  BY <1>1, <1>2, AtPlace
<1>4. The(par, z).op = "end" /\ queue[i].img = The(par, z).img
  BY <1>3 DEF Like
<1>5. Reads(The(par, z)) /\ From(The(par, z)) = queue[i].img
  BY <1>4 DEF Reads, From
<1>6. /\ Recorded(par, frames, scene, zero_copy) /\ Closed(Left(lab), par, frames)
      /\ Closed(Left(lab) \ {z}, par, frames)
  BY <1>1, <1>2, ClosedNow, ClosedNext
<1>7. Giver(par[z.n], z) \cap Left(lab) = {}
  BY <1>3, <1>5, <1>6, GivenNow
<1>8. mem[queue[i].img] = Value(par[z.n], z)
  BY <1>3, <1>5, <1>7 DEF DataInv, MemInv
<1>9. z.i = 6
  BY <1>3, <1>4, ByOp
<1>10. Value(par[z.n], z) = par[z.n].want
  BY <1>9 DEF Value
<1>11. queue[i].val = par[z.n].want
  BY <1>1, <1>2 DEF DataInv, ValInv
<1> QED
  BY <1>8, <1>10, <1>11

\* While there is room for a frame, the frames in flight use other lanes than it will: with
\* as many frames between them as there are lanes, there would be no room.
LEMMA LaneFree ==
  ASSUME NEW CONSTANT lab, NEW CONSTANT par, QueueInv(lab, par),
         WinInv(Left(lab), par, frames), CanDraw,
         NEW CONSTANT n \in 1 .. frames, At(n, 6, 2) \in Left(lab)
  PROVE  n % NLanes # (frames + 1) % NLanes
<1> SUFFICES ASSUME n % NLanes = (frames + 1) % NLanes PROVE FALSE
  OBVIOUS
<1>1. PICK N \in Nat, M \in Nat \ {0} : N = frames /\ M = NLanes
  BY ChainAssumption DEF QueueInv
<1>2. n + M <= N + 1
  <2> SUFFICES ASSUME ~(n + M <= N + 1) PROVE FALSE
    OBVIOUS
  <2>1. (N + 1) - n \in 0 .. M - 1 /\ (N + 1) - n # 0 /\ n \in Int /\ N + 1 \in Int
    BY <1>1
  <2>2. (((N + 1) % M) - (n % M)) % M = (N + 1) - n
    BY <2>1, ModDifference
  <2>3. n % M \in 0 .. M - 1 /\ n % M = (N + 1) % M
    BY <1>1, <2>1, ModRange
  <2>4. ((N + 1) % M) - (n % M) = 0
    BY <2>3
  <2>5. 0 % M = 0
    BY ModSmall
  <2> QED
    BY <2>1, <2>2, <2>4, <2>5
<1>3. ASSUME NEW k \in 1 .. M
      PROVE  /\ n + k - 1 \in 1 .. N /\ At(n + k - 1, 6, 2) \in Left(lab)
             /\ \E c \in Ends : c.img = par[n + k - 1].w
  <2>1. PICK j \in 1 .. N : j = n + k - 1 /\ n <= j
    BY <1>1, <1>2
  <2>2. At(n, 6, 2).n = n
    BY Labelled
  <2>3. At(j, 6, 2) \in Left(lab)
    BY <1>1, <2>1, <2>2, EndIsLeft
  <2> QED
    BY <1>1, <2>1, <2>3, EndIsQueued
<1> DEFINE f == [k \in 1 .. M |-> CHOOSE c \in Ends : c.img = par[n + k - 1].w]
<1>4. \A k \in 1 .. M : f[k] \in Ends /\ f[k].img = par[n + k - 1].w
  BY <1>3
<1>5. f \in [1 .. M -> Ends]
  BY <1>3
<1> HIDE DEF f
<1>6. ASSUME NEW k \in 1 .. M, NEW l \in 1 .. M, k < l PROVE f[k] # f[l]
  <2>0. n + k - 1 \in 1 .. N /\ n + l - 1 \in 1 .. N
    BY <1>3
  <2>1. PICK i \in 1 .. N, j \in 1 .. N : i = n + k - 1 /\ j = n + l - 1 /\ i < j
    <3>1. n + k - 1 < n + l - 1
      BY <1>1, <1>6
    <3> QED
      BY <2>0, <3>1
  <2>2. At(i, 6, 2) \in Left(lab)
    BY <1>3, <2>1
  <2>3. par[i].w # par[j].w
    BY <1>1, <2>1, <2>2 DEF WinInv
  <2> QED
    BY <1>4, <2>1, <2>3
<1>7. IsFiniteSet(Ends)
  <2>1. PICK C : queue \in Seq(C)
    BY DEF QueueInv
  <2>2. PICK m \in Nat : m = Len(queue)
    BY <2>1
  <2>3. IsFiniteSet(1 .. m)
    BY <2>2, FS_Interval
  <2>4. PICK q : q = queue
    OBVIOUS
  <2>5. q \in Surjection(1 .. m, Range(q))
    BY <2>1, <2>2, <2>4 DEF Surjection, Range
  <2>6. IsFiniteSet(Range(q))
    BY <2>3, <2>5, FS_Surjection
  <2>7. Ends \subseteq Range(q)
    BY <2>4 DEF Ends
  <2> QED
    BY <2>6, <2>7, FS_Subset
<1>8. Cardinality(1 .. M) <= Cardinality(Ends)
  <2>1. \A k, l \in 1 .. M : f[k] = f[l] => k = l
    <3>1. TAKE k, l \in 1 .. M
    <3>2. k < l \/ l < k \/ k = l
      OBVIOUS
    <3> QED
      BY <1>6, <3>2
  <2>2. f \in Injection(1 .. M, Ends)
    BY <1>5, <2>1 DEF Injection, IsInjective
  <2> QED
    BY <1>7, <2>2, FS_Injection
<1>9. Cardinality(1 .. M) = M
  <2>1. Cardinality(1 .. M) = IF 1 > M THEN 0 ELSE M - 1 + 1
    BY <1>1, FS_Interval
  <2> QED
    BY <2>1
<1>10. Cardinality(Ends) < M /\ Cardinality(Ends) \in Nat
  BY <1>1, <1>7, FS_CardinalityType DEF CanDraw
<1> QED
  BY <1>8, <1>9, <1>10

\* What drawing the frame p does to the images.
MemDrawn(p) ==
  /\ scene = "vk" =>
       mem' = IF latest # 0 /\ ~zero_copy
                THEN [mem EXCEPT ![StagingOf((frames + 1) % NLanes)] = mem[Cam(latest)]]
                ELSE mem
  /\ scene = "gles" => mem' = mem
  /\ scene = "shm" => mem' = ShmDraw(mem, p.w, latest, p.mask)

\* Drawing a frame does not touch what the frames in flight still read.
LEMMA OthersKeep ==
  ASSUME NEW CONSTANT lab, NEW CONSTANT par, QueueInv(lab, par), DataInv(lab, par),
         WinInv(Left(lab), par, frames), Basics, CanDraw,
         NEW CONSTANT p, DrawnWith(p), MemDrawn(p),
         NEW CONSTANT x \in Left(lab), Reads(The(par, x))
  PROVE  mem'[From(The(par, x))] = mem[From(The(par, x))]
<1> DEFINE c == The(par, x)
<1>1. /\ x \in Labels /\ x.n \in 1 .. frames /\ Has(par[x.n], x) /\ Settings(par[x.n])
      /\ c = Cmd(par[x.n], x) /\ par[x.n].scene = scene /\ x.n \in Nat /\ frames \in Nat
  BY IsLeft DEF The, QueueInv
<1>2. Recorded(par, frames, scene, zero_copy) /\ x \in Program(par, frames)
  BY ClosedNow, IsLeft
<1>3. From(c) \in Memory
  BY <1>2, FromInMemory
<1>4. At(x.n, 6, 2) \in Left(lab)
  BY <1>1, EndIsLeft
<1>5. CASE scene = "gles"
  BY <1>5 DEF MemDrawn
<1>6. CASE scene = "vk"
  <2>1. From(c) # StagingOf((frames + 1) % NLanes)
    <3> SUFFICES ASSUME From(c) = StagingOf((frames + 1) % NLanes) PROVE FALSE
      OBVIOUS
    <3>1. CASE c.op = "end"
      <4>1. From(c) \in Window
        BY <1>1, <3>1, ByOp DEF From, Settings
      <4> QED
        BY <4>1 DEF StagingOf, Staging, Window, Win
    <3>2. CASE c.op = "fetch"
      <4>1. From(c) = ReadBy(par[x.n], x.i)
        BY <1>1, <3>2, ByOp DEF From
      <4> QED
        BY <4>1 DEF ReadBy, Source, First, StagingOf, Staging, Upload, Cam, Tmp
    <3>3. CASE c.op = "copy"
      <4>1. From(c) = StagingOf(x.n % NLanes)
        BY <1>1, <3>3, ByOp DEF From
      <4>2. x.n % NLanes = (frames + 1) % NLanes
        BY <4>1 DEF StagingOf, Staging
      <4> QED
        BY <1>1, <1>4, <4>2, LaneFree
    <3> QED
      BY <3>1, <3>2, <3>3 DEF Reads
  <2> QED
    BY <1>3, <1>6, <2>1 DEF MemDrawn, DataInv
<1>7. CASE scene = "shm"
  <2>1. x.i = 6 /\ x.t = 2
    BY <1>1, <1>7, Kinds, PassCount DEF Has, OnVk, Drawn
  <2>2. From(c) = par[x.n].w
    BY <1>1, <2>1, EndSteps DEF From
  <2>3. par[x.n].w \in Window /\ par[x.n].w # p.w /\ p.w \in Window
    <3>1. PICK e \in Ends : e.img = par[x.n].w
      BY <1>1, <1>4, EndIsQueued
    <3>2. p.w \in Targets
      BY DEF DrawnWith
    <3> QED
      BY <1>1, <3>1, <3>2, TargetsAre DEF Settings
  <2>4. /\ DOMAIN mem = Memory /\ latest \in 0 .. NBuf /\ p.mask \in SUBSET Effects
        /\ p.pic = mem[Cam(latest)]
    BY DEF DataInv, Basics, DrawnWith, Settings
  <2>5. mem' = ShmDraw(mem, p.w, latest, p.mask)
    BY <1>7 DEF MemDrawn
  <2>6. \A v \in Window : v # p.w => mem'[v] = mem[v]
    BY <2>3, <2>4, <2>5, ShmDrawn
  <2> QED
    BY <2>2, <2>3, <2>6
<1> QED
  BY <1>5, <1>6, <1>7 DEF Basics, AllScenes

\* What the new frame reads that none of its own commands gives it.
LEMMA NewHas ==
  ASSUME NEW CONSTANT p, DrawnWith(p), MemDrawn(p), DOMAIN mem = Memory, Basics, frames \in Nat,
         NEW CONSTANT x \in Names(p, frames + 1), Reads(Cmd(p, x)), Giver(p, x) = {}
  PROVE  mem'[From(Cmd(p, x))] = Value(p, x)
<1> DEFINE c == Cmd(p, x)
<1>1. /\ x \in Labels /\ x.n = frames + 1 /\ Has(p, x) /\ Settings(p) /\ p.scene = scene
      /\ p.zc = zero_copy /\ p.pic = mem[Cam(latest)] /\ p.scene \in {"vk", "gles", "shm"}
      /\ (scene # "shm" => p.b = latest)
  BY DEF Names, DrawnWith, Settings, AllScenes
<1>2. CASE c.op = "end"
  <2>1. x.i = 6 /\ From(c) = p.w /\ Value(p, x) = p.want
    BY <1>1, <1>2, ByOp DEF From, Value
  <2>2. scene = "shm"
    BY <1>1, <2>1 DEF Giver
  <2>3. mem' = ShmDraw(mem, p.w, latest, p.mask)
    BY <2>2 DEF MemDrawn
  <2>4. p.w \in Window /\ latest \in 0 .. NBuf /\ p.mask \in SUBSET Effects
    BY <1>1 DEF Settings, Basics
  <2>5. mem'[p.w] = Wanted(latest, p.mask)
    BY <1>1, <2>3, <2>4, ShmDrawn
  <2> QED
    BY <2>1, <2>5 DEF DrawnWith
<1>3. CASE c.op = "copy"
  <2>1. /\ x.i = 0 /\ OnVk(p) /\ p.b # 0 /\ ~p.zc
        /\ From(c) = StagingOf((frames + 1) % NLanes) /\ Value(p, x) = p.pic
    BY <1>1, <1>3, ByOp DEF From, Value
  <2>2. mem' = [mem EXCEPT ![StagingOf((frames + 1) % NLanes)] = mem[Cam(latest)]]
    BY <1>1, <2>1 DEF MemDrawn, OnVk
  <2>3. StagingOf((frames + 1) % NLanes) \in DOMAIN mem
    <3>1. (frames + 1) % NLanes \in 0 .. NLanes - 1
      BY ChainAssumption, ModRange
    <3> QED
      BY <3>1 DEF StagingOf, Memory
  <2> QED
    BY <1>1, <2>1, <2>2, <2>3
<1>4. CASE c.op = "fetch"
  <2>1. x.i \in 1 .. 5 /\ Drawn(p) /\ From(c) = ReadBy(p, x.i)
    BY <1>1, <1>4, ByOp DEF From
  <2>2. x.i = 1 /\ ~(OnVk(p) /\ ~p.zc)
    BY <2>1 DEF Giver
  <2>3. From(c) = Cam(latest) /\ scene # "shm"
    BY <1>1, <2>1, <2>2 DEF ReadBy, Source, First, Drawn
  <2>4. Value(p, x) = p.pic
    BY <2>2, HistStep DEF Value
  <2>5. mem' = mem
    BY <1>1, <2>2, <2>3 DEF MemDrawn, OnVk
  <2> QED
    BY <1>1, <2>3, <2>4, <2>5
<1> QED
  BY <1>2, <1>3, <1>4 DEF Reads

\* Drawing a frame keeps what the images hold.
LEMMA DataInvDraws ==
  ASSUME NEW CONSTANT lab, NEW CONSTANT par, QueueInv(lab, par), DataInv(lab, par),
         WinInv(Left(lab), par, frames), Basics, Draw,
         NEW CONSTANT more, NEW CONSTANT pars, NEW CONSTANT p,
         With(lab, par, more, pars, p), DrawnWith(p), MemDrawn(p)
  PROVE  DataInv(more, pars)'
<1>1. PICK N \in Nat, F \in Nat : F = frames /\ N = F + 1 /\ N = frames'
  BY DEF QueueInv, Draw
<1>2. /\ Left(more) = Left(lab) \cup Names(p, N) /\ QueueInv(more, pars)' /\ pars[N] = p
      /\ \A n \in 1 .. F : pars[n] = par[n]
  BY <1>1 DEF With
<1>3. /\ Settings(p) /\ p.scene = scene /\ p.zc = zero_copy /\ p.pic = mem[Cam(latest)]
      /\ (scene # "shm" => p.b = latest) /\ p.want = Wanted(latest, p.mask)
  BY DEF DrawnWith
<1>4. Recorded(pars, N, scene, zero_copy)
  BY <1>1, <1>2 DEF QueueInv, Recorded, Draw
<1>5. CanDraw /\ DOMAIN mem = Memory
  BY DEF Draw, DataInv
<1>6. DOMAIN mem' = Memory
  <2>1. CASE scene = "shm"
    <3>1. p.w \in Window /\ latest \in 0 .. NBuf /\ p.mask \in SUBSET Effects
      BY <1>3 DEF Settings, Basics
    <3> QED
      BY <1>3, <1>5, <2>1, <3>1, ShmDrawn DEF MemDrawn
  <2>2. CASE scene # "shm"
    BY <1>5, <2>2 DEF MemDrawn, Basics, AllScenes
  <2> QED
    BY <2>1, <2>2
<1>7. ASSUME NEW CONSTANT n \in 1 .. N PROVE Promised(pars[n])
  <2>1. CASE n \in 1 .. F
    BY <1>1, <1>2, <2>1 DEF DataInv
  <2>2. CASE n = N
    <3>1. CASE p.b = 0
      BY <1>2, <1>3, <2>2, <3>1 DEF Promised, Wanted
    <3>2. CASE p.b # 0
      <4>1. scene # "shm" => Wanted(p.b, p.mask) = Hist(p, NPass(p))
        BY <1>3, <3>2, HistWanted DEF Settings, NPass
      <4> QED
        BY <1>2, <1>3, <2>2, <3>2, <4>1 DEF Promised
    <3> QED
      BY <3>1, <3>2
  <2> QED
    BY <1>1, <2>1, <2>2
<1>8. ASSUME NEW CONSTANT x \in Left(lab)
      PROVE  /\ x.n \in 1 .. F /\ pars[x.n] = par[x.n] /\ The(pars, x) = The(par, x)
  BY <1>1, <1>2, IsLeft DEF The
<1>9. MemInv(Left(more), pars)'
  <2> SUFFICES ASSUME NEW CONSTANT x \in Left(more), Reads(The(pars, x)),
                      Giver(pars[x.n], x) \cap Left(more) = {}
               PROVE  mem'[From(The(pars, x))] = Value(pars[x.n], x)
    BY DEF MemInv
  <2>1. CASE x \in Left(lab)
    <3>1. Reads(The(par, x)) /\ Giver(par[x.n], x) \cap Left(lab) = {}
      BY <1>2, <1>8, <2>1
    <3>2. mem[From(The(par, x))] = Value(par[x.n], x)
      BY <2>1, <3>1 DEF DataInv, MemInv
    <3>3. mem'[From(The(par, x))] = mem[From(The(par, x))]
      BY <1>5, <2>1, <3>1, OthersKeep
    <3> QED
      BY <1>8, <2>1, <3>2, <3>3
  <2>2. CASE x \in Names(p, N)
    <3>1. x.n = N /\ pars[x.n] = p /\ The(pars, x) = Cmd(p, x)
      BY <1>2, <2>2 DEF Names, The
    <3>2. x \in Program(pars, N)
      BY <1>1, <2>2, <3>1 DEF Names, Program
    <3>3. Giver(p, x) = {}
      <4> SUFFICES ASSUME NEW CONSTANT e \in Giver(p, x) PROVE FALSE
        OBVIOUS
      <4>1. e \in Program(pars, N) /\ e.n = x.n
        BY <1>4, <3>1, <3>2, Gave
      <4>2. e \in Names(p, N)
        BY <3>1, <4>1 DEF Names, Program
      <4> QED
        BY <1>2, <3>1, <4>2
    <3>4. frames \in Nat /\ x \in Names(p, frames + 1)
      BY <1>1, <2>2
    <3> QED
      BY <1>5, <3>1, <3>3, <3>4, NewHas
  <2> QED
    BY <1>2, <2>1, <2>2
<1>10. ValInv(more, pars)'
  <2> SUFFICES ASSUME NEW CONSTANT k \in 1 .. Len(queue')
               PROVE  /\ queue'[k].op = "end" => queue'[k].val = pars[more[k].n].want
                      /\ queue'[k].op = "store"
                           /\ (more[k].i = 0 \/ At(more[k].n, more[k].i, 1) \notin Left(more)) =>
                           Apply(queue'[k].val, queue'[k].fx) = Made(pars[more[k].n], more[k])
    BY DEF ValInv
  <2>1. PICK x : x = more[k]
    OBVIOUS
  <2>2. PICK m \in Nat, l \in Nat :
          /\ m = Len(queue) /\ Len(queue') = m + l
          /\ \A j \in 1 .. m : queue'[j] = queue[j] /\ more[j] = lab[j]
          /\ \A j \in 1 .. l : queue'[m + j] = Cmd(p, more[m + j])
    BY InQueue DEF With
  <2>3. CASE k \in 1 .. m
    <3>1. queue'[k] = queue[k] /\ more[k] = lab[k] /\ x = lab[k] /\ x \in Left(lab)
      BY <2>1, <2>2, <2>3, InQueue
    <3>2. /\ queue[k].op = "end" => queue[k].val = par[x.n].want
          /\ queue[k].op = "store" /\ (x.i = 0 \/ At(x.n, x.i, 1) \notin Left(lab)) =>
               Apply(queue[k].val, queue[k].fx) = Made(par[x.n], x)
      BY <2>2, <2>3, <3>1 DEF DataInv, ValInv
    <3> QED
      BY <1>2, <1>8, <3>1, <3>2
  <2>4. CASE k \notin 1 .. m
    <3>1. PICK j \in 1 .. l : k = m + j
      <4>1. k - m \in 1 .. l /\ k = m + (k - m)
        BY <2>2, <2>4
      <4> QED
        BY <4>1
    <3>2. queue'[k] = Cmd(p, x)
      BY <2>1, <2>2, <3>1
    <3>3. x \in Left(more) /\ \A i \in 1 .. m : Less(more[i], x)
      <4>1. /\ more \in [1 .. Len(queue') -> Program(pars, frames')]
            /\ \A i, h \in 1 .. Len(queue') : i < h => Less(more[i], more[h])
        BY <1>2 DEF QueueInv
      <4>2. \A i \in 1 .. m : i \in 1 .. Len(queue') /\ i < k
        BY <2>2, <3>1
      <4> QED
        BY <2>1, <4>1, <4>2 DEF Left
    <3>4. x \in Names(p, N)
      <4> SUFFICES ASSUME x \in Left(lab) PROVE FALSE
        BY <1>2, <3>3
      <4>1. PICK i \in 1 .. m : x = lab[i]
        BY <2>2, InQueue
      <4>2. Less(x, x)
        BY <2>2, <3>3, <4>1
      <4> QED
        BY <4>2, IsLeft, OneOrder
    <3>5. x \in Labels /\ x.n = N /\ Has(p, x) /\ pars[x.n] = p
      BY <1>2, <3>4 DEF Names
    <3>6. Cmd(p, x).op = "end" => Cmd(p, x).val = p.want
      BY <1>3, <3>5, ByOp
    <3>7. ASSUME Cmd(p, x).op = "store", x.i = 0 \/ At(x.n, x.i, 1) \notin Left(more)
          PROVE  Apply(Cmd(p, x).val, Cmd(p, x).fx) = Made(p, x)
      <4>1. \/ x.i = 0 /\ Cmd(p, x) = BlackStore(p.w) /\ x.t # 4
            \/ x.i \in 1 .. 5 /\ x.i <= NPass(p) /\ x.t = 2 /\ Drawn(p)
        BY <1>3, <3>5, <3>7, ByOp
      <4>2. x.i = 0 /\ Cmd(p, x) = BlackStore(p.w) /\ x.t # 4
        <5> SUFFICES ASSUME x.i \in 1 .. 5, x.i <= NPass(p), Drawn(p) PROVE FALSE
          BY <4>1
        <5>1. PICK e : e = At(x.n, x.i, 1) /\ e.n = x.n /\ e.i = x.i /\ e.t = 1
          BY Labelled
        <5>2. e \in Labels
          BY <3>5, <5>1 DEF Labels, At
        <5>3. Has(p, e)
          BY <1>3, <5>1, PassCount DEF Has
        <5>4. e \in Names(p, N)
          BY <3>5, <5>1, <5>2, <5>3 DEF Names
        <5> QED
          BY <1>2, <3>7, <5>1, <5>4
      <4>3. Apply(Cmd(p, x).val, Cmd(p, x).fx) = Black
        BY <4>2, BlackStores DEF Apply
      <4> QED
        BY <4>2, <4>3 DEF Made
    <3> QED
      BY <2>1, <3>2, <3>5, <3>6, <3>7
  <2> QED
    BY <2>3, <2>4
<1> QED
  BY <1>1, <1>6, <1>7, <1>9, <1>10 DEF DataInv

------------------------------------------------------------------------------
(* The invariant *)

\* The queue under its names, and the parts about the camera, the windows, the layouts, the
\* depth image and what the images hold.
ChainInv(lab, par) ==
  /\ QueueInv(lab, par) /\ CamInv(lab, par) /\ WinInv(Left(lab), par, frames)
  /\ scene = "vk" => LayoutInv(Left(lab), par) /\ UploadInv(Left(lab), par)
  /\ DepthInv(Left(lab), par) /\ DataInv(lab, par)

\* Nothing is recorded at first.
LEMMA ChainInvInit == Init => Basics /\ \E lab, par : ChainInv(lab, par)
<1> SUFFICES ASSUME Init PROVE Basics /\ \E lab, par : ChainInv(lab, par)
  OBVIOUS
<1>1. Basics
  <2>1. scene \in AllScenes /\ zero_copy \in BOOLEAN /\ (zero_copy => scene = "vk")
    BY ChainAssumption DEF Init
  <2>2. latest \in 0 .. NBuf /\ fallback_image_written \in BOOLEAN
    <3>1. NBuf \in Nat
      BY ChainAssumption
    <3>2. latest = 0 /\ fallback_image_written = FALSE
      BY DEF Init
    <3>3. latest \in 0 .. NBuf
      BY <3>1, <3>2
    <3>4. fallback_image_written \in BOOLEAN
      BY <3>2, Zenon
    <3> QED
      BY <3>3, <3>4
  <2>3. DOMAIN layout = Memory /\ DOMAIN mem = Memory
    BY DEF Init
  <2> QED
    BY <2>1, <2>2, <2>3 DEF Basics
<1>2. frames = 0 /\ queue = <<>> /\ fallback_image_written = FALSE
  BY DEF Init
<1>3. PICK lab : lab = [k \in 1 .. 0 |-> 0]
  OBVIOUS
<1>4. PICK par : par = [n \in 1 .. 0 |-> 0]
  OBVIOUS
<1>5. Left(lab) = {}
  BY <1>3 DEF Left
<1>6. QueueInv(lab, par)
  <2>1. queue \in Seq({}) /\ Len(queue) = 0 /\ frames \in Nat /\ 1 .. Len(queue) = {} /\ 1 .. frames = {}
    BY <1>2
  <2>2. lab \in [1 .. Len(queue) -> Program(par, frames)]
    BY <1>3, <2>1
  <2> QED
    BY <1>5, <2>1, <2>2 DEF QueueInv
<1>7. CamInv(lab, par)
  <2> SUFFICES ASSUME NEW b \in Bufs PROVE layout[Cam(b)] = "foreign"
    BY DEF CamInv
  <2>1. Cam(b) \in Memory /\ Cam(b)[1] = "cam"
    BY DEF Memory, Cam
  <2> QED
    BY <2>1 DEF Init
<1>8. WinInv(Left(lab), par, frames)
  BY <1>5 DEF WinInv
<1>9. LayoutInv(Left(lab), par) /\ UploadInv(Left(lab), par) /\ DepthInv(Left(lab), par)
  BY <1>2, <1>5 DEF LayoutInv, UploadInv, DepthInv
<1>10. DataInv(lab, par)
  <2>1. DOMAIN mem = Memory
    BY DEF Init
  <2>2. Len(queue) = 0 /\ 1 .. Len(queue) = {} /\ 1 .. frames = {}
    BY <1>2
  <2> QED
    BY <1>5, <2>1, <2>2 DEF DataInv, MemInv, ValInv
<1> QED
  BY <1>1, <1>6, <1>7, <1>8, <1>9, <1>10 DEF ChainInv

\* Executing a command keeps the invariant.
LEMMA ChainInvExecutes ==
  ASSUME NEW CONSTANT lab, NEW CONSTANT par, ChainInv(lab, par), Basics,
         NEW CONSTANT i \in DOMAIN queue, Execute(i)
  PROVE  Basics' /\ \E rest : ChainInv(rest, par)'
<1>0. QueueInv(lab, par) /\ CamInv(lab, par) /\ WinInv(Left(lab), par, frames) /\ DepthInv(Left(lab), par)
      /\ (scene = "vk" => LayoutInv(Left(lab), par) /\ UploadInv(Left(lab), par))
      /\ DataInv(lab, par)
  BY DEF ChainInv
<1>1. /\ i \in 1 .. Len(queue) /\ \A j \in 1 .. i - 1 : ~Before(queue[j], queue[i])
      /\ \E rest : Without(lab, par, rest, i)
  BY <1>0, Executes
<1>2. PICK rest : Without(lab, par, rest, i)
  BY <1>1
<1> DEFINE L == Left(lab)
<1>3. PICK z : z = lab[i] /\ z \in L
  BY <1>0, <1>1, InQueue
<1>4. Left(rest) = L \ {z} /\ QueueInv(rest, par)'
  BY <1>2, <1>3 DEF Without
<1>5. /\ Closed(L, par, frames) /\ Recorded(par, frames, scene, zero_copy)
      /\ Closed(L \ {z}, par, frames)
  BY <1>0, <1>1, <1>3, ClosedNow, ClosedNext
<1>6. PICK c : c = The(par, z)
  OBVIOUS
<1>7. Like(queue[i], c)
  BY <1>0, <1>1, <1>3, <1>6 DEF QueueInv
<1>8. /\ mem' = Contents(queue[i]) /\ UNCHANGED <<scene, zero_copy, latest, frames, fallback_image_written>>
      /\ layout' = IF c.op = "barrier" THEN [layout EXCEPT ![c.img] = c.new] ELSE layout
      /\ c.op # "end"
  BY <1>7 DEF Execute, Like, camVars
<1>9. CamInv(rest, par)'
  BY <1>0, <1>2, CamInvExecutes
<1>10. WinInv(Left(rest), par, frames)'
  BY <1>0, <1>4, <1>8, WinInvLess
<1>11. scene = "vk" => LayoutInv(Left(rest), par)' /\ UploadInv(Left(rest), par)'
  <2> SUFFICES ASSUME scene = "vk" PROVE LayoutInv(Left(rest), par)' /\ UploadInv(Left(rest), par)'
    OBVIOUS
  <2>1. Relaid(par, frames, zero_copy, L, z)
    BY <1>0, <1>3, <1>5, <1>6, <1>8 DEF Relaid, Basics
  <2>2. LayoutInv(L \ {z}, par)' /\ UploadInv(L \ {z}, par)'
    BY <1>0, <2>1, LayoutInvStep, UploadInvStep
  <2> QED
    BY <1>4, <2>2
<1>12. Draws3D(par, z) <=> c.op \in {"barrier", "store", "copy", "clear"} /\ c.img = Depth
  BY <1>6 DEF Draws3D
<1>c. PICK d : d = queue[i] /\ d.op = c.op /\ d.img = c.img /\ d.draw = c.draw
  BY <1>7 DEF Like
<1>13. scene # "shm" /\ ~Draws3D(par, z) => mem'[Depth] = mem[Depth]
  <2> SUFFICES ASSUME scene # "shm", ~Draws3D(par, z) PROVE mem'[Depth] = mem[Depth]
    OBVIOUS
  <2>0. Depth \in DOMAIN mem
    BY DEF Basics, Memory
  <2>1. c.img = Depth => d.op \notin {"barrier", "store", "copy", "clear"}
    BY <1>12, <1>c
  <2>2. mem' = Contents(d)
    BY <1>8, <1>c
  <2>3. CASE c.img = Depth
    BY <2>1, <2>2, <2>3 DEF Contents
  <2>4. CASE c.img # Depth
    <3>1. \/ mem' = mem \/ \E v : mem' = [mem EXCEPT ![d.img] = v]
      BY <2>2 DEF Contents
    <3> QED
      BY <1>c, <2>0, <2>4, <3>1
  <2> QED
    BY <2>3, <2>4
<1>14. scene # "shm" /\ c.op = "clear" /\ c.img = Depth => mem'[Depth] = c.draw
  <2> SUFFICES ASSUME c.op = "clear", c.img = Depth, scene # "shm" PROVE mem'[Depth] = c.draw
    OBVIOUS
  <2>1. mem' = [mem EXCEPT ![Depth] = c.draw]
    BY <1>8, <1>c DEF Contents
  <2>2. Depth \in DOMAIN mem
    BY DEF Basics, Memory
  <2> QED
    BY <2>1, <2>2
<1>15. Basics'
  <2>1. DOMAIN mem' = DOMAIN mem
    <3>1. \/ mem' = mem \/ \E v : mem' = [mem EXCEPT ![queue[i].img] = v]
      BY <1>8 DEF Contents
    <3> QED
      BY <3>1
  <2>2. DOMAIN layout' = DOMAIN layout
    BY <1>8
  <2> QED
    BY <1>8, <2>1, <2>2 DEF Basics
<1>17. DepthInv(Left(rest), par)'
  <2>1. DepthInv(L \ {z}, par)'
    BY <1>0, <1>3, <1>5, <1>6, <1>13, <1>14, DepthStep
  <2> QED
    BY <1>4, <2>1
<1>d. DataInv(rest, par)'
  BY <1>0, <1>2, DataInvExecutes
<1>18. ChainInv(rest, par)'
  BY <1>4, <1>8, <1>9, <1>10, <1>11, <1>17, <1>d DEF ChainInv
<1> QED
  BY <1>15, <1>18

\* Finishing a frame keeps the invariant.
LEMMA ChainInvFinishes ==
  ASSUME NEW CONSTANT lab, NEW CONSTANT par, ChainInv(lab, par), Basics, Finish
  PROVE  Basics' /\ \E rest : ChainInv(rest, par)'
<1>0. QueueInv(lab, par) /\ CamInv(lab, par) /\ WinInv(Left(lab), par, frames) /\ DepthInv(Left(lab), par)
      /\ (scene = "vk" => LayoutInv(Left(lab), par) /\ UploadInv(Left(lab), par))
      /\ DataInv(lab, par)
  BY DEF ChainInv
<1>1. /\ 1 \in 1 .. Len(queue) /\ \A j \in 1 .. 1 - 1 : ~Before(queue[j], queue[1])
      /\ \E rest : Without(lab, par, rest, 1)
  BY <1>0, Finishes
<1>2. PICK rest : Without(lab, par, rest, 1)
  BY <1>1
<1> DEFINE L == Left(lab)
<1>3. PICK z : z = lab[1] /\ z \in L
  BY <1>0, <1>1, InQueue
<1>4. Left(rest) = L \ {z} /\ QueueInv(rest, par)'
  BY <1>2, <1>3 DEF Without
<1>5. /\ Closed(L, par, frames) /\ Recorded(par, frames, scene, zero_copy)
      /\ Closed(L \ {z}, par, frames)
  BY <1>0, <1>1, <1>3, ClosedNow, ClosedNext
<1>6. PICK c : c = The(par, z)
  OBVIOUS
<1>7. Like(queue[1], c)
  BY <1>0, <1>1, <1>3, <1>6 DEF QueueInv
<1>8. UNCHANGED <<scene, zero_copy, latest, frames, mem, layout, fallback_image_written>> /\ c.op = "end"
  BY <1>7 DEF Finish, Like, camVars
<1>9. CamInv(rest, par)'
  BY <1>0, <1>2, CamInvFinishes
<1>10. WinInv(Left(rest), par, frames)'
  BY <1>0, <1>4, <1>8, WinInvLess
<1>11. scene = "vk" => LayoutInv(Left(rest), par)' /\ UploadInv(Left(rest), par)'
  <2> SUFFICES ASSUME scene = "vk" PROVE LayoutInv(Left(rest), par)' /\ UploadInv(Left(rest), par)'
    OBVIOUS
  <2>1. Relaid(par, frames, zero_copy, L, z)
    BY <1>0, <1>3, <1>5, <1>6, <1>8 DEF Relaid, Basics
  <2>2. LayoutInv(L \ {z}, par)' /\ UploadInv(L \ {z}, par)'
    BY <1>0, <2>1, LayoutInvStep, UploadInvStep
  <2> QED
    BY <1>4, <2>2
<1>12. DepthInv(Left(rest), par)'
  <2>1. DepthInv(L \ {z}, par)'
    BY <1>0, <1>3, <1>5, <1>6, <1>8, DepthStep
  <2> QED
    BY <1>4, <2>1
<1>13. Basics'
  BY <1>8 DEF Basics
<1>d. DataInv(rest, par)'
  BY <1>0, <1>2, DataInvFinishes
<1>14. ChainInv(rest, par)'
  BY <1>4, <1>8, <1>9, <1>10, <1>11, <1>12, <1>d DEF ChainInv
<1> QED
  BY <1>13, <1>14

\* Drawing a frame keeps the invariant.
LEMMA ChainInvDraws ==
  ASSUME NEW CONSTANT lab, NEW CONSTANT par, ChainInv(lab, par), Basics, Draw
  PROVE  Basics' /\ \E more, pars : ChainInv(more, pars)'
<1>0. QueueInv(lab, par) /\ CamInv(lab, par) /\ WinInv(Left(lab), par, frames) /\ DepthInv(Left(lab), par)
      /\ (scene = "vk" => LayoutInv(Left(lab), par) /\ UploadInv(Left(lab), par))
      /\ DataInv(lab, par)
  BY DEF ChainInv
<1>1. PICK more, pars, p :
           /\ With(lab, par, more, pars, p) /\ DrawnWith(p)
           /\ scene = "vk" =>
                /\ mem' = IF latest # 0 /\ ~zero_copy
                            THEN [mem EXCEPT ![StagingOf((frames + 1) % NLanes)] = mem[Cam(latest)]]
                            ELSE mem
                /\ fallback_image_written' = (fallback_image_written \/ (latest # 0 /\ ~zero_copy))
           /\ scene = "gles" => UNCHANGED <<mem, fallback_image_written>>
           /\ scene = "shm" => /\ mem' = ShmDraw(mem, p.w, latest, p.mask)
                               /\ UNCHANGED fallback_image_written
  BY <1>0, Draws
<1>2. UNCHANGED <<scene, zero_copy, latest, layout>> /\ frames' = frames + 1 /\ frames \in Nat
  BY <1>0 DEF Draw, camVars, QueueInv
<1>3. QueueInv(more, pars)'
  BY <1>1 DEF With
<1>4. Recorded(pars, frames + 1, scene, zero_copy)
  BY <1>2, <1>3 DEF QueueInv, Recorded
<1>5. CamInv(more, pars)'
  BY <1>0, <1>1, CamInvDraws
<1>6. WinInv(Left(more), pars, frames)'
  BY <1>0, <1>1, <1>2, WinInvDraws
<1>7. scene = "vk" => LayoutInv(Left(more), pars)' /\ UploadInv(Left(more), pars)'
  <2> SUFFICES ASSUME scene = "vk"
               PROVE  LayoutInv(Left(more), pars)' /\ UploadInv(Left(more), pars)'
    OBVIOUS
  <2>1. LayoutInv(Left(more), pars)'
    BY <1>0, <1>1, <1>2, <1>4, LayoutInvDraws
  <2>2. UploadInv(Left(more), pars)'
    BY <1>0, <1>1, <1>2, <1>4, UploadInvDraws
  <2> QED
    BY <2>1, <2>2
<1>8. scene # "shm" => mem'[Depth] = mem[Depth] /\ DOMAIN mem' = DOMAIN mem
  <2> SUFFICES ASSUME scene # "shm" PROVE mem'[Depth] = mem[Depth] /\ DOMAIN mem' = DOMAIN mem
    OBVIOUS
  <2>1. Depth \in DOMAIN mem /\ \A l : StagingOf(l) # Depth
    BY DEF Basics, Memory, StagingOf, Staging, Depth
  <2>2. scene \in {"vk", "gles"}
    BY DEF Basics, AllScenes
  <2> QED
    BY <1>1, <2>1, <2>2
<1>9. DepthInv(Left(more), pars)'
  BY <1>0, <1>1, <1>4, <1>8, DepthInvDraws
<1>10. Basics'
  <2>1. fallback_image_written' \in BOOLEAN
    BY <1>1 DEF Basics, AllScenes
  <2> QED
    BY <1>2, <1>8, <2>1 DEF Basics
<1>d. DataInv(more, pars)'
  <2>1. MemDrawn(p)
    BY <1>1 DEF MemDrawn
  <2> QED
    BY <1>0, <1>1, <2>1, DataInvDraws
<1>11. ChainInv(more, pars)'
  BY <1>2, <1>3, <1>5, <1>6, <1>7, <1>9, <1>d DEF ChainInv
<1> QED
  BY <1>10, <1>11

\* A step that leaves the queue alone keeps the invariant.
LEMMA ChainInvStays ==
  ASSUME NEW CONSTANT lab, NEW CONSTANT par, ChainInv(lab, par),
         UNCHANGED <<scene, zero_copy, frames, queue, layout, fallback_image_written>>,
         mem'[Depth] = mem[Depth], DataInv(lab, par)'
  PROVE  ChainInv(lab, par)'
<1>1. QueueInv(lab, par)'
  BY DEF ChainInv, QueueInv
<1>2. CamInv(lab, par)' /\ WinInv(Left(lab), par, frames)'
  BY DEF ChainInv, CamInv
<1>3. scene' = "vk" => LayoutInv(Left(lab), par)' /\ UploadInv(Left(lab), par)'
  BY DEF ChainInv, LayoutInv, UploadInv
<1>4. DepthInv(Left(lab), par)'
  BY DEF ChainInv, DepthInv
<1> QED
  BY <1>1, <1>2, <1>3, <1>4 DEF ChainInv

\* The queue is always what is left of the frames recorded, whatever order the GPU picks
\* within the barriers that scene_cam_vk.c and vk_present.c record, and the parts of ChainInv hold.
THEOREM ChainInvAlways == Spec => [](Basics /\ \E lab, par : ChainInv(lab, par))
<1> DEFINE I == Basics /\ \E lab, par : ChainInv(lab, par)
<1>1. Init => I
  BY ChainInvInit
<1>2. I /\ [Next]_vars => I'
  <2> SUFFICES ASSUME Basics, NEW CONSTANT lab, NEW CONSTANT par, ChainInv(lab, par), [Next]_vars
               PROVE  Basics' /\ \E l, q : ChainInv(l, q)'
    OBVIOUS
  <2>1. CASE Draw
    BY <2>1, ChainInvDraws
  <2>2. CASE Finish
    BY <2>2, ChainInvFinishes
  <2>3. ASSUME NEW CONSTANT i \in DOMAIN queue, Execute(i)
        PROVE  Basics' /\ \E l, q : ChainInv(l, q)'
    BY <2>3, ChainInvExecutes
  <2>4. ASSUME NEW CONSTANT b \in Bufs, CameraTakes(b)
        PROVE  Basics' /\ \E l, q : ChainInv(l, q)'
    <3>1. /\ UNCHANGED <<scene, zero_copy, frames, queue, layout, fallback_image_written>>
          /\ mem' = [mem EXCEPT ![Cam(b)] = <<pics + 1>>] /\ latest' = b
      BY <2>4 DEF CameraTakes
    <3>2. Basics'
      <4>1. b \in 0 .. NBuf
        BY ChainAssumption DEF Bufs
      <4> QED
        BY <3>1, <4>1 DEF Basics
    <3>d. DataInv(lab, par)'
      BY <2>4, DataInvCamera DEF ChainInv
    <3>3. CASE scene # "shm"
      <4>1. Depth \in DOMAIN mem /\ Depth # Cam(b)
        BY <3>3, Images DEF Basics, Memory
      <4> QED
        BY <3>1, <3>2, <3>d, <4>1, ChainInvStays
    <3>4. CASE scene = "shm"
      <4>1. QueueInv(lab, par)' /\ CamInv(lab, par)' /\ WinInv(Left(lab), par, frames)'
        BY <3>1 DEF ChainInv, QueueInv, CamInv
      <4>2. DepthInv(Left(lab), par)'
        <5>1. Recorded(par, frames, scene, zero_copy) /\ Left(lab) \subseteq Program(par, frames)
          BY ClosedNow DEF ChainInv, Closed
        <5>2. \A x \in Left(lab) : The(par, x).op # "test"
          BY <3>4, <5>1, Tests
        <5> QED
          BY <5>2 DEF DepthInv
      <4> QED
        BY <3>1, <3>2, <3>4, <3>d, <4>1, <4>2 DEF ChainInv
    <3> QED
      BY <3>3, <3>4
  <2>5. ASSUME NEW CONSTANT w \in Window, Returned(w)
        PROVE  Basics' /\ \E l, q : ChainInv(l, q)'
    <3>1. UNCHANGED <<scene, zero_copy, latest, frames, queue, mem, layout, fallback_image_written>>
      BY <2>5 DEF Returned, camVars
    <3>2. ChainInv(lab, par)'
      <4>1. DataInv(lab, par)'
        BY <3>1, DataInvStays DEF ChainInv
      <4> QED
        BY <3>1, <4>1, ChainInvStays
    <3> QED
      BY <3>1, <3>2 DEF Basics
  <2>6. CASE UNCHANGED vars
    <3>1. UNCHANGED <<scene, zero_copy, latest, frames, queue, mem, layout, fallback_image_written>>
      BY <2>6 DEF vars, camVars
    <3>2. ChainInv(lab, par)'
      <4>1. DataInv(lab, par)'
        BY <3>1, DataInvStays DEF ChainInv
      <4> QED
        BY <3>1, <4>1, ChainInvStays
    <3> QED
      BY <3>1, <3>2 DEF Basics
  <2>7. CASE Ended
    BY <2>6, <2>7 DEF Ended
  <2> QED
    BY <2>1, <2>2, <2>3, <2>4, <2>5, <2>6, <2>7 DEF Next
<1> QED
  BY <1>1, <1>2, PTL DEF Spec

\* What the invariant says of the commands that could be executed now.
LEMMA ChainInvGives ==
  (Basics /\ \E lab, par : ChainInv(lab, par)) =>
    BackWithCamera /\ LayoutsMatch /\ DepthIsOwn /\ ShownIsChain
<1> SUFFICES ASSUME NEW CONSTANT lab, NEW CONSTANT par, ChainInv(lab, par)
             PROVE  BackWithCamera /\ LayoutsMatch /\ DepthIsOwn /\ ShownIsChain
  OBVIOUS
<1>1. QueueInv(lab, par) /\ CamInv(lab, par) /\ WinInv(Left(lab), par, frames) /\ DepthInv(Left(lab), par)
      /\ (scene = "vk" => LayoutInv(Left(lab), par)) /\ DataInv(lab, par)
  BY DEF ChainInv
<1> QED
  BY <1>1, CamInvGives, LayoutInvGives, DepthInvGives, DataInvGives

\* For any number of buffers, lanes and window images: when the camera gets a buffer, the
\* release barrier of cam_record has been executed for every frame that read it.
THEOREM BackWithCameraAlways == Spec => []BackWithCamera
BY ChainInvAlways, ChainInvGives, PTL

\* For any number of buffers, lanes and window images: the barriers that scene_cam_vk.c and
\* vk_present.c record bring every image but the camera's into the layout that the next
\* command expects, although two frames are in flight and the scratch, upload and depth
\* images are shared between them.
THEOREM LayoutsMatchAlways == Spec => []LayoutsMatch
BY ChainInvAlways, ChainInvGives, PTL

\* For any number of buffers, lanes and window images: no draw of another frame gets
\* between the clear of the shared depth image and the tests of its draw.
THEOREM DepthIsOwnAlways == Spec => []DepthIsOwn
BY ChainInvAlways, ChainInvGives, PTL

\* For any number of buffers, lanes and window images, and whatever order the GPU picks
\* within the barriers: when a frame may end, its window image holds the camera's picture
\* that was the newest when the frame was drawn, with the effects that were on applied in
\* the order of effect_chain.h, although the scratch images, the upload image and the
\* staging buffers are reused under the frames in flight; and the same for the GLES and the
\* CPU scene.
THEOREM ShownIsChainAlways == Spec => []ShownIsChain
BY ChainInvAlways, ChainInvGives, PTL
====
