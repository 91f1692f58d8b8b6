---------------------------- MODULE MemoryProofs ----------------------------
(***************************************************************************)
(* Who owns memory, for any number of tasks, harts, frames, pages, cells,  *)
(* descriptors, sectors and slots of the cache.  A frame is in one place   *)
(* at a time: a task's space, a space that a hart builds or frees, the     *)
(* free frames, or those lost for good.  Every step moves frames from one  *)
(* place to another, and the inductive invariant says of each space enough *)
(* to know that what a step moves was in the place it is taken from, once. *)
(* The same is shown of the heap's cells, which implement Arena, and of    *)
(* pipes and open files; last, of BlkDev, that the cache holds what the    *)
(* device holds and the driver has one request in flight.                  *)
(***************************************************************************)
EXTENDS MCMemory, BlkDev, FiniteSetTheorems, SequenceTheorems, NaturalsInduction, WellFoundedInduction,
        TLAPS

MaybeFrames == 0 .. NFrames
FramePlaces == {RootFrame, TrapFrame, TrapTable} \cup KernelTables \cup UserPages

Regions     == {Region(p) : p \in UserPages}
SpaceType ==
    [root : MaybeFrames, tabs : SUBSET Frames, regs : SUBSET Regions,
     tf : MaybeFrames, leaf : [UserPages -> MaybeFrames]]
JobType ==
    [op : {"none", "fork", "exec", "reap"}, child : Tasks \cup {Nobody},
     space : SpaceType, left : SUBSET FramePlaces]

TypeOK ==
    /\ freeFrames \subseteq Frames /\ leaked \subseteq Frames
    /\ st \in [Tasks -> {"none", "ready", "running", "zombie"}]
    /\ space \in [Tasks -> SpaceType]
    /\ brk \in [Tasks -> Nat] /\ mbase \in [Tasks -> 0 .. StackPage]
    /\ mode \in [Harts -> {"user", "idle", "build", "flush", "reap", "leave"}]
    /\ cur \in [Harts -> Tasks \cup {Nobody}]
    /\ job \in [Harts -> JobType]
    /\ satp \in [Harts -> MaybeFrames]
    /\ tlb \in [Harts -> SUBSET (UserPages \X Frames)]

----------------------------------------------------------------------------
(* Where a frame is *)

Pool == <<"free", 0>>
Lost == <<"lost", 0>>
Of(t) == <<"task", t>>
By(h) == <<"hart", h>>
Spots == {Pool, Lost} \cup {Of(t) : t \in Tasks} \cup {By(h) : h \in Harts}

\* What each spot holds.
Held(sp, jb, fr, lk) ==
    [x \in Spots |->
      IF x[1] = "free" THEN fr
      ELSE IF x[1] = "lost" THEN lk
      ELSE IF x[1] = "task" THEN OwnedBy(sp[x[2]])
      ELSE OwnedBy(jb[x[2]].space)]

\* Each frame is in one spot.
Sorted(H) == \A f \in Frames : \E x \in Spots : \A y \in Spots : f \in H[y] <=> x = y

\* G is H with the frames of A moved from spot x to spot y.
Moved(G, H, x, y, A) ==
    /\ x \in Spots /\ y \in Spots /\ x # y
    /\ A \subseteq H[x]
    /\ G[x] = H[x] \ A /\ G[y] = H[y] \cup A
    /\ \A z \in Spots \ {x, y} : G[z] = H[z]

\* Within a space each frame has one use.
Neat(s) ==
    /\ \A p, q \in Mapped(s) : p # q => s.leaf[p] # s.leaf[q]
    /\ \A p \in Mapped(s) : s.leaf[p] \notin {s.root, s.tf} \cup s.tabs
    /\ s.tf # NoFrame => s.tf # s.root /\ s.tf \notin s.tabs
    /\ s.root \notin s.tabs

OneUse ==
    /\ \A t \in Tasks : Neat(space[t])
    /\ \A h \in Harts : Neat(job[h].space)

OneSpot == Sorted(Held(space, job, freeFrames, leaked))

----------------------------------------------------------------------------
(* Who is doing what *)

\* A hart in a program, or in a call of one, runs a task on that task's root.
OnItsRoot(h) ==
    IF mode[h] \in {"idle", "leave"} THEN cur[h] = Nobody /\ (mode[h] = "idle" => satp[h] = KernelRoot)
    ELSE /\ cur[h] \in Tasks /\ st[cur[h]] = "running"
         /\ satp[h] = space[cur[h]].root
         /\ \A g \in Harts \ {h} : cur[g] # cur[h]

\* A hart that builds or frees has what the call needs.
JobFits(h) ==
    LET j == job[h] IN
    /\ mode[h] = "build" <=> j.op \in {"fork", "exec"}
    /\ mode[h] = "reap" <=> j.op = "reap"
    /\ j.op = "none" => j = NoJob
    /\ j.op = "fork" => /\ j.child \in Tasks /\ st[j.child] = "none"
                        /\ \A g \in Harts \ {h} : job[g].child # j.child
    /\ j.op # "fork" => j.child = Nobody

\* What is left of a plan is not in the space yet, and the root, the kernel's
\* tables and the rest come in this order.
PlanFits(j) ==
    /\ RootFrame \in j.left <=> j.space.root = NoFrame
    /\ TrapFrame \in j.left => j.space.tf = NoFrame
    /\ \A p \in j.left \cap UserPages : j.space.leaf[p] = NoFrame
    /\ j.left \cap KernelTables # {} => j.space.tf = NoFrame /\ Mapped(j.space) = {}
    /\ j.op = "exec" => j.space.tf = NoFrame /\ TrapFrame \notin j.left

Control ==
    /\ \A h \in Harts : OnItsRoot(h) /\ JobFits(h)
    /\ \A h \in Harts : mode[h] = "build" => PlanFits(job[h])
    /\ \A t \in Tasks : st[t] = "none" => space[t] = EmptySpace
    /\ \A t \in Tasks : st[t] # "none" => space[t].root # NoFrame

\* A call that has not unmapped anything has not made a translation stale.
TlbFits(h) ==
    mode[h] \in {"user", "build", "reap"} =>
      \A e \in tlb[h] : space[cur[h]].leaf[e[1]] = e[2]

IInv == TypeOK /\ OneUse /\ OneSpot /\ Control /\ \A h \in Harts : TlbFits(h)

----------------------------------------------------------------------------
(* The operators of the model *)

NatOrder == {p \in Nat \X Nat : p[1] < p[2]}

LEMMA NatOrderWellFounded == IsWellFoundedOn(NatOrder, Nat)
BY NatLessThanWellFounded DEF OpToRel, NatOrder

\* The numbers the model looks for the least of are bounded below: there is one.
LEMMA FirstIsLeast ==
    ASSUME NEW S \in SUBSET Int, S # {}, \A i \in S : i >= -5
    PROVE  First(S) \in S /\ \A j \in S : First(S) <= j
<1> DEFINE N == {n \in Nat : n - 5 \in S}
<1>1. N \subseteq Nat /\ N # {}
  <2>1. PICK i \in S : TRUE
    OBVIOUS
  <2>2. i + 5 \in Nat /\ (i + 5) - 5 = i
    BY <2>1
  <2> QED BY <2>1, <2>2
<1> HIDE DEF N
<1>2. PICK n \in N : \A y \in N : <<y, n>> \notin NatOrder
  BY <1>1, NatOrderWellFounded, WFMin
<1>3. PICK i \in S : n = i + 5
  <2>1. n \in Nat /\ n - 5 \in S
    BY DEF N
  <2> QED BY <2>1
<1>4. \A j \in S : i <= j
  <2> SUFFICES ASSUME NEW j \in S, j < i PROVE FALSE
    OBVIOUS
  <2>1. j + 5 \in N /\ j + 5 \in Nat /\ n \in Nat /\ j + 5 < n
    BY <1>3 DEF N
  <2>2. <<j + 5, n>> \in NatOrder
    BY <2>1 DEF NatOrder
  <2> QED BY <2>1, <2>2, <1>2
<1>5. \E k \in S : \A j \in S : k <= j
  BY <1>4
<1> QED BY <1>5 DEF First

LEMMA Numbers ==
    /\ {NFrames, NPages, TableSpan} \subseteq Nat \ {0} /\ NPages > 2 /\ NFrames >= 9
    /\ Frames \subseteq Nat \ {0} /\ MaybeFrames = Frames \cup {NoFrame} /\ NoFrame \notin Frames
    /\ UserPages \subseteq Nat /\ ImagePage \in UserPages /\ StackPage \in UserPages
    /\ ImagePage # StackPage
    /\ FramePlaces \subseteq Int /\ \A i \in FramePlaces : i >= -5
    /\ task0 \in Tasks /\ Nobody \notin Tasks
BY AddrSpaceAssumption
   DEF Frames, MaybeFrames, NoFrame, UserPages, ImagePage, StackPage, FramePlaces, Nobody,
       RootFrame, TrapFrame, TrapTable, KernelTables

LEMMA PlacesDiffer ==
    /\ RootFrame # TrapFrame /\ RootFrame # TrapTable /\ TrapFrame # TrapTable
    /\ RootFrame \notin KernelTables /\ TrapFrame \notin KernelTables /\ TrapTable \notin KernelTables
    /\ \A i \in UserPages : i \notin {RootFrame, TrapFrame, TrapTable} \cup KernelTables
    /\ \A i \in KernelTables : RootFrame < i
    /\ \A k \in KernelTables : k < TrapFrame /\ k < TrapTable /\ \A i \in UserPages : k < i
<1>1. \A i \in UserPages : i >= 0
  BY DEF UserPages
<1> USE DEF RootFrame, TrapFrame, TrapTable, KernelTables
<1>2. \A i \in UserPages : i \notin {RootFrame, TrapFrame, TrapTable} \cup KernelTables
  BY <1>1
<1>3. \A k \in KernelTables, i \in UserPages : k < i
  BY <1>1, Numbers
<1>4. /\ RootFrame # TrapFrame /\ RootFrame # TrapTable /\ TrapFrame # TrapTable
      /\ RootFrame \notin KernelTables /\ TrapFrame \notin KernelTables /\ TrapTable \notin KernelTables
  OBVIOUS
<1>5. /\ \A i \in KernelTables : RootFrame < i
      /\ \A k \in KernelTables : k < TrapFrame /\ k < TrapTable
  OBVIOUS
<1> QED BY <1>2, <1>3, <1>4, <1>5

\* A frame that is free can be taken: the first one.
LEMMA FirstIsFree ==
    ASSUME NEW F \in SUBSET Frames, F # {}
    PROVE  First(F) \in F
<1>1. F \subseteq Int /\ \A i \in F : i >= -5
  BY Numbers
<1> QED BY <1>1, FirstIsLeast

\* A move of frames leaves each in one spot.
LEMMA MoveSorts ==
    ASSUME NEW G, NEW H, NEW x, NEW y, NEW A, Sorted(H), Moved(G, H, x, y, A)
    PROVE  Sorted(G)
<1> SUFFICES ASSUME NEW f \in Frames PROVE \E u \in Spots : \A v \in Spots : f \in G[v] <=> u = v
  BY DEF Sorted
<1>1. PICK u \in Spots : \A v \in Spots : f \in H[v] <=> u = v
  BY DEF Sorted
<1>2. CASE f \in A
  <2>1. u = x
    BY <1>1, <1>2 DEF Moved
  <2>2. \A v \in Spots : f \in G[v] <=> y = v
    BY <1>1, <1>2, <2>1 DEF Moved
  <2> QED BY <2>2 DEF Moved
<1>3. CASE f \notin A
  <2>1. \A v \in Spots : f \in G[v] <=> u = v
    BY <1>1, <1>3 DEF Moved
  <2> QED BY <2>1
<1> QED BY <1>2, <1>3

\* What is where, spot by spot.
LEMMA HeldAt ==
    ASSUME NEW sp, NEW jb, NEW fr, NEW lk
    PROVE  LET H == Held(sp, jb, fr, lk) IN
           /\ H[Pool] = fr /\ Pool \in Spots
           /\ H[Lost] = lk /\ Lost \in Spots
           /\ \A t \in Tasks : H[Of(t)] = OwnedBy(sp[t]) /\ Of(t) \in Spots
           /\ \A h \in Harts : H[By(h)] = OwnedBy(jb[h].space) /\ By(h) \in Spots
BY DEF Held, Pool, Lost, Of, By, Spots

LEMMA SpotsDiffer ==
    /\ Pool # Lost
    /\ \A t \in Tasks : Of(t) # Pool /\ Of(t) # Lost
    /\ \A h \in Harts : By(h) # Pool /\ By(h) # Lost
    /\ \A t \in Tasks, h \in Harts : Of(t) # By(h)
    /\ \A t, u \in Tasks : Of(t) = Of(u) => t = u
    /\ \A g, h \in Harts : By(g) = By(h) => g = h
    /\ \A x \in Spots : x = Pool \/ x = Lost \/ (\E t \in Tasks : x = Of(t)) \/ (\E h \in Harts : x = By(h))
BY DEF Pool, Lost, Of, By, Spots

----------------------------------------------------------------------------
(* One space *)

LEMMA OwnedIs ==
    ASSUME NEW s \in SpaceType
    PROVE  /\ OwnedBy(s) \subseteq Frames
           /\ \A f \in Frames : f \in OwnedBy(s) <=>
                f = s.root \/ f = s.tf \/ f \in s.tabs \/ \E p \in UserPages : s.leaf[p] = f
BY Numbers DEF OwnedBy, UnderRoot, SpaceType

LEMMA EmptyIsNeat ==
    EmptySpace \in SpaceType /\ Neat(EmptySpace) /\ OwnedBy(EmptySpace) = {}
BY Numbers DEF EmptySpace, SpaceType, Neat, OwnedBy, UnderRoot, Mapped

LEMMA FirstSpaceIsNeat ==
    FirstSpace \in SpaceType /\ Neat(FirstSpace) /\ FirstSpace.root # NoFrame
<1>1. {1, 2, 3, 4, 5, 6, 7, 8, 9} \subseteq Frames
  BY Numbers DEF Frames
<1>2. FirstSpace \in SpaceType
  BY <1>1, Numbers DEF FirstSpace, SpaceType, Regions
<1>3. /\ Mapped(FirstSpace) = {ImagePage, StackPage}
      /\ FirstSpace.leaf[ImagePage] = 5 /\ FirstSpace.leaf[StackPage] = 7
  BY Numbers DEF FirstSpace, Mapped, NoFrame
<1>4. Neat(FirstSpace)
  BY <1>3 DEF Neat, FirstSpace, NoFrame
<1> QED BY <1>2, <1>4 DEF FirstSpace, NoFrame

\* Space z is s with frame f in a place that had none.
Grown(z, s, f) ==
    /\ z \in SpaceType
    /\ \/ z.tabs = s.tabs \cup {f} /\ z.root = s.root /\ z.tf = s.tf /\ z.leaf = s.leaf
       \/ s.root = NoFrame /\ z.root = f /\ z.tabs = s.tabs /\ z.tf = s.tf /\ z.leaf = s.leaf
       \/ s.tf = NoFrame /\ z.tf = f /\ z.root = s.root /\ z.tabs = s.tabs /\ z.leaf = s.leaf
       \/ /\ z.root = s.root /\ z.tabs = s.tabs /\ z.tf = s.tf
          /\ \E p \in UserPages : s.leaf[p] = NoFrame /\ z.leaf = [s.leaf EXCEPT ![p] = f]

LEMMA GrownIsNeat ==
    ASSUME NEW s \in SpaceType, NEW z, NEW f \in Frames, Neat(s), f \notin OwnedBy(s), Grown(z, s, f)
    PROVE  Neat(z) /\ OwnedBy(z) = OwnedBy(s) \cup {f}
<1>1. z \in SpaceType /\ f # NoFrame
  BY Numbers DEF Grown
<1>2. f # s.root /\ f # s.tf /\ f \notin s.tabs /\ \A p \in UserPages : s.leaf[p] # f
  BY OwnedIs
<1>3. s.root \in MaybeFrames /\ s.tf \in MaybeFrames /\ s.tabs \subseteq Frames
      /\ s.leaf \in [UserPages -> MaybeFrames]
  BY DEF SpaceType
<1>4. Neat(z)
  <2>1. ASSUME NEW p \in UserPages, s.leaf[p] = NoFrame, z.leaf = [s.leaf EXCEPT ![p] = f],
               z.root = s.root, z.tabs = s.tabs, z.tf = s.tf
        PROVE  Neat(z)
    <3>1. z.leaf[p] = f /\ \A q \in UserPages \ {p} : z.leaf[q] = s.leaf[q]
      BY <2>1, <1>3
    <3>2. Mapped(z) = Mapped(s) \cup {p} /\ p \notin Mapped(s)
      BY <1>1, <2>1, <3>1 DEF Mapped
    <3>3. \A q \in Mapped(s) : q # p /\ z.leaf[q] = s.leaf[q] /\ z.leaf[q] # f
      BY <3>1, <3>2, <1>2 DEF Mapped
    <3> QED BY <2>1, <3>1, <3>2, <3>3, <1>2 DEF Neat
  <2>2. ASSUME z.leaf = s.leaf PROVE Mapped(z) = Mapped(s) /\ \A p \in Mapped(s) : z.leaf[p] # f
    BY <1>2, <2>2 DEF Mapped
  <2>3. CASE z.tabs = s.tabs \cup {f} /\ z.root = s.root /\ z.tf = s.tf /\ z.leaf = s.leaf
    BY <2>2, <2>3, <1>2 DEF Neat
  <2>4. CASE s.root = NoFrame /\ z.root = f /\ z.tabs = s.tabs /\ z.tf = s.tf /\ z.leaf = s.leaf
    BY <2>2, <2>4, <1>2 DEF Neat
  <2>5. CASE s.tf = NoFrame /\ z.tf = f /\ z.root = s.root /\ z.tabs = s.tabs /\ z.leaf = s.leaf
    BY <2>2, <2>5, <1>2 DEF Neat
  <2> QED BY <2>1, <2>3, <2>4, <2>5 DEF Grown
<1>5. \A g \in Frames : g \in OwnedBy(z) <=> g \in OwnedBy(s) \/ g = f
  <2> SUFFICES ASSUME NEW g \in Frames
               PROVE  (g = z.root \/ g = z.tf \/ g \in z.tabs \/ \E p \in UserPages : z.leaf[p] = g)
                      <=> (g = s.root \/ g = s.tf \/ g \in s.tabs \/ (\E p \in UserPages : s.leaf[p] = g)
                           \/ g = f)
    BY <1>1, OwnedIs
  <2>1. CASE \E p \in UserPages : s.leaf[p] = NoFrame /\ z.leaf = [s.leaf EXCEPT ![p] = f]
    <3>1. PICK p \in UserPages : s.leaf[p] = NoFrame /\ z.leaf = [s.leaf EXCEPT ![p] = f]
      BY <2>1
    <3>2. z.leaf[p] = f /\ \A q \in UserPages \ {p} : z.leaf[q] = s.leaf[q]
      BY <3>1, <1>3
    <3>3. (\E q \in UserPages : z.leaf[q] = g) <=> (\E q \in UserPages : s.leaf[q] = g) \/ g = f
      BY <3>1, <3>2, Numbers
    <3>4. z.root = s.root /\ z.tabs = s.tabs /\ z.tf = s.tf
      <4>1. z.leaf # s.leaf
        BY <3>1, <3>2, <1>1
      <4> QED BY <4>1 DEF Grown
    <3> QED BY <3>3, <3>4
  <2>2. CASE ~ \E p \in UserPages : s.leaf[p] = NoFrame /\ z.leaf = [s.leaf EXCEPT ![p] = f]
    <3>1. z.leaf = s.leaf
      BY <2>2 DEF Grown
    <3> QED BY <2>2, <3>1, Numbers DEF Grown
  <2> QED BY <2>1, <2>2
<1>6. OwnedBy(z) \subseteq Frames /\ OwnedBy(s) \subseteq Frames
  BY <1>1, OwnedIs
<1> QED BY <1>4, <1>5, <1>6

\* What BuildStep adds: one frame, in a place that was left.
LEMMA WithFrameGrows ==
    ASSUME NEW s \in SpaceType, NEW f \in Frames, NEW i \in FramePlaces,
           i = RootFrame => s.root = NoFrame,
           i = TrapFrame => s.tf = NoFrame,
           i \in UserPages => s.leaf[i] = NoFrame
    PROVE  LET z == WithFrame(s, i, f) IN
           /\ Grown(z, s, f)
           /\ z.root = IF i = RootFrame THEN f ELSE s.root
           /\ z.tf = IF i = TrapFrame THEN f ELSE s.tf
           /\ z.leaf = IF i \in UserPages /\ ~NeedsTable(s, i) THEN [s.leaf EXCEPT ![i] = f] ELSE s.leaf
<1> DEFINE z == WithFrame(s, i, f)
<1> USE PlacesDiffer
<1>0. Frames \subseteq MaybeFrames
  BY Numbers
<1>1. CASE i = RootFrame
  <2>1. i # TrapFrame /\ i \notin UserPages
    BY <1>1
  <2>2. z = [s EXCEPT !.root = f]
    BY <1>1, <2>1 DEF WithFrame, NeedsTable
  <2> QED BY <1>0, <1>1, <2>1, <2>2 DEF Grown, SpaceType
<1>2. CASE i = TrapFrame
  <2>1. i # RootFrame /\ i \notin UserPages
    BY <1>2
  <2>2. z = [s EXCEPT !.tf = f]
    BY <1>2, <2>1 DEF WithFrame, NeedsTable
  <2> QED BY <1>0, <1>2, <2>1, <2>2 DEF Grown, SpaceType
<1>3. CASE i \in KernelTables \cup {TrapTable}
  <2>1. i \notin {RootFrame, TrapFrame} /\ i \notin UserPages
    BY <1>3
  <2>2. z = [s EXCEPT !.tabs = @ \cup {f}]
    BY <1>3, <2>1 DEF WithFrame, NeedsTable
  <2> QED BY <2>1, <2>2 DEF Grown, SpaceType
<1>4. CASE i \in UserPages
  <2>1. i \notin {RootFrame, TrapFrame, TrapTable} \cup KernelTables
    BY <1>4
  <2>2. CASE NeedsTable(s, i)
    <3>1. z = [s EXCEPT !.tabs = @ \cup {f}, !.regs = @ \cup {Region(i)}]
      BY <2>1, <2>2 DEF WithFrame
    <3>2. z \in SpaceType
      <4>1. Region(i) \in Regions
        BY <1>4 DEF Regions
      <4>2. s.tabs \cup {f} \in SUBSET Frames /\ s.regs \cup {Region(i)} \in SUBSET Regions
        BY <4>1 DEF SpaceType
      <4>3. ASSUME NEW T \in SUBSET Frames, NEW R \in SUBSET Regions
            PROVE  [s EXCEPT !.tabs = T, !.regs = R] \in SpaceType
        BY DEF SpaceType
      <4>4. [s EXCEPT !.tabs = s.tabs \cup {f}, !.regs = s.regs \cup {Region(i)}] \in SpaceType
        BY <4>2, <4>3
      <4> QED BY <3>1, <4>4
    <3>3. z.tabs = s.tabs \cup {f} /\ z.root = s.root /\ z.tf = s.tf /\ z.leaf = s.leaf
      BY <3>1 DEF SpaceType
    <3> QED BY <2>1, <2>2, <3>2, <3>3 DEF Grown
  <2>3. CASE ~NeedsTable(s, i)
    <3>1. z = [s EXCEPT !.leaf[i] = f]
      BY <2>1, <2>3 DEF WithFrame
    <3>2. z.leaf = [s.leaf EXCEPT ![i] = f] /\ z.tabs = s.tabs /\ z.root = s.root /\ z.tf = s.tf
      BY <3>1 DEF SpaceType
    <3>3. z \in SpaceType
      BY <1>0, <3>1, <1>4 DEF SpaceType
    <3> QED BY <1>4, <2>1, <2>3, <3>2, <3>3 DEF Grown
  <2> QED BY <2>2, <2>3
<1> QED BY <1>1, <1>2, <1>3, <1>4 DEF FramePlaces

----------------------------------------------------------------------------
(* Frames on the move *)

InOneSpot(sp, jb, fr, lk) ==
    /\ sp \in [Tasks -> SpaceType] /\ jb \in [Harts -> JobType]
    /\ fr \in SUBSET Frames /\ lk \in SUBSET Frames
    /\ Sorted(Held(sp, jb, fr, lk))

\* What spots hold is disjoint.
LEMMA Apart ==
    ASSUME NEW sp, NEW jb, NEW fr, NEW lk, InOneSpot(sp, jb, fr, lk)
    PROVE  LET H == Held(sp, jb, fr, lk) IN
           /\ \A x \in Spots : H[x] \subseteq Frames
           /\ \A x, y \in Spots : x # y => H[x] \cap H[y] = {}
<1> DEFINE H == Held(sp, jb, fr, lk)
<1>1. /\ H[Pool] = fr /\ H[Lost] = lk
      /\ \A t \in Tasks : H[Of(t)] = OwnedBy(sp[t])
      /\ \A h \in Harts : H[By(h)] = OwnedBy(jb[h].space)
  BY HeldAt
<1>2. (\A t \in Tasks : OwnedBy(sp[t]) \subseteq Frames) /\ \A h \in Harts : OwnedBy(jb[h].space) \subseteq Frames
  BY OwnedIs DEF InOneSpot, JobType
<1>3. Sorted(H) /\ fr \subseteq Frames /\ lk \subseteq Frames
  BY DEF InOneSpot
<1> HIDE DEF H
<1>4. \A x \in Spots : H[x] \subseteq Frames
  BY <1>1, <1>2, <1>3, SpotsDiffer
<1>5. \A x, y \in Spots : x # y => H[x] \cap H[y] = {}
  <2> SUFFICES ASSUME NEW x \in Spots, NEW y \in Spots, NEW f, f \in H[x], f \in H[y] PROVE x = y
    OBVIOUS
  <2>1. f \in Frames
    BY <1>4
  <2>2. PICK u \in Spots : \A v \in Spots : f \in H[v] <=> u = v
    BY <2>1, <1>3 DEF Sorted
  <2> QED BY <2>2
<1> QED BY <1>4, <1>5 DEF H

\* A step that changes what one task has.
LEMMA TaskChanges ==
    ASSUME NEW sp, NEW jb, NEW fr, NEW lk, NEW t \in Tasks, NEW z \in SpaceType, InOneSpot(sp, jb, fr, lk)
    PROVE  /\ \A A \in SUBSET fr : OwnedBy(z) = OwnedBy(sp[t]) \cup A
                => InOneSpot([sp EXCEPT ![t] = z], jb, fr \ A, lk)
           /\ \A A \in SUBSET OwnedBy(sp[t]) : OwnedBy(z) = OwnedBy(sp[t]) \ A
                => InOneSpot([sp EXCEPT ![t] = z], jb, fr \cup A, lk)
           /\ \A A \in SUBSET OwnedBy(sp[t]) : OwnedBy(z) = OwnedBy(sp[t]) \ A
                => InOneSpot([sp EXCEPT ![t] = z], jb, fr, lk \cup A)
<1> DEFINE s2 == [sp EXCEPT ![t] = z]
           H == Held(sp, jb, fr, lk)
<1>1. /\ H[Pool] = fr /\ H[Lost] = lk
      /\ \A u \in Tasks : H[Of(u)] = OwnedBy(sp[u])
      /\ \A h \in Harts : H[By(h)] = OwnedBy(jb[h].space)
  BY HeldAt
<1>2. s2 \in [Tasks -> SpaceType] /\ s2[t] = z /\ (\A u \in Tasks \ {t} : s2[u] = sp[u])
  BY DEF InOneSpot
<1>3. Sorted(H) /\ fr \subseteq Frames /\ lk \subseteq Frames /\ jb \in [Harts -> JobType]
  BY DEF InOneSpot
<1>4. OwnedBy(sp[t]) \subseteq Frames
  BY OwnedIs DEF InOneSpot
<1>5. Of(t) \in Spots /\ Pool \in Spots /\ Lost \in Spots
  BY HeldAt
<1> HIDE DEF s2, H
<1>6. ASSUME NEW A, A \subseteq fr, OwnedBy(z) = OwnedBy(sp[t]) \cup A
      PROVE  InOneSpot(s2, jb, fr \ A, lk)
  <2> DEFINE G == Held(s2, jb, fr \ A, lk)
  <2>1. /\ G[Pool] = fr \ A /\ G[Lost] = lk
        /\ \A u \in Tasks : G[Of(u)] = OwnedBy(s2[u])
        /\ \A h \in Harts : G[By(h)] = OwnedBy(jb[h].space)
    BY HeldAt
  <2> HIDE DEF G
  <2>2. Moved(G, H, Pool, Of(t), A)
    BY <1>1, <1>2, <1>5, <1>6, <2>1, SpotsDiffer DEF Moved
  <2>3. Sorted(G)
    BY <2>2, <1>3, MoveSorts
  <2> QED BY <2>3, <1>2, <1>3 DEF InOneSpot, G
<1>7. ASSUME NEW A, A \subseteq OwnedBy(sp[t]), OwnedBy(z) = OwnedBy(sp[t]) \ A
      PROVE  InOneSpot(s2, jb, fr \cup A, lk)
  <2> DEFINE G == Held(s2, jb, fr \cup A, lk)
  <2>1. /\ G[Pool] = fr \cup A /\ G[Lost] = lk
        /\ \A u \in Tasks : G[Of(u)] = OwnedBy(s2[u])
        /\ \A h \in Harts : G[By(h)] = OwnedBy(jb[h].space)
    BY HeldAt
  <2> HIDE DEF G
  <2>2. Moved(G, H, Of(t), Pool, A)
    BY <1>1, <1>2, <1>5, <1>7, <2>1, SpotsDiffer DEF Moved
  <2>3. Sorted(G)
    BY <2>2, <1>3, MoveSorts
  <2> QED BY <2>3, <1>2, <1>3, <1>4, <1>7 DEF InOneSpot, G
<1>8. ASSUME NEW A, A \subseteq OwnedBy(sp[t]), OwnedBy(z) = OwnedBy(sp[t]) \ A
      PROVE  InOneSpot(s2, jb, fr, lk \cup A)
  <2> DEFINE G == Held(s2, jb, fr, lk \cup A)
  <2>1. /\ G[Pool] = fr /\ G[Lost] = lk \cup A
        /\ \A u \in Tasks : G[Of(u)] = OwnedBy(s2[u])
        /\ \A h \in Harts : G[By(h)] = OwnedBy(jb[h].space)
    BY HeldAt
  <2> HIDE DEF G
  <2>2. Moved(G, H, Of(t), Lost, A)
    BY <1>1, <1>2, <1>5, <1>8, <2>1, SpotsDiffer DEF Moved
  <2>3. Sorted(G)
    BY <2>2, <1>3, MoveSorts
  <2> QED BY <2>3, <1>2, <1>3, <1>4, <1>8 DEF InOneSpot, G
<1> QED BY <1>6, <1>7, <1>8 DEF s2

\* A step that changes what one hart builds or frees.
LEMMA JobChanges ==
    ASSUME NEW sp, NEW jb, NEW fr, NEW lk, NEW h \in Harts, NEW k \in JobType, InOneSpot(sp, jb, fr, lk)
    PROVE  /\ \A A \in SUBSET fr : OwnedBy(k.space) = OwnedBy(jb[h].space) \cup A
                => InOneSpot(sp, [jb EXCEPT ![h] = k], fr \ A, lk)
           /\ \A A \in SUBSET OwnedBy(jb[h].space) : OwnedBy(k.space) = OwnedBy(jb[h].space) \ A
                => InOneSpot(sp, [jb EXCEPT ![h] = k], fr \cup A, lk)
           /\ \A A \in SUBSET OwnedBy(jb[h].space) : OwnedBy(k.space) = OwnedBy(jb[h].space) \ A
                => InOneSpot(sp, [jb EXCEPT ![h] = k], fr, lk \cup A)
<1> DEFINE j2 == [jb EXCEPT ![h] = k]
           H == Held(sp, jb, fr, lk)
<1>1. /\ H[Pool] = fr /\ H[Lost] = lk
      /\ \A u \in Tasks : H[Of(u)] = OwnedBy(sp[u])
      /\ \A g \in Harts : H[By(g)] = OwnedBy(jb[g].space)
  BY HeldAt
<1>2. j2 \in [Harts -> JobType] /\ j2[h] = k /\ (\A g \in Harts \ {h} : j2[g] = jb[g])
  BY DEF InOneSpot
<1>3. Sorted(H) /\ fr \subseteq Frames /\ lk \subseteq Frames /\ sp \in [Tasks -> SpaceType]
  BY DEF InOneSpot
<1>4. OwnedBy(jb[h].space) \subseteq Frames
  BY OwnedIs DEF InOneSpot, JobType
<1>5. By(h) \in Spots /\ Pool \in Spots /\ Lost \in Spots
  BY HeldAt
<1> HIDE DEF j2, H
<1>6. ASSUME NEW A, A \subseteq fr, OwnedBy(k.space) = OwnedBy(jb[h].space) \cup A
      PROVE  InOneSpot(sp, j2, fr \ A, lk)
  <2> DEFINE G == Held(sp, j2, fr \ A, lk)
  <2>1. /\ G[Pool] = fr \ A /\ G[Lost] = lk
        /\ \A u \in Tasks : G[Of(u)] = OwnedBy(sp[u])
        /\ \A g \in Harts : G[By(g)] = OwnedBy(j2[g].space)
    BY HeldAt
  <2> HIDE DEF G
  <2>2. Moved(G, H, Pool, By(h), A)
    BY <1>1, <1>2, <1>5, <1>6, <2>1, SpotsDiffer DEF Moved
  <2>3. Sorted(G)
    BY <2>2, <1>3, MoveSorts
  <2> QED BY <2>3, <1>2, <1>3 DEF InOneSpot, G
<1>7. ASSUME NEW A, A \subseteq OwnedBy(jb[h].space), OwnedBy(k.space) = OwnedBy(jb[h].space) \ A
      PROVE  InOneSpot(sp, j2, fr \cup A, lk)
  <2> DEFINE G == Held(sp, j2, fr \cup A, lk)
  <2>1. /\ G[Pool] = fr \cup A /\ G[Lost] = lk
        /\ \A u \in Tasks : G[Of(u)] = OwnedBy(sp[u])
        /\ \A g \in Harts : G[By(g)] = OwnedBy(j2[g].space)
    BY HeldAt
  <2> HIDE DEF G
  <2>2. Moved(G, H, By(h), Pool, A)
    BY <1>1, <1>2, <1>5, <1>7, <2>1, SpotsDiffer DEF Moved
  <2>3. Sorted(G)
    BY <2>2, <1>3, MoveSorts
  <2> QED BY <2>3, <1>2, <1>3, <1>4, <1>7 DEF InOneSpot, G
<1>8. ASSUME NEW A, A \subseteq OwnedBy(jb[h].space), OwnedBy(k.space) = OwnedBy(jb[h].space) \ A
      PROVE  InOneSpot(sp, j2, fr, lk \cup A)
  <2> DEFINE G == Held(sp, j2, fr, lk \cup A)
  <2>1. /\ G[Pool] = fr /\ G[Lost] = lk \cup A
        /\ \A u \in Tasks : G[Of(u)] = OwnedBy(sp[u])
        /\ \A g \in Harts : G[By(g)] = OwnedBy(j2[g].space)
    BY HeldAt
  <2> HIDE DEF G
  <2>2. Moved(G, H, By(h), Lost, A)
    BY <1>1, <1>2, <1>5, <1>8, <2>1, SpotsDiffer DEF Moved
  <2>3. Sorted(G)
    BY <2>2, <1>3, MoveSorts
  <2> QED BY <2>3, <1>2, <1>3, <1>4, <1>8 DEF InOneSpot, G
<1> QED BY <1>6, <1>7, <1>8 DEF j2

\* A space changes hands between a task and a hart.
LEMMA Handover ==
    ASSUME NEW sp, NEW jb, NEW fr, NEW lk, NEW t \in Tasks, NEW h \in Harts,
           NEW z \in SpaceType, NEW k \in JobType, InOneSpot(sp, jb, fr, lk)
    PROVE  /\ OwnedBy(k.space) = {} /\ OwnedBy(z) = OwnedBy(sp[t]) \cup OwnedBy(jb[h].space)
                => InOneSpot([sp EXCEPT ![t] = z], [jb EXCEPT ![h] = k], fr, lk)
           /\ OwnedBy(z) = {} /\ OwnedBy(k.space) = OwnedBy(sp[t]) \cup OwnedBy(jb[h].space)
                => InOneSpot([sp EXCEPT ![t] = z], [jb EXCEPT ![h] = k], fr, lk)
<1> DEFINE s2 == [sp EXCEPT ![t] = z]
           j2 == [jb EXCEPT ![h] = k]
           H == Held(sp, jb, fr, lk)
<1>1. /\ H[Pool] = fr /\ H[Lost] = lk
      /\ \A u \in Tasks : H[Of(u)] = OwnedBy(sp[u])
      /\ \A g \in Harts : H[By(g)] = OwnedBy(jb[g].space)
  BY HeldAt
<1>2. /\ s2 \in [Tasks -> SpaceType] /\ s2[t] = z /\ \A u \in Tasks \ {t} : s2[u] = sp[u]
      /\ j2 \in [Harts -> JobType] /\ j2[h] = k /\ \A g \in Harts \ {h} : j2[g] = jb[g]
  BY DEF InOneSpot
<1> HIDE DEF s2, j2
<1> DEFINE G == Held(s2, j2, fr, lk)
<1>3. /\ G[Pool] = fr /\ G[Lost] = lk
      /\ \A u \in Tasks : G[Of(u)] = OwnedBy(s2[u])
      /\ \A g \in Harts : G[By(g)] = OwnedBy(j2[g].space)
  BY HeldAt
<1>4. Sorted(H) /\ fr \subseteq Frames /\ lk \subseteq Frames
  BY DEF InOneSpot
<1>5. By(h) \in Spots /\ Of(t) \in Spots
  BY HeldAt
<1>6. H[Of(t)] \cap H[By(h)] = {}
  BY <1>5, SpotsDiffer, Apart
<1> HIDE DEF H, G
<1>7. ASSUME Sorted(G) PROVE InOneSpot(s2, j2, fr, lk)
  BY <1>2, <1>4, <1>7 DEF InOneSpot, G
<1>8. CASE OwnedBy(k.space) = {} /\ OwnedBy(z) = OwnedBy(sp[t]) \cup OwnedBy(jb[h].space)
  <2>1. Moved(G, H, By(h), Of(t), OwnedBy(jb[h].space))
    <3>1. OwnedBy(jb[h].space) = H[By(h)] /\ By(h) # Of(t)
      BY <1>1, SpotsDiffer
    <3>2. G[By(h)] = H[By(h)] \ OwnedBy(jb[h].space)
      BY <1>2, <1>3, <1>8, <3>1
    <3>3. G[Of(t)] = H[Of(t)] \cup OwnedBy(jb[h].space)
      BY <1>1, <1>2, <1>3, <1>8
    <3>4. ASSUME NEW x \in Spots, x # By(h), x # Of(t) PROVE G[x] = H[x]
      <4>1. CASE x = Pool \/ x = Lost
        BY <1>1, <1>3, <4>1
      <4>2. CASE \E u \in Tasks : x = Of(u)
        BY <1>1, <1>2, <1>3, <3>4, <4>2
      <4>3. CASE \E g \in Harts : x = By(g)
        BY <1>1, <1>2, <1>3, <3>4, <4>3
      <4> QED BY <4>1, <4>2, <4>3, SpotsDiffer
    <3> QED BY <1>5, <3>1, <3>2, <3>3, <3>4 DEF Moved
  <2> QED BY <2>1, <1>4, <1>7, MoveSorts DEF s2, j2
<1>9. CASE OwnedBy(z) = {} /\ OwnedBy(k.space) = OwnedBy(sp[t]) \cup OwnedBy(jb[h].space)
  <2>1. Moved(G, H, Of(t), By(h), OwnedBy(sp[t]))
    BY <1>1, <1>2, <1>3, <1>5, <1>9, SpotsDiffer DEF Moved
  <2> QED BY <2>1, <1>4, <1>7, MoveSorts DEF s2, j2
<1> QED BY <1>8, <1>9 DEF s2, j2

----------------------------------------------------------------------------
(* Pages mapped and unmapped *)

LEMMA Memory ==
    ASSUME TypeOK, OneSpot
    PROVE  InOneSpot(space, job, freeFrames, leaked)
BY DEF TypeOK, OneSpot, InOneSpot

\* Task t's space changes, its root and its trap frame do not, nor do the pages of K.
SpaceKept(t, K) ==
    /\ InOneSpot(space', job', freeFrames', leaked')
    /\ space'[t].root = space[t].root
    /\ \A p \in K : space'[t].leaf[p] = space[t].leaf[p]
    /\ \A u \in Tasks \ {t} : space'[u] = space[u]
    /\ Neat(space'[t])

\* A free frame goes into one more place of task t's space.
LEMMA TaskTakes ==
    ASSUME NEW sp, NEW jb, NEW fr, NEW lk, InOneSpot(sp, jb, fr, lk),
           NEW t \in Tasks, NEW f \in fr, NEW z, Neat(sp[t]), Grown(z, sp[t], f)
    PROVE  InOneSpot([sp EXCEPT ![t] = z], jb, fr \ {f}, lk) /\ Neat(z)
<1>1. sp[t] \in SpaceType /\ f \in Frames /\ z \in SpaceType
  BY DEF InOneSpot, Grown
<1>2. f \notin OwnedBy(sp[t])
  BY Apart, HeldAt, SpotsDiffer
<1>3. Neat(z) /\ OwnedBy(z) = OwnedBy(sp[t]) \cup {f}
  BY <1>1, <1>2, GrownIsNeat
<1> QED BY <1>1, <1>3, TaskChanges

LEMMA MapPageKeeps ==
    ASSUME NEW t \in Tasks, NEW p \in UserPages, TypeOK, OneSpot, Neat(space[t]),
           CanMap(space[t], p), MapPage(t, p), UNCHANGED <<job, leaked>>
    PROVE  SpaceKept(t, Mapped(space[t]))
<1> DEFINE s == space[t]
           f == First(freeFrames)
           g == First(freeFrames \ {f})
<1>0. InOneSpot(space, job, freeFrames, leaked)
  BY Memory
<1>1. s \in SpaceType /\ freeFrames \subseteq Frames /\ space \in [Tasks -> SpaceType]
  BY DEF TypeOK
<1>2. CASE p \in Mapped(s)
  BY <1>0, <1>2 DEF MapPage, SpaceKept
<1>3. CASE p \notin Mapped(s)
  <2>1. s.leaf[p] = NoFrame
    BY <1>3 DEF Mapped
  <2>2. f \in freeFrames
    <3>1. Cardinality(freeFrames) >= 1 \/ Cardinality(freeFrames) >= 2
      BY <1>3 DEF CanMap
    <3>2. freeFrames # {}
      BY <3>1, FS_EmptySet
    <3> QED BY <1>1, <3>2, FirstIsFree
  <2>3. f \in Frames /\ f \in MaybeFrames
    BY <1>1, <2>2, Numbers
  <2> HIDE DEF f, g
  <2> DEFINE z == [s EXCEPT !.leaf[p] = f]
  <2>4. /\ z \in SpaceType /\ z.leaf = [s.leaf EXCEPT ![p] = f]
        /\ z.root = s.root /\ z.tabs = s.tabs /\ z.tf = s.tf /\ z.regs = s.regs
    BY <1>1, <2>3 DEF SpaceType
  <2>5. Grown(z, s, f)
    BY <2>1, <2>4 DEF Grown
  <2>6. \A q \in Mapped(s) : z.leaf[q] = s.leaf[q]
    BY <1>1, <1>3, <2>4 DEF Mapped, SpaceType
  <2>7. InOneSpot([space EXCEPT ![t] = z], job, freeFrames \ {f}, leaked) /\ Neat(z)
    BY <1>0, <2>2, <2>5, TaskTakes
  <2>8. CASE Region(p) \in s.regs
    <3>1. space' = [space EXCEPT ![t] = z] /\ freeFrames' = freeFrames \ {f}
      BY <1>1, <1>3, <2>8 DEF MapPage, f
    <3>2. space'[t] = z /\ \A u \in Tasks \ {t} : space'[u] = space[u]
      BY <1>1, <3>1
    <3> QED BY <2>4, <2>6, <2>7, <3>1, <3>2 DEF SpaceKept
  <2>9. CASE Region(p) \notin s.regs
    <3> DEFINE y == [z EXCEPT !.tabs = @ \cup {g}, !.regs = @ \cup {Region(p)}]
               s1 == [space EXCEPT ![t] = z]
    <3>1. g \in freeFrames \ {f}
      <4>1. Cardinality(freeFrames) >= 2
        BY <1>3, <2>9 DEF CanMap
      <4>2. Cardinality({f}) = 1
        BY FS_Singleton
      <4>3. freeFrames \ {f} # {}
        <5>1. freeFrames # {f}
          BY <4>1, <4>2
        <5> QED BY <2>2, <5>1
      <4> QED BY <1>1, <4>3, FirstIsFree DEF g
    <3>2. space' = [space EXCEPT ![t] = y] /\ freeFrames' = freeFrames \ {f, g}
      <4>1. y = [s EXCEPT !.leaf[p] = f, !.tabs = s.tabs \cup {g}, !.regs = s.regs \cup {Region(p)}]
        BY <2>4
      <4> QED BY <1>1, <1>3, <2>9, <4>1 DEF MapPage, f, g
    <3> HIDE DEF z
    <3>3. /\ y.tabs = z.tabs \cup {g} /\ y.root = z.root /\ y.tf = z.tf /\ y.leaf = z.leaf
          /\ y \in SpaceType
      <4>1. z.tabs \cup {g} \in SUBSET Frames /\ z.regs \cup {Region(p)} \in SUBSET Regions
        BY <1>1, <2>4, <3>1 DEF SpaceType, Regions
      <4>2. ASSUME NEW T \in SUBSET Frames, NEW R \in SUBSET Regions
            PROVE  LET x == [z EXCEPT !.tabs = T, !.regs = R] IN
                   /\ x \in SpaceType
                   /\ x.tabs = T /\ x.root = z.root /\ x.tf = z.tf /\ x.leaf = z.leaf
        BY <2>4 DEF SpaceType
      <4>3. y = [z EXCEPT !.tabs = z.tabs \cup {g}, !.regs = z.regs \cup {Region(p)}]
        OBVIOUS
      <4> QED BY <4>1, <4>2, <4>3
    <3> HIDE DEF y
    <3>4. s1[t] = z /\ [s1 EXCEPT ![t] = y] = [space EXCEPT ![t] = y]
      BY <1>1
    <3>5. InOneSpot([space EXCEPT ![t] = y], job, freeFrames \ {f, g}, leaked) /\ Neat(y)
      <4>1. Grown(y, s1[t], g) /\ Neat(s1[t])
        BY <2>7, <3>3, <3>4 DEF Grown
      <4>2. InOneSpot(s1, job, freeFrames \ {f}, leaked)
        BY <2>7
      <4> HIDE DEF s1
      <4>3. InOneSpot([s1 EXCEPT ![t] = y], job, (freeFrames \ {f}) \ {g}, leaked) /\ Neat(y)
        BY <3>1, <4>1, <4>2, TaskTakes
      <4>4. (freeFrames \ {f}) \ {g} = freeFrames \ {f, g}
        OBVIOUS
      <4> QED BY <3>4, <4>3, <4>4
    <3>6. space'[t] = y /\ \A u \in Tasks \ {t} : space'[u] = space[u]
      BY <1>1, <3>2
    <3>7. y.root = s.root /\ \A q \in Mapped(s) : y.leaf[q] = s.leaf[q]
      BY <2>4, <2>6, <3>3
    <3> HIDE DEF s, s1
    <3>8. space[t] = s
      BY DEF s
    <3> QED BY <3>2, <3>5, <3>6, <3>7, <3>8 DEF SpaceKept
  <2> QED BY <2>8, <2>9
<1> QED BY <1>2, <1>3

LEMMA UnmapKeeps ==
    ASSUME NEW t \in Tasks, NEW S \in SUBSET UserPages, TypeOK, OneSpot, Neat(space[t]),
           UnmapPages(t, S), UNCHANGED <<job, leaked>>
    PROVE  SpaceKept(t, {})
<1> DEFINE s == space[t]
           z == [s EXCEPT !.leaf = [p \in UserPages |-> IF p \in S THEN NoFrame ELSE @[p]]]
           A == {s.leaf[p] : p \in S} \ {NoFrame}
<1>0. InOneSpot(space, job, freeFrames, leaked)
  BY Memory
<1>1. s \in SpaceType /\ space \in [Tasks -> SpaceType]
  BY DEF TypeOK
<1>2. space' = [space EXCEPT ![t] = z] /\ freeFrames' = freeFrames \cup A
  BY <1>1 DEF UnmapPages
<1>3. /\ z \in SpaceType /\ z.root = s.root /\ z.tabs = s.tabs /\ z.tf = s.tf
      /\ \A p \in UserPages : z.leaf[p] = IF p \in S THEN NoFrame ELSE s.leaf[p]
  BY <1>1, Numbers DEF SpaceType
<1> HIDE DEF z
<1>4. Mapped(z) = Mapped(s) \ S
  BY <1>3 DEF Mapped
<1>5. Neat(z)
  BY <1>3, <1>4 DEF Neat, Mapped
<1>6. A \subseteq OwnedBy(s) /\ A \subseteq Frames
  <2>1. \A p \in UserPages : s.leaf[p] \in MaybeFrames
    BY <1>1 DEF SpaceType
  <2>2. A \subseteq Frames
    BY <2>1, Numbers
  <2> QED BY <1>1, <2>2, OwnedIs
<1>7. OwnedBy(z) = OwnedBy(s) \ A
  <2>1. ASSUME NEW f \in Frames PROVE f \in OwnedBy(z) <=> f \in OwnedBy(s) /\ f \notin A
    <3>0. f # NoFrame
      BY Numbers
    <3>1. CASE f \in A
      <4>1. PICK p \in S : f = s.leaf[p] /\ p \in Mapped(s)
        BY <3>0, <3>1 DEF Mapped
      <4>2. f # s.root /\ f # s.tf /\ f \notin s.tabs
        BY <4>1 DEF Neat
      <4>3. \A q \in UserPages : z.leaf[q] # f
        BY <1>3, <3>0, <4>1 DEF Neat, Mapped
      <4> QED BY <1>3, <3>1, <4>2, <4>3, OwnedIs
    <3>2. CASE f \notin A
      <4>1. \A q \in UserPages : z.leaf[q] = f <=> s.leaf[q] = f
        BY <1>3, <3>0, <3>2
      <4> QED BY <1>1, <1>3, <3>2, <4>1, OwnedIs
    <3> QED BY <3>1, <3>2
  <2>2. OwnedBy(z) \subseteq Frames /\ OwnedBy(s) \subseteq Frames
    BY <1>1, <1>3, OwnedIs
  <2> QED BY <2>1, <2>2
<1> HIDE DEF A
<1>8. InOneSpot([space EXCEPT ![t] = z], job, freeFrames \cup A, leaked)
  BY <1>0, <1>3, <1>6, <1>7, TaskChanges
<1>9. space'[t] = z /\ \A u \in Tasks \ {t} : space'[u] = space[u]
  BY <1>1, <1>2
<1> QED BY <1>2, <1>3, <1>5, <1>8, <1>9 DEF SpaceKept

----------------------------------------------------------------------------
(* The steps *)

\* A hart in a program, or in a call of one, runs a task that no other hart runs.
LEMMA Running ==
    ASSUME IInv, NEW h \in Harts, mode[h] \notin {"idle", "leave"}
    PROVE  /\ cur[h] \in Tasks /\ cur[h] # Nobody
           /\ st[cur[h]] = "running"
           /\ satp[h] = space[cur[h]].root
           /\ \A g \in Harts \ {h} : cur[g] # cur[h]
BY Numbers DEF IInv, Control, OnItsRoot

\* A hart that does not build or free has no job.
LEMMA NoJobThen ==
    ASSUME IInv, NEW h \in Harts, mode[h] \notin {"build", "reap"}
    PROVE  job[h] = NoJob
BY DEF IInv, Control, JobFits, TypeOK, JobType

LEMMA NoJobIsNeat ==
    /\ NoJob \in JobType /\ Neat(NoJob.space) /\ OwnedBy(NoJob.space) = {}
    /\ NoJob.op = "none" /\ NoJob.child = Nobody
BY EmptyIsNeat DEF NoJob, JobType

\* What a step on one task's space leaves of the invariant: mmap and sbrk upwards
\* take no page away, munmap and sbrk downwards have the TLBs flushed next.
LEMMA ProgramMaps ==
    ASSUME IInv, NEW h \in Harts, NEW K, mode[h] = "user", SpaceKept(cur[h], K),
           UNCHANGED <<st, cur, job, satp, tlb, leaked>>,
           brk' \in [Tasks -> Nat], mbase' \in [Tasks -> 0 .. StackPage],
           \/ mode' = mode /\ K = Mapped(space[cur[h]])
           \/ mode' = [mode EXCEPT ![h] = "flush"]
    PROVE  IInv'
<1> DEFINE t == cur[h]
<1>0. TypeOK /\ OneUse /\ OneSpot /\ Control /\ \A g \in Harts : TlbFits(g)
  BY DEF IInv
<1>1. t \in Tasks /\ st[t] = "running" /\ \A g \in Harts \ {h} : cur[g] # t
  BY Running
<1>2. space'[t].root = space[t].root /\ (\A u \in Tasks \ {t} : space'[u] = space[u]) /\ Neat(space'[t])
  BY DEF SpaceKept
<1>3. InOneSpot(space', job', freeFrames', leaked')
  BY DEF SpaceKept
<1>4. /\ mode' \in [Harts -> {"user", "idle", "build", "flush", "reap", "leave"}]
      /\ \A g \in Harts : mode'[g] = mode[g] \/ (g = h /\ mode'[g] = "flush")
  BY <1>0 DEF TypeOK
<1>5. TypeOK'
  BY <1>0, <1>3, <1>4 DEF TypeOK, InOneSpot
<1>6. OneUse'
  BY <1>0, <1>2 DEF OneUse
<1>7. OneSpot'
  BY <1>3 DEF OneSpot, InOneSpot
<1>8. ASSUME NEW g \in Harts PROVE OnItsRoot(g)'
  BY <1>0, <1>1, <1>2, <1>4 DEF Control, OnItsRoot
<1>9. ASSUME NEW g \in Harts PROVE JobFits(g)'
  BY <1>0, <1>4 DEF Control, JobFits
<1>10. ASSUME NEW g \in Harts, mode'[g] = "build" PROVE PlanFits(job[g])'
  BY <1>0, <1>4, <1>10 DEF Control, PlanFits
<1>11. ASSUME NEW u \in Tasks
       PROVE  (st[u] = "none" => space[u] = EmptySpace)' /\ (st[u] # "none" => space[u].root # NoFrame)'
  BY <1>0, <1>1, <1>2 DEF Control
<1>12. Control'
  BY <1>8, <1>9, <1>10, <1>11 DEF Control
<1>13. ASSUME NEW g \in Harts PROVE TlbFits(g)'
  <2>1. CASE g = h
    <3>1. CASE mode' = mode /\ K = Mapped(space[t])
      <4>1. \A e \in tlb[h] : space[t].leaf[e[1]] = e[2]
        BY <1>0 DEF TlbFits
      <4>2. \A e \in tlb[h] : e[1] \in UserPages /\ e[2] # NoFrame
        BY <1>0, Numbers DEF TypeOK
      <4>3. \A e \in tlb[h] : e[1] \in K
        BY <3>1, <4>1, <4>2 DEF Mapped
      <4>4. \A e \in tlb[h] : space'[t].leaf[e[1]] = e[2]
        BY <4>1, <4>3 DEF SpaceKept
      <4> QED BY <2>1, <4>4 DEF TlbFits
    <3>2. CASE mode' = [mode EXCEPT ![h] = "flush"]
      BY <1>0, <2>1, <3>2 DEF TlbFits, TypeOK
    <3> QED BY <3>1, <3>2
  <2>2. CASE g # h
    <3>1. mode'[g] = mode[g]
      BY <1>4, <2>2
    <3>2. mode[g] \in {"user", "build", "reap"} => cur[g] \in Tasks \ {t}
      BY <1>1, <2>2, Running
    <3> QED BY <1>0, <1>2, <3>1, <3>2 DEF TlbFits
  <2> QED BY <2>1, <2>2
<1> QED BY <1>5, <1>6, <1>7, <1>12, <1>13 DEF IInv

LEMMA GrowKeeps ==
    ASSUME IInv, NEW h \in Harts, NEW inc \in 1 .. 2, Grow(h, inc)
    PROVE  IInv'
<1> DEFINE t == cur[h]
           new == PagesOf(brk[t], brk[t] + inc) \ Mapped(space[t])
<1>0. TypeOK /\ OneSpot /\ Neat(space[t]) /\ t \in Tasks
  <2>1. t \in Tasks
    BY Running DEF Grow
  <2> QED BY <2>1 DEF IInv, OneUse
<1>1. mode[h] = "user" /\ UNCHANGED <<st, mbase, mode, cur, job, satp, tlb, leaked>>
  BY DEF Grow
<1>2. brk' \in [Tasks -> Nat]
  <2>1. brk[t] + inc \in Nat
    BY <1>0 DEF TypeOK
  <2>2. brk' = [brk EXCEPT ![t] = brk[t] + inc]
    BY DEF Grow
  <2> QED BY <1>0, <2>1, <2>2 DEF TypeOK
<1>3. SpaceKept(t, Mapped(space[t]))
  <2>1. CASE new = {}
    <3>1. UNCHANGED <<space, freeFrames>>
      BY <2>1 DEF Grow
    <3> QED BY <1>0, <1>1, <3>1, Memory DEF SpaceKept
  <2>2. CASE new # {}
    <3>1. PICK p \in new : p = CHOOSE q \in new : TRUE
      BY <2>2
    <3>2. CanMap(space[t], p) /\ MapPage(t, p)
      BY <2>2, <3>1 DEF Grow
    <3>3. p \in UserPages
      BY DEF PagesOf
    <3> QED BY <1>0, <1>1, <3>2, <3>3, MapPageKeeps
  <2> QED BY <2>1, <2>2
<1>4. mbase' \in [Tasks -> 0 .. StackPage]
  BY <1>0, <1>1 DEF TypeOK
<1> QED BY <1>1, <1>2, <1>3, <1>4, ProgramMaps

LEMMA MmapKeeps ==
    ASSUME IInv, NEW h \in Harts, Mmap(h)
    PROVE  IInv'
<1> DEFINE t == cur[h]
           p == mbase[t] - 1
<1>0. TypeOK /\ OneSpot /\ Neat(space[t]) /\ t \in Tasks
  <2>1. t \in Tasks
    BY Running DEF Mmap
  <2> QED BY <2>1 DEF IInv, OneUse
<1>1. mode[h] = "user" /\ UNCHANGED <<st, brk, mode, cur, job, satp, tlb, leaked>>
  BY DEF Mmap
<1>2. p \in 0 .. StackPage /\ p \in UserPages
  <2>1. brk[t] \in Nat /\ mbase[t] \in 0 .. StackPage /\ 2 * p >= brk[t]
    BY <1>0 DEF TypeOK, Mmap
  <2> QED BY <2>1, Numbers DEF StackPage, UserPages
<1>3. SpaceKept(t, Mapped(space[t]))
  <2>1. CanMap(space[t], p) /\ MapPage(t, p)
    BY DEF Mmap
  <2> QED BY <1>0, <1>1, <1>2, <2>1, MapPageKeeps
<1>4. mbase' \in [Tasks -> 0 .. StackPage]
  BY <1>0, <1>2 DEF TypeOK, Mmap
<1>5. brk' \in [Tasks -> Nat]
  BY <1>0, <1>1 DEF TypeOK
<1> QED BY <1>1, <1>3, <1>4, <1>5, ProgramMaps

LEMMA MapsOnlyFirstKeeps ==
    ASSUME IInv, NEW h \in Harts, NEW p \in UserPages, MapsOnlyFirst(h, p)
    PROVE  IInv'
<1> DEFINE t == cur[h]
<1>0. TypeOK /\ OneSpot /\ Neat(space[t]) /\ t \in Tasks
  <2>1. t \in Tasks
    BY Running DEF MapsOnlyFirst
  <2> QED BY <2>1 DEF IInv, OneUse
<1>1. mode[h] = "user" /\ UNCHANGED <<st, brk, mbase, mode, cur, job, satp, tlb, leaked>>
  BY DEF MapsOnlyFirst
<1>2. SpaceKept(t, Mapped(space[t]))
  <2>1. CanMap(space[t], p) /\ MapPage(t, p)
    BY DEF MapsOnlyFirst
  <2> QED BY <1>0, <1>1, <2>1, MapPageKeeps
<1>3. mbase' \in [Tasks -> 0 .. StackPage] /\ brk' \in [Tasks -> Nat]
  BY <1>0, <1>1 DEF TypeOK
<1> QED BY <1>1, <1>2, <1>3, ProgramMaps

LEMMA ShrinkKeeps ==
    ASSUME IInv, NEW h \in Harts, NEW dec \in 1 .. 2, Shrink(h, dec)
    PROVE  IInv'
<1> DEFINE t == cur[h]
<1>0. TypeOK /\ OneSpot /\ Neat(space[t]) /\ t \in Tasks
  <2>1. t \in Tasks
    BY Running DEF Shrink
  <2> QED BY <2>1 DEF IInv, OneUse
<1>1. /\ mode[h] = "user" /\ mode' = [mode EXCEPT ![h] = "flush"]
      /\ UNCHANGED <<st, mbase, cur, job, satp, tlb, leaked>>
  BY DEF Shrink
<1>2. brk' \in [Tasks -> Nat]
  <2>1. brk[t] - dec \in Nat
    BY <1>0 DEF TypeOK, Shrink, BrkMin
  <2>2. brk' = [brk EXCEPT ![t] = brk[t] - dec]
    BY DEF Shrink
  <2> QED BY <1>0, <2>1, <2>2 DEF TypeOK
<1>3. SpaceKept(t, {})
  <2>1. PagesOf(brk[t] - dec, brk[t]) \subseteq UserPages
    BY DEF PagesOf
  <2>2. UnmapPages(t, PagesOf(brk[t] - dec, brk[t]))
    BY DEF Shrink
  <2> QED BY <1>0, <1>1, <2>1, <2>2, UnmapKeeps
<1>4. mbase' \in [Tasks -> 0 .. StackPage]
  BY <1>0, <1>1 DEF TypeOK
<1> QED BY <1>1, <1>2, <1>3, <1>4, ProgramMaps

LEMMA MunmapKeeps ==
    ASSUME IInv, NEW h \in Harts, NEW p \in UserPages, Munmap(h, p)
    PROVE  IInv'
<1> DEFINE t == cur[h]
<1>0. TypeOK /\ OneSpot /\ Neat(space[t]) /\ t \in Tasks
  <2>1. t \in Tasks
    BY Running DEF Munmap
  <2> QED BY <2>1 DEF IInv, OneUse
<1>1. /\ mode[h] = "user" /\ mode' = [mode EXCEPT ![h] = "flush"]
      /\ UNCHANGED <<st, brk, mbase, cur, job, satp, tlb, leaked>>
  BY DEF Munmap
<1>2. SpaceKept(t, {})
  <2>1. UnmapPages(t, {p})
    BY DEF Munmap
  <2> QED BY <1>0, <1>1, <2>1, UnmapKeeps
<1>3. mbase' \in [Tasks -> 0 .. StackPage] /\ brk' \in [Tasks -> Nat]
  BY <1>0, <1>1 DEF TypeOK
<1> QED BY <1>1, <1>2, <1>3, ProgramMaps

\* A step that moves no frame and makes or frees no space.
LEMMA FramesStay ==
    ASSUME IInv, UNCHANGED <<freeFrames, space, brk, mbase, job, leaked>>
    PROVE  /\ OneUse' /\ OneSpot'
           /\ \A g \in Harts : mode[g] = "build" => PlanFits(job[g])'
BY DEF IInv, OneUse, OneSpot, Control, PlanFits

LEMMA TouchKeeps ==
    ASSUME IInv, NEW h \in Harts, NEW p \in UserPages, Touch(h, p)
    PROVE  IInv'
<1> DEFINE s == space[cur[h]]
<1>0. TypeOK /\ Control /\ \A g \in Harts : TlbFits(g)
  BY DEF IInv
<1>1. UNCHANGED <<freeFrames, st, space, brk, mbase, mode, cur, job, satp, leaked>>
  BY DEF Touch
<1>2. cur[h] \in Tasks /\ s.leaf[p] \in Frames /\ tlb' = [tlb EXCEPT ![h] = @ \cup {<<p, s.leaf[p]>>}]
  <2>1. cur[h] \in Tasks
    BY Running DEF Touch
  <2>2. s.leaf[p] \in MaybeFrames /\ s.leaf[p] # NoFrame
    BY <1>0, <2>1 DEF TypeOK, SpaceType, Touch, Mapped
  <2> QED BY <2>1, <2>2, Numbers DEF Touch
<1>3. OneUse' /\ OneSpot'
  BY <1>1, FramesStay
<1>4. TypeOK'
  BY <1>0, <1>1, <1>2 DEF TypeOK
<1>5. Control'
  BY <1>0, <1>1 DEF Control, OnItsRoot, JobFits, PlanFits
<1>6. ASSUME NEW g \in Harts PROVE TlbFits(g)'
  <2>1. tlb'[g] = tlb[g] \/ (g = h /\ tlb'[g] = tlb[h] \cup {<<p, s.leaf[p]>>})
    BY <1>0, <1>2 DEF TypeOK
  <2> QED BY <1>0, <1>1, <2>1 DEF TlbFits
<1> QED BY <1>3, <1>4, <1>5, <1>6 DEF IInv

LEMMA RunTaskKeeps ==
    ASSUME IInv, NEW h \in Harts, NEW t \in Tasks, RunTask(h, t)
    PROVE  IInv'
<1>0. TypeOK /\ Control /\ \A g \in Harts : TlbFits(g)
  BY DEF IInv
<1>1. /\ mode[h] = "idle" /\ st[t] = "ready"
      /\ UNCHANGED <<freeFrames, space, brk, mbase, job, leaked>>
  BY DEF RunTask
<1>2. /\ mode'[h] = "user" /\ cur'[h] = t /\ satp'[h] = space[t].root /\ tlb'[h] = {}
      /\ \A g \in Harts \ {h} : mode'[g] = mode[g] /\ cur'[g] = cur[g] /\ satp'[g] = satp[g] /\ tlb'[g] = tlb[g]
      /\ st'[t] = "running" /\ \A u \in Tasks \ {t} : st'[u] = st[u]
  BY <1>0 DEF TypeOK, RunTask
<1>3. TypeOK'
  <2>1. space[t].root \in MaybeFrames
    BY <1>0 DEF TypeOK, SpaceType
  <2> QED BY <1>0, <1>1, <2>1 DEF TypeOK, RunTask
<1>4. OneUse' /\ OneSpot' /\ \A g \in Harts : mode[g] = "build" => PlanFits(job[g])'
  BY <1>1, FramesStay
<1>5. ASSUME NEW g \in Harts PROVE OnItsRoot(g)'
  <2>1. \A k \in Harts : cur[k] # t
    BY <1>0, <1>1, Running, Numbers DEF Control, OnItsRoot
  <2> QED BY <1>0, <1>1, <1>2, <2>1 DEF Control, OnItsRoot
<1>6. ASSUME NEW g \in Harts PROVE JobFits(g)'
  BY <1>0, <1>1, <1>2 DEF Control, JobFits
<1>7. ASSUME NEW u \in Tasks
      PROVE  (st[u] = "none" => space[u] = EmptySpace)' /\ (st[u] # "none" => space[u].root # NoFrame)'
  BY <1>0, <1>1, <1>2 DEF Control
<1>8. Control'
  BY <1>1, <1>2, <1>4, <1>5, <1>6, <1>7 DEF Control
<1>9. ASSUME NEW g \in Harts PROVE TlbFits(g)'
  BY <1>0, <1>1, <1>2 DEF TlbFits
<1> QED BY <1>3, <1>4, <1>8, <1>9 DEF IInv

\* A hart lets go of its task.
LEMMA LeaveKeeps ==
    ASSUME IInv, NEW h \in Harts, Preempt(h) \/ ExitTask(h)
    PROVE  IInv'
<1> DEFINE t == cur[h]
<1>0. TypeOK /\ Control /\ \A g \in Harts : TlbFits(g)
  BY DEF IInv
<1>1. /\ mode[h] = "user" /\ UNCHANGED <<freeFrames, space, brk, mbase, job, leaked>>
      /\ cur' = [cur EXCEPT ![h] = Nobody]
      /\ st' = [st EXCEPT ![t] = "ready"] \/ st' = [st EXCEPT ![t] = "zombie"]
      /\ \/ /\ mode' = [mode EXCEPT ![h] = "idle"] /\ satp' = [satp EXCEPT ![h] = KernelRoot]
            /\ tlb' = [tlb EXCEPT ![h] = {}]
         \/ mode' = [mode EXCEPT ![h] = "leave"] /\ satp' = satp /\ tlb' = tlb
  BY DEF Preempt, ExitTask, Parked
<1>2. t \in Tasks /\ st[t] = "running" /\ \A g \in Harts \ {h} : cur[g] # t
  BY <1>1, Running
<1>3. /\ mode'[h] \in {"idle", "leave"} /\ cur'[h] = Nobody /\ (mode'[h] = "idle" => satp'[h] = KernelRoot)
      /\ \A g \in Harts \ {h} : mode'[g] = mode[g] /\ cur'[g] = cur[g] /\ satp'[g] = satp[g] /\ tlb'[g] = tlb[g]
      /\ st'[t] \in {"ready", "zombie"} /\ \A u \in Tasks \ {t} : st'[u] = st[u]
  BY <1>0, <1>1, <1>2 DEF TypeOK
<1>4. TypeOK'
  <2>1. KernelRoot \in MaybeFrames
    BY Numbers DEF KernelRoot, NoFrame
  <2> QED BY <1>0, <1>1, <1>2, <2>1 DEF TypeOK
<1>5. OneUse' /\ OneSpot' /\ \A g \in Harts : mode[g] = "build" => PlanFits(job[g])'
  BY <1>1, FramesStay
<1>6. ASSUME NEW g \in Harts PROVE OnItsRoot(g)'
  <2>1. CASE g = h
    BY <1>3, <2>1 DEF OnItsRoot
  <2>2. CASE g # h
    BY <1>0, <1>1, <1>2, <1>3, <2>2, Numbers DEF Control, OnItsRoot
  <2> QED BY <2>1, <2>2
<1>7. ASSUME NEW g \in Harts PROVE JobFits(g)'
  BY <1>0, <1>1, <1>2, <1>3 DEF Control, JobFits
<1>8. ASSUME NEW u \in Tasks
      PROVE  (st[u] = "none" => space[u] = EmptySpace)' /\ (st[u] # "none" => space[u].root # NoFrame)'
  BY <1>0, <1>1, <1>2, <1>3 DEF Control
<1>9. Control'
  BY <1>1, <1>3, <1>5, <1>6, <1>7, <1>8 DEF Control
<1>10. ASSUME NEW g \in Harts PROVE TlbFits(g)'
  BY <1>0, <1>1, <1>3 DEF TlbFits
<1> QED BY <1>4, <1>5, <1>9, <1>10 DEF IInv

\* A hart flushes every TLB, or leaves the root of the task it had.
LEMMA FlushKeeps ==
    ASSUME IInv, NEW h \in Harts, Flush(h) \/ LeaveRoot(h)
    PROVE  IInv'
<1>0. TypeOK /\ Control /\ \A g \in Harts : TlbFits(g)
  BY DEF IInv
<1>1. UNCHANGED <<freeFrames, st, space, brk, mbase, cur, job, leaked>>
  BY DEF Flush, LeaveRoot
<1>2. /\ \/ mode[h] = "flush" /\ mode'[h] = "user" /\ satp'[h] = satp[h]
         \/ mode[h] = "leave" /\ mode'[h] = "idle" /\ satp'[h] = KernelRoot
      /\ tlb'[h] = {}
      /\ \A g \in Harts \ {h} : mode'[g] = mode[g] /\ satp'[g] = satp[g] /\ (tlb'[g] = tlb[g] \/ tlb'[g] = {})
  BY <1>0 DEF Flush, LeaveRoot, Parked, TypeOK
<1>3. TypeOK'
  <2>1. KernelRoot \in MaybeFrames
    BY Numbers DEF KernelRoot, NoFrame
  <2>2. mode' \in [Harts -> {"user", "idle", "build", "flush", "reap", "leave"}]
    BY <1>0 DEF Flush, LeaveRoot, TypeOK
  <2>3. satp' \in [Harts -> MaybeFrames]
    BY <1>0, <2>1 DEF Flush, LeaveRoot, Parked, TypeOK
  <2>4. tlb' \in [Harts -> SUBSET (UserPages \X Frames)]
    BY <1>0 DEF Flush, LeaveRoot, TypeOK
  <2> QED BY <1>0, <1>1, <2>2, <2>3, <2>4 DEF TypeOK
<1>4. OneUse' /\ OneSpot' /\ \A g \in Harts : mode[g] = "build" => PlanFits(job[g])'
  BY <1>1, FramesStay
<1>5. ASSUME NEW g \in Harts PROVE OnItsRoot(g)'
  BY <1>0, <1>1, <1>2 DEF Control, OnItsRoot
<1>6. ASSUME NEW g \in Harts PROVE JobFits(g)'
  BY <1>0, <1>1, <1>2 DEF Control, JobFits
<1>7. ASSUME NEW u \in Tasks
      PROVE  (st[u] = "none" => space[u] = EmptySpace)' /\ (st[u] # "none" => space[u].root # NoFrame)'
  BY <1>0, <1>1 DEF Control
<1>8. Control'
  BY <1>1, <1>2, <1>4, <1>5, <1>6, <1>7 DEF Control
<1>9. ASSUME NEW g \in Harts PROVE TlbFits(g)'
  BY <1>0, <1>1, <1>2 DEF TlbFits
<1> QED BY <1>3, <1>4, <1>8, <1>9 DEF IInv

\* What building a space, or a step of it, must leave.
LEMMA JobKeeps ==
    ASSUME IInv, NEW h \in Harts, NEW k \in JobType, mode[h] \in {"user", "build"},
           job' = [job EXCEPT ![h] = k], mode' = [mode EXCEPT ![h] = "build"],
           UNCHANGED <<st, space, brk, mbase, cur, satp, tlb, leaked>>,
           InOneSpot(space', job', freeFrames', leaked'), Neat(k.space), PlanFits(k),
           k.op \in {"fork", "exec"},
           k.op = "exec" => k.child = Nobody,
           k.op = "fork" => /\ k.child \in Tasks /\ st[k.child] = "none"
                            /\ \A g \in Harts \ {h} : job[g].child # k.child
    PROVE  IInv'
<1>0. TypeOK /\ OneUse /\ Control /\ \A g \in Harts : TlbFits(g)
  BY DEF IInv
<1>1. /\ mode'[h] = "build" /\ job'[h] = k
      /\ \A g \in Harts \ {h} : mode'[g] = mode[g] /\ job'[g] = job[g]
  BY <1>0 DEF TypeOK
<1>2. TypeOK'
  BY <1>0 DEF TypeOK, InOneSpot
<1>3. OneUse'
  BY <1>0, <1>1 DEF OneUse
<1>4. OneSpot'
  BY DEF OneSpot, InOneSpot
<1>5. ASSUME NEW g \in Harts PROVE OnItsRoot(g)'
  BY <1>0, <1>1 DEF Control, OnItsRoot
<1>6. ASSUME NEW g \in Harts PROVE JobFits(g)'
  <2>1. CASE g = h
    BY <1>1, <2>1 DEF JobFits
  <2>2. CASE g # h
    <3>1. job[g].op = "fork" => job[g].child \in Tasks /\ k.child # job[g].child
      BY <1>0, <2>2, Numbers DEF Control, JobFits
    <3> QED BY <1>0, <1>1, <2>2, <3>1 DEF Control, JobFits
  <2> QED BY <2>1, <2>2
<1>7. ASSUME NEW g \in Harts, mode'[g] = "build" PROVE PlanFits(job[g])'
  <2>1. CASE g = h
    BY <1>1, <2>1 DEF PlanFits
  <2>2. CASE g # h
    BY <1>0, <1>1, <1>7, <2>2 DEF Control, PlanFits
  <2> QED BY <2>1, <2>2
<1>8. Control'
  BY <1>0, <1>5, <1>6, <1>7 DEF Control
<1>9. ASSUME NEW g \in Harts PROVE TlbFits(g)'
  BY <1>0, <1>1 DEF TlbFits
<1> QED BY <1>2, <1>3, <1>4, <1>8, <1>9 DEF IInv

LEMMA StartForkKeeps ==
    ASSUME IInv, NEW h \in Harts, NEW c \in Tasks, StartFork(h, c)
    PROVE  IInv'
<1> DEFINE k == [op |-> "fork", child |-> c, space |-> EmptySpace,
                 left |-> {RootFrame, TrapFrame, TrapTable} \cup KernelTables \cup Mapped(space[cur[h]])]
<1>1. /\ mode[h] = "user" /\ st[c] = "none" /\ \A g \in Harts : job[g].child # c
      /\ job' = [job EXCEPT ![h] = k] /\ mode' = [mode EXCEPT ![h] = "build"]
      /\ UNCHANGED <<freeFrames, st, space, brk, mbase, cur, satp, tlb, leaked>>
  BY DEF StartFork
<1>2. k \in JobType
  BY EmptyIsNeat DEF JobType, FramePlaces, Mapped
<1>3. Neat(k.space) /\ OwnedBy(k.space) = {}
  BY EmptyIsNeat
<1>4. PlanFits(k)
  <2>1. /\ EmptySpace.root = NoFrame /\ EmptySpace.tf = NoFrame /\ Mapped(EmptySpace) = {}
        /\ \A p \in UserPages : EmptySpace.leaf[p] = NoFrame
    BY DEF EmptySpace, Mapped
  <2> QED BY <2>1 DEF PlanFits
<1>5. InOneSpot(space', job', freeFrames', leaked')
  <2>1. OwnedBy(job[h].space) = {}
    BY <1>1, NoJobThen, NoJobIsNeat
  <2>2. InOneSpot(space, job, freeFrames, leaked)
    BY Memory DEF IInv
  <2>3. OwnedBy(k.space) = OwnedBy(job[h].space) \cup {} /\ freeFrames \ {} = freeFrames
    BY <1>3, <2>1
  <2> HIDE DEF k
  <2>4. InOneSpot(space, [job EXCEPT ![h] = k], freeFrames \ {}, leaked)
    BY <1>2, <2>2, <2>3, JobChanges
  <2> QED BY <1>1, <2>3, <2>4
<1>6. k.op = "fork" /\ k.child = c
  OBVIOUS
<1> HIDE DEF k
<1> QED BY <1>1, <1>2, <1>3, <1>4, <1>5, <1>6, JobKeeps

LEMMA StartExecKeeps ==
    ASSUME IInv, NEW h \in Harts, StartExec(h)
    PROVE  IInv'
<1> DEFINE k == [op |-> "exec", child |-> Nobody, space |-> EmptySpace,
                 left |-> {RootFrame, TrapTable, ImagePage, StackPage} \cup KernelTables]
<1>1. /\ mode[h] = "user"
      /\ job' = [job EXCEPT ![h] = k] /\ mode' = [mode EXCEPT ![h] = "build"]
      /\ UNCHANGED <<freeFrames, st, space, brk, mbase, cur, satp, tlb, leaked>>
  BY DEF StartExec
<1>2. k \in JobType
  BY EmptyIsNeat, Numbers DEF JobType, FramePlaces
<1>3. Neat(k.space) /\ OwnedBy(k.space) = {}
  BY EmptyIsNeat
<1>4. PlanFits(k)
  <2>1. /\ EmptySpace.root = NoFrame /\ EmptySpace.tf = NoFrame /\ Mapped(EmptySpace) = {}
        /\ \A p \in UserPages : EmptySpace.leaf[p] = NoFrame
    BY DEF EmptySpace, Mapped
  <2>2. TrapFrame \notin k.left
    BY PlacesDiffer, Numbers
  <2> QED BY <2>1, <2>2 DEF PlanFits
<1>5. InOneSpot(space', job', freeFrames', leaked')
  <2>1. OwnedBy(job[h].space) = {}
    BY <1>1, NoJobThen, NoJobIsNeat
  <2>2. InOneSpot(space, job, freeFrames, leaked)
    BY Memory DEF IInv
  <2>3. OwnedBy(k.space) = OwnedBy(job[h].space) \cup {} /\ freeFrames \ {} = freeFrames
    BY <1>3, <2>1
  <2> HIDE DEF k
  <2>4. InOneSpot(space, [job EXCEPT ![h] = k], freeFrames \ {}, leaked)
    BY <1>2, <2>2, <2>3, JobChanges
  <2> QED BY <1>1, <2>3, <2>4
<1>6. k.op = "exec" /\ k.child = Nobody
  OBVIOUS
<1> HIDE DEF k
<1> QED BY <1>1, <1>2, <1>3, <1>4, <1>5, <1>6, JobKeeps

\* The next place of a plan, and what is in the space before it is taken.
LEMMA NextPlace ==
    ASSUME NEW j \in JobType, PlanFits(j), j.left # {}
    PROVE  LET i == First(j.left) IN
           /\ i \in FramePlaces /\ i \in j.left
           /\ i = RootFrame => j.space.root = NoFrame
           /\ i = TrapFrame => j.space.tf = NoFrame
           /\ i \in UserPages => j.space.leaf[i] = NoFrame
           /\ j.left \cap KernelTables # {} => i # TrapFrame /\ i \notin UserPages
           /\ i \in KernelTables => RootFrame \notin j.left
<1> DEFINE i == First(j.left)
<1>1. j.left \subseteq Int /\ \A x \in j.left : x >= -5
  BY Numbers DEF JobType
<1>2. i \in j.left /\ \A x \in j.left : i <= x
  BY <1>1, FirstIsLeast
<1> HIDE DEF i
<1>3. i \in FramePlaces /\ i \in Int
  BY <1>1, <1>2 DEF JobType
<1>4. ASSUME NEW x \in j.left \cap KernelTables PROVE i # TrapFrame /\ i \notin UserPages
  <2>1. i <= x /\ x \in Int
    BY <1>1, <1>2
  <2>2. x < TrapFrame /\ \A p \in UserPages : x < p
    BY PlacesDiffer
  <2>3. TrapFrame \in Int /\ UserPages \subseteq Int
    BY Numbers DEF TrapFrame
  <2> QED BY <1>3, <2>1, <2>2, <2>3
<1>5. ASSUME i \in KernelTables PROVE RootFrame \notin j.left
  <2>1. RootFrame < i /\ RootFrame \in Int
    BY <1>5, PlacesDiffer DEF RootFrame
  <2> QED BY <1>2, <1>3, <2>1
<1> QED BY <1>2, <1>3, <1>4, <1>5 DEF PlanFits, i

LEMMA BuildStepKeeps ==
    ASSUME IInv, NEW h \in Harts, BuildStep(h)
    PROVE  IInv'
<1> DEFINE j == job[h]
           s == j.space
           i == First(j.left)
           f == First(freeFrames)
           z == WithFrame(s, i, f)
           L == IF NeedsTable(s, i) THEN j.left ELSE j.left \ {i}
           k == [j EXCEPT !.space = z, !.left = L]
<1>0. TypeOK /\ Control /\ OneUse
  BY DEF IInv
<1>1. /\ mode[h] = "build" /\ j.left # {} /\ freeFrames' = freeFrames \ {f}
      /\ job' = [job EXCEPT ![h] = k] /\ freeFrames # {}
      /\ UNCHANGED <<st, space, brk, mbase, mode, cur, satp, tlb, leaked>>
  <2>1. job \in [Harts -> JobType]
    BY <1>0 DEF TypeOK
  <2>2. job' = [job EXCEPT ![h].space = z, ![h].left = L]
    BY DEF BuildStep
  <2>3. [job EXCEPT ![h].space = z, ![h].left = L] = [job EXCEPT ![h] = k]
    BY <2>1 DEF JobType
  <2> QED BY <2>2, <2>3 DEF BuildStep
<1>2. j \in JobType /\ s \in SpaceType /\ Neat(s) /\ PlanFits(j) /\ j.op \in {"fork", "exec"}
  BY <1>0, <1>1 DEF TypeOK, JobType, OneUse, Control, JobFits
<1>3. /\ i \in FramePlaces /\ i \in j.left
      /\ i = RootFrame => s.root = NoFrame
      /\ i = TrapFrame => s.tf = NoFrame
      /\ i \in UserPages => s.leaf[i] = NoFrame
      /\ j.left \cap KernelTables # {} => i # TrapFrame /\ i \notin UserPages
  BY <1>1, <1>2, NextPlace
<1>4. f \in freeFrames /\ f \in Frames /\ f # NoFrame
  BY <1>0, <1>1, FirstIsFree, Numbers DEF TypeOK
<1> HIDE DEF i, f
<1>5. /\ Grown(z, s, f) /\ z \in SpaceType
      /\ z.root = IF i = RootFrame THEN f ELSE s.root
      /\ z.tf = IF i = TrapFrame THEN f ELSE s.tf
      /\ z.leaf = IF i \in UserPages /\ ~NeedsTable(s, i) THEN [s.leaf EXCEPT ![i] = f] ELSE s.leaf
  <2>1. /\ Grown(z, s, f)
        /\ z.root = IF i = RootFrame THEN f ELSE s.root
        /\ z.tf = IF i = TrapFrame THEN f ELSE s.tf
        /\ z.leaf = IF i \in UserPages /\ ~NeedsTable(s, i) THEN [s.leaf EXCEPT ![i] = f] ELSE s.leaf
    BY <1>2, <1>3, <1>4, WithFrameGrows
  <2> QED BY <2>1 DEF Grown
<1> HIDE DEF z
<1>6. L \subseteq j.left /\ (i \notin UserPages => L = j.left \ {i}) /\ (~NeedsTable(s, i) => L = j.left \ {i})
  BY DEF NeedsTable
<1> HIDE DEF L
<1>7. k \in JobType /\ k.space = z /\ k.left = L /\ k.op = j.op /\ k.child = j.child
  BY <1>2, <1>5, <1>6 DEF JobType
<1> HIDE DEF k
<1>8. PlanFits(k)
  <2>1. RootFrame \in k.left <=> k.space.root = NoFrame
    <3>0. RootFrame \in j.left <=> s.root = NoFrame
      BY <1>2 DEF PlanFits
    <3>1. CASE i = RootFrame
      <4>1. i \notin UserPages
        BY <3>1, PlacesDiffer
      <4> QED BY <1>4, <1>5, <1>6, <1>7, <3>1, <4>1
    <3>2. CASE i # RootFrame
      <4>1. RootFrame \in L <=> RootFrame \in j.left
        BY <3>2 DEF L
      <4> QED BY <1>5, <1>7, <3>0, <3>2, <4>1
    <3> QED BY <3>1, <3>2
  <2>2. TrapFrame \in k.left => k.space.tf = NoFrame
    BY <1>2, <1>3, <1>5, <1>6, <1>7, PlacesDiffer DEF PlanFits
  <2>3. ASSUME NEW p \in k.left \cap UserPages PROVE k.space.leaf[p] = NoFrame
    <3>1. s.leaf[p] = NoFrame /\ s.leaf \in [UserPages -> MaybeFrames]
      BY <1>2, <1>6, <1>7 DEF PlanFits, SpaceType
    <3>2. i \in UserPages /\ ~NeedsTable(s, i) => p # i
      BY <1>6, <1>7
    <3> QED BY <1>5, <1>7, <3>1, <3>2
  <2>4. k.left \cap KernelTables # {} => k.space.tf = NoFrame /\ Mapped(k.space) = {}
    <3> SUFFICES ASSUME k.left \cap KernelTables # {} PROVE k.space.tf = NoFrame /\ Mapped(k.space) = {}
      OBVIOUS
    <3>1. j.left \cap KernelTables # {}
      BY <1>6, <1>7
    <3>2. s.tf = NoFrame /\ Mapped(s) = {} /\ i # TrapFrame /\ i \notin UserPages
      BY <1>2, <1>3, <3>1 DEF PlanFits
    <3> QED BY <1>5, <1>7, <3>2 DEF Mapped
  <2>5. k.op = "exec" => k.space.tf = NoFrame /\ TrapFrame \notin k.left
    BY <1>2, <1>3, <1>5, <1>6, <1>7 DEF PlanFits
  <2> QED BY <2>1, <2>2, <2>3, <2>4, <2>5 DEF PlanFits
<1>9. f \notin OwnedBy(s)
  <2>1. InOneSpot(space, job, freeFrames, leaked)
    BY Memory DEF IInv
  <2> QED BY <2>1, <1>4, Apart, HeldAt, SpotsDiffer
<1>10. Neat(z) /\ OwnedBy(z) = OwnedBy(s) \cup {f}
  BY <1>2, <1>4, <1>5, <1>9, GrownIsNeat
<1>11. InOneSpot(space', job', freeFrames', leaked')
  <2>1. InOneSpot(space, job, freeFrames, leaked)
    BY Memory DEF IInv
  <2>2. InOneSpot(space, [job EXCEPT ![h] = k], freeFrames \ {f}, leaked)
    BY <1>4, <1>7, <1>10, <2>1, JobChanges
  <2> QED BY <1>1, <2>2
<1>12. /\ k.op = "exec" => k.child = Nobody
       /\ k.op = "fork" => /\ k.child \in Tasks /\ st[k.child] = "none"
                           /\ \A g \in Harts \ {h} : job[g].child # k.child
  BY <1>0, <1>7 DEF Control, JobFits
<1>13. mode' = [mode EXCEPT ![h] = "build"]
  BY <1>0, <1>1 DEF TypeOK
<1> QED BY <1>1, <1>2, <1>7, <1>8, <1>10, <1>11, <1>12, <1>13, JobKeeps

\* The end of a job that leaves every task and its space as they are.
LEMMA JobEnds ==
    ASSUME IInv, NEW h \in Harts, NEW m \in {"user", "flush"}, mode[h] \in {"build", "reap"},
           job' = [job EXCEPT ![h] = NoJob], mode' = [mode EXCEPT ![h] = m],
           UNCHANGED <<st, space, brk, mbase, cur, satp, tlb>>,
           InOneSpot(space', job', freeFrames', leaked')
    PROVE  IInv'
<1>0. TypeOK /\ OneUse /\ Control /\ \A g \in Harts : TlbFits(g)
  BY DEF IInv
<1>1. /\ mode'[h] = m /\ job'[h] = NoJob
      /\ \A g \in Harts \ {h} : mode'[g] = mode[g] /\ job'[g] = job[g]
  BY <1>0 DEF TypeOK
<1>2. TypeOK'
  BY <1>0 DEF TypeOK, InOneSpot
<1>3. OneUse'
  BY <1>0, <1>1, NoJobIsNeat DEF OneUse
<1>4. OneSpot'
  BY DEF OneSpot, InOneSpot
<1>5. ASSUME NEW g \in Harts PROVE OnItsRoot(g)'
  BY <1>0, <1>1 DEF Control, OnItsRoot
<1>6. ASSUME NEW g \in Harts PROVE JobFits(g)'
  <2>1. CASE g = h
    BY <1>1, <2>1, NoJobIsNeat DEF JobFits
  <2>2. CASE g # h
    <3>1. job[g].op = "fork" => job[g].child \in Tasks /\ job[g].child # Nobody
      BY <1>0, Numbers DEF Control, JobFits
    <3> QED BY <1>0, <1>1, <2>2, <3>1, NoJobIsNeat DEF Control, JobFits
  <2> QED BY <2>1, <2>2
<1>7. ASSUME NEW g \in Harts, mode'[g] = "build" PROVE PlanFits(job[g])'
  <2>1. g # h
    BY <1>1, <1>7
  <2> QED BY <1>0, <1>1, <1>7, <2>1 DEF Control, PlanFits
<1>8. Control'
  BY <1>0, <1>5, <1>6, <1>7 DEF Control
<1>9. ASSUME NEW g \in Harts PROVE TlbFits(g)'
  BY <1>0, <1>1 DEF TlbFits
<1> QED BY <1>2, <1>3, <1>4, <1>8, <1>9 DEF IInv

LEMMA FreeSpaceKeeps ==
    ASSUME IInv, NEW h \in Harts, FreeSpace(h)
    PROVE  IInv'
<1>1. /\ mode[h] = "reap" /\ freeFrames' = freeFrames \cup OwnedBy(job[h].space)
      /\ job' = [job EXCEPT ![h] = NoJob] /\ mode' = [mode EXCEPT ![h] = "flush"]
      /\ UNCHANGED <<st, space, brk, mbase, cur, satp, tlb, leaked>>
  BY DEF FreeSpace, Torn
<1>2. InOneSpot(space', job', freeFrames', leaked')
  <2>1. InOneSpot(space, job, freeFrames, leaked)
    BY Memory DEF IInv
  <2>2. OwnedBy(NoJob.space) = OwnedBy(job[h].space) \ OwnedBy(job[h].space)
    BY NoJobIsNeat
  <2>3. InOneSpot(space, [job EXCEPT ![h] = NoJob], freeFrames \cup OwnedBy(job[h].space), leaked)
    BY <2>1, <2>2, NoJobIsNeat, JobChanges
  <2> QED BY <1>1, <2>3
<1> QED BY <1>1, <1>2, JobEnds

LEMMA BuildFailsKeeps ==
    ASSUME IInv, NEW h \in Harts, BuildFails(h)
    PROVE  IInv'
<1> DEFINE j == job[h]
           s == j.space
<1>0. TypeOK /\ OneUse /\ Control
  BY DEF IInv
<1>1. /\ mode[h] = "build" /\ j.left # {} /\ freeFrames = {}
      /\ freeFrames' = GivenBack(j)
      /\ leaked' = IF CopyFails(j) THEN leaked \cup s.tabs ELSE leaked
      /\ job' = [job EXCEPT ![h] = NoJob] /\ mode' = [mode EXCEPT ![h] = "user"]
      /\ UNCHANGED <<st, space, brk, mbase, cur, satp, tlb>>
  BY DEF BuildFails
<1>2. j \in JobType /\ s \in SpaceType /\ Neat(s) /\ PlanFits(j)
  BY <1>0, <1>1 DEF TypeOK, JobType, OneUse, Control
<1>3. InOneSpot(space, job, freeFrames, leaked)
  BY Memory DEF IInv
<1>4. InOneSpot(space', job', freeFrames', leaked')
  <2>1. CASE ~CopyFails(j)
    <3>1. freeFrames' = freeFrames \cup OwnedBy(s) /\ leaked' = leaked
      BY <1>1, <2>1 DEF GivenBack
    <3>2. OwnedBy(NoJob.space) = OwnedBy(s) \ OwnedBy(s)
      BY NoJobIsNeat
    <3>3. InOneSpot(space, [job EXCEPT ![h] = NoJob], freeFrames \cup OwnedBy(s), leaked)
      BY <1>3, <3>2, NoJobIsNeat, JobChanges
    <3> QED BY <1>1, <3>1, <3>3
  <2>2. CASE CopyFails(j)
    <3> DEFINE z == [s EXCEPT !.root = NoFrame]
               k == [j EXCEPT !.space = z]
    <3>1. freeFrames' = freeFrames \cup {s.root} /\ leaked' = leaked \cup s.tabs
      BY <1>1, <2>2 DEF GivenBack
    <3>2. First(j.left) \in KernelTables /\ First(j.left) \in j.left /\ RootFrame \notin j.left
      BY <1>1, <1>2, <2>2, NextPlace DEF CopyFails
    <3>3. s.root # NoFrame /\ s.tf = NoFrame /\ Mapped(s) = {}
      BY <1>2, <3>2 DEF PlanFits
    <3>4. /\ z \in SpaceType /\ z.root = NoFrame /\ z.tf = NoFrame /\ z.tabs = s.tabs /\ z.leaf = s.leaf
          /\ k \in JobType /\ k.space = z
      BY <1>2, <3>3, Numbers DEF SpaceType, JobType
    <3> HIDE DEF z, k
    <3>5. \A p \in UserPages : s.leaf[p] = NoFrame
      BY <3>3 DEF Mapped
    <3>6. s.root \in Frames /\ s.tabs \subseteq Frames /\ NoFrame \notin Frames /\ s.root \notin s.tabs
      BY <1>2, <3>3, Numbers DEF SpaceType, Neat
    <3>7. OwnedBy(s) = {s.root} \cup s.tabs
      BY <3>3, <3>5, <3>6 DEF OwnedBy, UnderRoot
    <3>8. OwnedBy(z) = s.tabs
      BY <3>4, <3>5, <3>6 DEF OwnedBy, UnderRoot
    <3>9. InOneSpot(space, [job EXCEPT ![h] = k], freeFrames \cup {s.root}, leaked)
      <4>1. OwnedBy(k.space) = OwnedBy(s) \ {s.root} /\ {s.root} \in SUBSET OwnedBy(s)
        BY <3>4, <3>6, <3>7, <3>8
      <4> QED BY <1>3, <3>4, <4>1, JobChanges
    <3> DEFINE j1 == [job EXCEPT ![h] = k]
    <3>10. j1[h] = k /\ [j1 EXCEPT ![h] = NoJob] = [job EXCEPT ![h] = NoJob]
      BY <1>0 DEF TypeOK
    <3>11. InOneSpot(space, j1, freeFrames \cup {s.root}, leaked)
      BY <3>9
    <3> HIDE DEF j1
    <3>12. OwnedBy(NoJob.space) = OwnedBy(j1[h].space) \ s.tabs /\ s.tabs \in SUBSET OwnedBy(j1[h].space)
      BY <3>4, <3>8, <3>10, NoJobIsNeat
    <3>13. InOneSpot(space, [j1 EXCEPT ![h] = NoJob], freeFrames \cup {s.root}, leaked \cup s.tabs)
      BY <3>11, <3>12, NoJobIsNeat, JobChanges
    <3> QED BY <1>1, <3>1, <3>10, <3>13
  <2> QED BY <2>1, <2>2
<1> QED BY <1>1, <1>4, JobEnds

\* A task that was not there, or is a zombie, changes; nobody runs it.
LEMMA TakeZombieKeeps ==
    ASSUME IInv, NEW h \in Harts, NEW t \in Tasks, TakeZombie(h, t)
    PROVE  IInv'
<1> DEFINE k == [NoJob EXCEPT !.op = "reap", !.space = space[t]]
<1>0. TypeOK /\ OneUse /\ Control /\ \A g \in Harts : TlbFits(g)
  BY DEF IInv
<1>1. /\ mode[h] = "user" /\ cur[h] = task0 /\ st[t] = "zombie"
      /\ st' = [st EXCEPT ![t] = "none"] /\ space' = [space EXCEPT ![t] = EmptySpace]
      /\ job' = [job EXCEPT ![h] = k] /\ mode' = [mode EXCEPT ![h] = "reap"]
      /\ UNCHANGED <<freeFrames, brk, mbase, cur, satp, tlb, leaked>>
  BY DEF TakeZombie, InUser
<1>2. \A g \in Harts : mode[g] \notin {"idle", "leave"} => cur[g] \in Tasks /\ cur[g] # t
  BY <1>1, Running
<1>3. space[t] \in SpaceType /\ Neat(space[t])
  BY <1>0 DEF TypeOK, OneUse
<1>4. k \in JobType /\ k.space = space[t] /\ k.op = "reap" /\ k.child = Nobody
  BY <1>3 DEF JobType, NoJob
<1> HIDE DEF k
<1>5. InOneSpot(space', job', freeFrames', leaked')
  <2>1. OwnedBy(job[h].space) = {}
    BY <1>1, NoJobThen, NoJobIsNeat
  <2>2. OwnedBy(k.space) = OwnedBy(space[t]) \cup OwnedBy(job[h].space)
    BY <1>4, <2>1
  <2>3. InOneSpot(space, job, freeFrames, leaked)
    BY Memory DEF IInv
  <2>4. InOneSpot([space EXCEPT ![t] = EmptySpace], [job EXCEPT ![h] = k], freeFrames, leaked)
    BY <1>4, <2>2, <2>3, EmptyIsNeat, Handover
  <2> QED BY <1>1, <2>4
<1>6. /\ space'[t] = EmptySpace /\ st'[t] = "none" /\ mode'[h] = "reap" /\ job'[h] = k
      /\ \A u \in Tasks \ {t} : space'[u] = space[u] /\ st'[u] = st[u]
      /\ \A g \in Harts \ {h} : mode'[g] = mode[g] /\ job'[g] = job[g]
  BY <1>0, <1>1 DEF TypeOK
<1>7. TypeOK'
  <2>1. /\ st' \in [Tasks -> {"none", "ready", "running", "zombie"}]
        /\ mode' \in [Harts -> {"user", "idle", "build", "flush", "reap", "leave"}]
    BY <1>0, <1>1 DEF TypeOK
  <2> QED BY <1>0, <1>1, <1>5, <2>1 DEF TypeOK, InOneSpot
<1>8. OneUse'
  BY <1>0, <1>3, <1>4, <1>6, EmptyIsNeat DEF OneUse
<1>9. OneSpot'
  BY <1>5 DEF OneSpot, InOneSpot
<1>10. ASSUME NEW g \in Harts PROVE OnItsRoot(g)'
  BY <1>0, <1>1, <1>2, <1>6 DEF Control, OnItsRoot
<1>11. ASSUME NEW g \in Harts PROVE JobFits(g)'
  <2>1. CASE g = h
    BY <1>4, <1>6, <2>1 DEF JobFits
  <2>2. CASE g # h
    <3>1. job[g].op = "fork" => job[g].child \in Tasks \ {t} /\ job[g].child # Nobody
      BY <1>0, <1>1, Numbers DEF Control, JobFits
    <3>2. \A x \in Harts \ {g} : job[g].op = "fork" => job'[x].child # job[g].child
      BY <1>0, <1>4, <1>6, <3>1 DEF Control, JobFits
    <3> QED BY <1>0, <1>6, <2>2, <3>1, <3>2 DEF Control, JobFits
  <2> QED BY <2>1, <2>2
<1>12. ASSUME NEW g \in Harts, mode'[g] = "build" PROVE PlanFits(job[g])'
  <2>1. g # h
    BY <1>6, <1>12
  <2> QED BY <1>0, <1>6, <1>12, <2>1 DEF Control, PlanFits
<1>13. ASSUME NEW u \in Tasks
       PROVE  (st[u] = "none" => space[u] = EmptySpace)' /\ (st[u] # "none" => space[u].root # NoFrame)'
  BY <1>0, <1>6 DEF Control
<1>14. Control'
  BY <1>10, <1>11, <1>12, <1>13 DEF Control
<1>15. ASSUME NEW g \in Harts PROVE TlbFits(g)'
  BY <1>0, <1>1, <1>2, <1>6 DEF TlbFits
<1> QED BY <1>7, <1>8, <1>9, <1>14, <1>15 DEF IInv

LEMMA ForkDoneKeeps ==
    ASSUME IInv, NEW h \in Harts, ForkDone(h)
    PROVE  IInv'
<1> DEFINE j == job[h]
           c == j.child
<1>0. TypeOK /\ OneUse /\ Control /\ \A g \in Harts : TlbFits(g)
  BY DEF IInv
<1>1. /\ mode[h] = "build" /\ j.op = "fork" /\ j.left = {}
      /\ st' = [st EXCEPT ![c] = "ready"] /\ space' = [space EXCEPT ![c] = j.space]
      /\ brk' = [brk EXCEPT ![c] = brk[cur[h]]] /\ mbase' = [mbase EXCEPT ![c] = mbase[cur[h]]]
      /\ job' = [job EXCEPT ![h] = NoJob] /\ mode' = [mode EXCEPT ![h] = "user"]
      /\ UNCHANGED <<freeFrames, cur, satp, tlb, leaked>>
  BY DEF ForkDone
<1>2. /\ c \in Tasks /\ st[c] = "none" /\ space[c] = EmptySpace
      /\ \A g \in Harts \ {h} : job[g].child # c
  BY <1>0, <1>1 DEF Control, JobFits
<1>3. \A g \in Harts : mode[g] \notin {"idle", "leave"} => cur[g] \in Tasks /\ cur[g] # c
  BY <1>2, Running
<1>4. j.space \in SpaceType /\ Neat(j.space) /\ j.space.root # NoFrame
  BY <1>0, <1>1 DEF TypeOK, JobType, OneUse, Control, PlanFits
<1>5. InOneSpot(space', job', freeFrames', leaked')
  <2>1. OwnedBy(j.space) = OwnedBy(space[c]) \cup OwnedBy(job[h].space)
    BY <1>2, EmptyIsNeat
  <2>2. InOneSpot(space, job, freeFrames, leaked)
    BY Memory DEF IInv
  <2>3. InOneSpot([space EXCEPT ![c] = j.space], [job EXCEPT ![h] = NoJob], freeFrames, leaked)
    BY <1>2, <1>4, <2>1, <2>2, NoJobIsNeat, Handover
  <2> QED BY <1>1, <2>3
<1>6. /\ space'[c] = j.space /\ st'[c] = "ready" /\ mode'[h] = "user" /\ job'[h] = NoJob
      /\ \A u \in Tasks \ {c} : space'[u] = space[u] /\ st'[u] = st[u]
      /\ \A g \in Harts \ {h} : mode'[g] = mode[g] /\ job'[g] = job[g]
  BY <1>0, <1>1, <1>2 DEF TypeOK
<1>7. TypeOK'
  <2>1. /\ st' \in [Tasks -> {"none", "ready", "running", "zombie"}]
        /\ mode' \in [Harts -> {"user", "idle", "build", "flush", "reap", "leave"}]
    BY <1>0, <1>1 DEF TypeOK
  <2>2. brk' \in [Tasks -> Nat] /\ mbase' \in [Tasks -> 0 .. StackPage]
    BY <1>0, <1>1, <1>3 DEF TypeOK
  <2> QED BY <1>0, <1>1, <1>5, <2>1, <2>2 DEF TypeOK, InOneSpot
<1>8. OneUse'
  BY <1>0, <1>4, <1>6, NoJobIsNeat DEF OneUse
<1>9. OneSpot'
  BY <1>5 DEF OneSpot, InOneSpot
<1>10. ASSUME NEW g \in Harts PROVE OnItsRoot(g)'
  BY <1>0, <1>1, <1>3, <1>6 DEF Control, OnItsRoot
<1>11. ASSUME NEW g \in Harts PROVE JobFits(g)'
  <2>1. CASE g = h
    BY <1>6, <2>1, NoJobIsNeat DEF JobFits
  <2>2. CASE g # h
    <3>1. job[g].op = "fork" => job[g].child \in Tasks \ {c} /\ job[g].child # Nobody
      BY <1>0, <1>2, <2>2, Numbers DEF Control, JobFits
    <3>2. \A x \in Harts \ {g} : job[g].op = "fork" => job'[x].child # job[g].child
      BY <1>0, <1>6, <3>1, NoJobIsNeat DEF Control, JobFits
    <3> QED BY <1>0, <1>6, <2>2, <3>1, <3>2 DEF Control, JobFits
  <2> QED BY <2>1, <2>2
<1>12. ASSUME NEW g \in Harts, mode'[g] = "build" PROVE PlanFits(job[g])'
  <2>1. g # h
    BY <1>6, <1>12
  <2> QED BY <1>0, <1>6, <1>12, <2>1 DEF Control, PlanFits
<1>13. ASSUME NEW u \in Tasks
       PROVE  (st[u] = "none" => space[u] = EmptySpace)' /\ (st[u] # "none" => space[u].root # NoFrame)'
  BY <1>0, <1>4, <1>6 DEF Control
<1>14. Control'
  BY <1>10, <1>11, <1>12, <1>13 DEF Control
<1>15. ASSUME NEW g \in Harts PROVE TlbFits(g)'
  BY <1>0, <1>1, <1>3, <1>6 DEF TlbFits
<1> QED BY <1>7, <1>8, <1>9, <1>14, <1>15 DEF IInv

\* exec keeps the trap frame and gives up everything under the old root.
LEMMA ExecDoneKeeps ==
    ASSUME IInv, NEW h \in Harts, ExecDone(h)
    PROVE  IInv'
<1> DEFINE j == job[h]
           t == cur[h]
           s == space[t]
           z == [j.space EXCEPT !.tf = s.tf]
<1>0. TypeOK /\ OneUse /\ Control /\ \A g \in Harts : TlbFits(g)
  BY DEF IInv
<1>1. /\ mode[h] = "build" /\ j.op = "exec" /\ j.left = {}
      /\ space' = [space EXCEPT ![t] = z] /\ leaked' = leaked \cup UnderRoot(s)
      /\ brk' = [brk EXCEPT ![t] = BrkMin] /\ mbase' = [mbase EXCEPT ![t] = StackPage]
      /\ satp' = [satp EXCEPT ![h] = j.space.root] /\ tlb' = [g \in Harts |-> {}]
      /\ job' = [job EXCEPT ![h] = NoJob] /\ mode' = [mode EXCEPT ![h] = "user"]
      /\ UNCHANGED <<freeFrames, st, cur>>
  BY DEF ExecDone, AfterExecTlb
<1>2. t \in Tasks /\ st[t] = "running" /\ \A g \in Harts \ {h} : cur[g] # t
  BY <1>1, Running
<1>3. /\ j.space \in SpaceType /\ Neat(j.space) /\ j.space.root # NoFrame /\ j.space.tf = NoFrame
      /\ s \in SpaceType /\ Neat(s)
  BY <1>0, <1>1, <1>2 DEF TypeOK, JobType, OneUse, Control, PlanFits
<1>4. InOneSpot(space, job, freeFrames, leaked)
  BY Memory DEF IInv
<1>5. OwnedBy(s) \cap OwnedBy(j.space) = {}
  <2>1. /\ Of(t) \in Spots /\ By(h) \in Spots /\ Of(t) # By(h)
    BY <1>2, HeldAt, SpotsDiffer
  <2> DEFINE H == Held(space, job, freeFrames, leaked)
  <2>2. H[Of(t)] = OwnedBy(s) /\ H[By(h)] = OwnedBy(j.space)
    BY <1>2, HeldAt
  <2>3. H[Of(t)] \cap H[By(h)] = {}
    BY <2>1, <1>4, Apart
  <2> QED BY <2>2, <2>3
<1>6. /\ z \in SpaceType /\ z.tf = s.tf /\ z.root = j.space.root
      /\ z.tabs = j.space.tabs /\ z.leaf = j.space.leaf
  BY <1>3 DEF SpaceType
<1> HIDE DEF z
<1>7. s.tf # NoFrame =>
        /\ s.tf # j.space.root /\ s.tf \notin j.space.tabs
        /\ \A p \in UserPages : j.space.leaf[p] # s.tf
  <2> SUFFICES ASSUME s.tf # NoFrame
               PROVE  /\ s.tf # j.space.root /\ s.tf \notin j.space.tabs
                      /\ \A p \in UserPages : j.space.leaf[p] # s.tf
    OBVIOUS
  <2>1. s.tf \in Frames
    BY <1>3, Numbers DEF SpaceType
  <2>2. s.tf \in OwnedBy(s)
    BY <1>3, <2>1, OwnedIs
  <2>3. s.tf \notin OwnedBy(j.space)
    BY <1>5, <2>2
  <2> QED BY <1>3, <2>1, <2>3, OwnedIs
<1>8. Neat(z)
  BY <1>3, <1>6, <1>7 DEF Neat, Mapped
<1>9. UnderRoot(z) = UnderRoot(j.space)
  BY <1>6 DEF UnderRoot
<1>10. InOneSpot(space', job', freeFrames', leaked')
  <2> DEFINE e == [EmptySpace EXCEPT !.tf = s.tf]
             s1 == [space EXCEPT ![t] = e]
  <2>1. /\ e \in SpaceType /\ e.tf = s.tf /\ e.root = NoFrame /\ e.tabs = {}
        /\ \A p \in UserPages : e.leaf[p] = NoFrame
    BY <1>3, EmptyIsNeat DEF SpaceType, EmptySpace
  <2> HIDE DEF e
  <2>2. OwnedBy(e) = {s.tf} \ {NoFrame}
    BY <2>1 DEF OwnedBy, UnderRoot
  <2>3. s.tf # NoFrame => s.tf \notin UnderRoot(s)
    BY <1>3 DEF Neat, UnderRoot, Mapped
  <2>4. UnderRoot(s) \in SUBSET OwnedBy(s) /\ OwnedBy(e) = OwnedBy(s) \ UnderRoot(s)
    BY <2>2, <2>3 DEF OwnedBy
  <2>5. InOneSpot([space EXCEPT ![t] = e], job, freeFrames, leaked \cup UnderRoot(s))
    BY <1>2, <1>4, <2>1, <2>4, TaskChanges
  <2>6. s1[t] = e /\ [s1 EXCEPT ![t] = z] = [space EXCEPT ![t] = z]
    BY <1>0, <1>2 DEF TypeOK
  <2>7. InOneSpot(s1, job, freeFrames, leaked \cup UnderRoot(s))
    BY <2>5
  <2> HIDE DEF s1
  <2>8. OwnedBy(z) = OwnedBy(s1[t]) \cup OwnedBy(j.space)
    BY <1>3, <1>6, <1>9, <2>2, <2>6 DEF OwnedBy
  <2>9. InOneSpot([s1 EXCEPT ![t] = z], [job EXCEPT ![h] = NoJob], freeFrames, leaked \cup UnderRoot(s))
    BY <1>2, <1>6, <2>7, <2>8, NoJobIsNeat, Handover
  <2> QED BY <1>1, <2>6, <2>9
<1>11. /\ space'[t] = z /\ mode'[h] = "user" /\ job'[h] = NoJob /\ satp'[h] = z.root
       /\ \A u \in Tasks \ {t} : space'[u] = space[u]
       /\ \A g \in Harts \ {h} : mode'[g] = mode[g] /\ job'[g] = job[g] /\ satp'[g] = satp[g]
  BY <1>0, <1>1, <1>2, <1>6 DEF TypeOK
<1>12. TypeOK'
  <2>1. mode' \in [Harts -> {"user", "idle", "build", "flush", "reap", "leave"}]
    BY <1>0, <1>1 DEF TypeOK
  <2>2. brk' \in [Tasks -> Nat] /\ mbase' \in [Tasks -> 0 .. StackPage]
    <3>1. BrkMin \in Nat /\ StackPage \in 0 .. StackPage
      BY Numbers DEF BrkMin, StackPage
    <3> QED BY <1>0, <1>1, <3>1 DEF TypeOK
  <2>3. satp' \in [Harts -> MaybeFrames]
    BY <1>0, <1>1, <1>3 DEF TypeOK, SpaceType
  <2>4. tlb' \in [Harts -> SUBSET (UserPages \X Frames)]
    BY <1>1
  <2> QED BY <1>0, <1>1, <1>10, <2>1, <2>2, <2>3, <2>4 DEF TypeOK, InOneSpot
<1>13. OneUse'
  BY <1>0, <1>8, <1>11, NoJobIsNeat DEF OneUse
<1>14. OneSpot'
  BY <1>10 DEF OneSpot, InOneSpot
<1>15. ASSUME NEW g \in Harts PROVE OnItsRoot(g)'
  <2>1. CASE g = h
    BY <1>1, <1>2, <1>11, <2>1 DEF OnItsRoot
  <2>2. CASE g # h
    BY <1>0, <1>1, <1>2, <1>11, <2>2 DEF Control, OnItsRoot
  <2> QED BY <2>1, <2>2
<1>16. ASSUME NEW g \in Harts PROVE JobFits(g)'
  <2>1. CASE g = h
    BY <1>11, <2>1, NoJobIsNeat DEF JobFits
  <2>2. CASE g # h
    <3>1. job[g].op = "fork" => job[g].child \in Tasks /\ job[g].child # Nobody
      BY <1>0, Numbers DEF Control, JobFits
    <3> QED BY <1>0, <1>1, <1>11, <2>2, <3>1, NoJobIsNeat DEF Control, JobFits
  <2> QED BY <2>1, <2>2
<1>17. ASSUME NEW g \in Harts, mode'[g] = "build" PROVE PlanFits(job[g])'
  <2>1. g # h
    BY <1>11, <1>17
  <2> QED BY <1>0, <1>11, <1>17, <2>1 DEF Control, PlanFits
<1>18. ASSUME NEW u \in Tasks
       PROVE  (st[u] = "none" => space[u] = EmptySpace)' /\ (st[u] # "none" => space[u].root # NoFrame)'
  BY <1>0, <1>1, <1>2, <1>3, <1>6, <1>11 DEF Control
<1>19. Control'
  BY <1>15, <1>16, <1>17, <1>18 DEF Control
<1>20. ASSUME NEW g \in Harts PROVE TlbFits(g)'
  BY <1>1 DEF TlbFits
<1> QED BY <1>12, <1>13, <1>14, <1>19, <1>20 DEF IInv

----------------------------------------------------------------------------
(* The theorem *)

LEMMA InitFits == AsInit => IInv
<1> SUFFICES ASSUME AsInit PROVE IInv
  OBVIOUS
<1>1. FirstSpace \in SpaceType /\ Neat(FirstSpace) /\ FirstSpace.root # NoFrame
  BY FirstSpaceIsNeat
<1>2. EmptySpace \in SpaceType /\ Neat(EmptySpace) /\ OwnedBy(EmptySpace) = {}
  BY EmptyIsNeat
<1>3. /\ NoJob \in JobType /\ Neat(NoJob.space) /\ OwnedBy(NoJob.space) = {}
      /\ NoJob.op = "none" /\ NoJob.child = Nobody
  BY NoJobIsNeat
<1>4. TypeOK
  <2>1. BrkMin \in Nat /\ StackPage \in 0 .. StackPage
    BY Numbers DEF BrkMin, StackPage
  <2>2. KernelRoot \in MaybeFrames
    BY Numbers DEF KernelRoot, NoFrame
  <2> QED BY <1>1, <1>2, <1>3, <2>1, <2>2 DEF TypeOK, AsInit
<1>5. OneUse
  BY <1>1, <1>2, <1>3 DEF OneUse, AsInit
<1>6. OneSpot
  <2> DEFINE H == Held(space, job, freeFrames, leaked)
  <2>1. /\ H[Pool] = Frames \ OwnedBy(FirstSpace) /\ H[Lost] = {}
        /\ \A t \in Tasks : H[Of(t)] = IF t = task0 THEN OwnedBy(FirstSpace) ELSE {}
        /\ \A h \in Harts : H[By(h)] = {}
        /\ Pool \in Spots /\ Of(task0) \in Spots
    <3>1. /\ H[Pool] = freeFrames /\ H[Lost] = leaked
          /\ \A t \in Tasks : H[Of(t)] = OwnedBy(space[t])
          /\ \A h \in Harts : H[By(h)] = OwnedBy(job[h].space)
          /\ Pool \in Spots /\ \A t \in Tasks : Of(t) \in Spots
      BY HeldAt
    <3> HIDE DEF H
    <3>2. freeFrames = Frames \ OwnedBy(FirstSpace) /\ leaked = {}
      BY DEF AsInit
    <3>3. \A t \in Tasks : OwnedBy(space[t]) = IF t = task0 THEN OwnedBy(FirstSpace) ELSE {}
      BY <1>2 DEF AsInit
    <3>4. \A h \in Harts : OwnedBy(job[h].space) = {}
      BY <1>3 DEF AsInit
    <3> QED BY <3>1, <3>2, <3>3, <3>4, Numbers
  <2> HIDE DEF H
  <2>2. ASSUME NEW f \in Frames PROVE \E x \in Spots : \A y \in Spots : f \in H[y] <=> x = y
    <3>1. CASE f \in OwnedBy(FirstSpace)
      <4>1. \A y \in Spots : f \in H[y] <=> Of(task0) = y
        BY <2>1, <3>1, Numbers, SpotsDiffer
      <4> QED BY <2>1, <4>1
    <3>2. CASE f \notin OwnedBy(FirstSpace)
      <4>1. \A y \in Spots : f \in H[y] <=> Pool = y
        BY <2>1, <3>2, SpotsDiffer
      <4> QED BY <2>1, <4>1
    <3> QED BY <3>1, <3>2
  <2> QED BY <2>2 DEF OneSpot, Sorted, H
<1>7. Control
  <2>1. \A h \in Harts : OnItsRoot(h) /\ JobFits(h)
    BY <1>3 DEF OnItsRoot, JobFits, AsInit
  <2> QED BY <1>1, <2>1 DEF Control, AsInit
<1>8. \A h \in Harts : TlbFits(h)
  BY DEF TlbFits, AsInit
<1> QED BY <1>4, <1>5, <1>6, <1>7, <1>8 DEF IInv

LEMMA StepKeeps == IInv /\ [AsNext]_asVars => IInv'
<1> SUFFICES ASSUME IInv, [AsNext]_asVars PROVE IInv'
  OBVIOUS
<1>1. CASE UNCHANGED asVars
  <2>1. /\ freeFrames' = freeFrames /\ st' = st /\ space' = space /\ brk' = brk /\ mbase' = mbase
        /\ mode' = mode /\ cur' = cur /\ job' = job /\ satp' = satp /\ tlb' = tlb /\ leaked' = leaked
    BY <1>1 DEF asVars
  <2>2. (OneUse /\ OneSpot)'
    BY <2>1 DEF IInv, OneUse, OneSpot
  <2>3. TypeOK'
    BY <2>1 DEF IInv, TypeOK
  <2>4. (\A h \in Harts : OnItsRoot(h) /\ JobFits(h) /\ TlbFits(h))'
    BY <2>1 DEF IInv, Control, OnItsRoot, JobFits, TlbFits
  <2>5. (\A h \in Harts : mode[h] = "build" => PlanFits(job[h]))'
    BY <2>1 DEF IInv, Control, PlanFits
  <2>6. (\A t \in Tasks : (st[t] = "none" => space[t] = EmptySpace) /\ (st[t] # "none" => space[t].root # NoFrame))'
    BY <2>1 DEF IInv, Control
  <2> QED BY <2>2, <2>3, <2>4, <2>5, <2>6 DEF IInv, Control
<1>2. CASE AsNext
  <2>1. PICK h \in Harts :
          \/ \E p \in UserPages : Touch(h, p) \/ Munmap(h, p) \/ MapsOnlyFirst(h, p)
          \/ \E t \in Tasks : RunTask(h, t) \/ StartFork(h, t) \/ TakeZombie(h, t)
          \/ \E n \in 1 .. 2 : Grow(h, n) \/ Shrink(h, n)
          \/ Preempt(h) \/ StartExec(h) \/ BuildStep(h) \/ BuildFails(h) \/ ForkDone(h) \/ ExecDone(h)
          \/ Mmap(h) \/ Flush(h) \/ ExitTask(h) \/ LeaveRoot(h) \/ FreeSpace(h)
    BY <1>2 DEF AsNext
  <2>2. ASSUME NEW p \in UserPages, Touch(h, p) \/ Munmap(h, p) \/ MapsOnlyFirst(h, p) PROVE IInv'
    BY <2>2, TouchKeeps, MunmapKeeps, MapsOnlyFirstKeeps
  <2>3. ASSUME NEW t \in Tasks, RunTask(h, t) \/ StartFork(h, t) \/ TakeZombie(h, t) PROVE IInv'
    BY <2>3, RunTaskKeeps, StartForkKeeps, TakeZombieKeeps
  <2>4. ASSUME NEW n \in 1 .. 2, Grow(h, n) \/ Shrink(h, n) PROVE IInv'
    BY <2>4, GrowKeeps, ShrinkKeeps
  <2>5. CASE Preempt(h) \/ ExitTask(h) \/ Flush(h) \/ LeaveRoot(h) \/ Mmap(h)
    BY <2>5, LeaveKeeps, FlushKeeps, MmapKeeps
  <2>6. CASE StartExec(h) \/ BuildStep(h) \/ BuildFails(h)
    BY <2>6, StartExecKeeps, BuildStepKeeps, BuildFailsKeeps
  <2>7. CASE ForkDone(h) \/ ExecDone(h) \/ FreeSpace(h)
    BY <2>7, ForkDoneKeeps, ExecDoneKeeps, FreeSpaceKeeps
  <2> QED BY <2>1, <2>2, <2>3, <2>4, <2>5, <2>6, <2>7
<1> QED BY <1>1, <1>2

\* A frame in one spot has one use.
LEMMA UsesIsOne ==
    ASSUME IInv, NEW f \in Frames
    PROVE  Uses(f) = 1
<1> DEFINE H == Held(space, job, freeFrames, leaked)
           T == {t \in Tasks : f \in OwnedBy(space[t])}
           B == {h \in Harts : f \in OwnedBy(job[h].space)}
<1>1. /\ H[Pool] = freeFrames /\ H[Lost] = leaked
      /\ \A t \in Tasks : H[Of(t)] = OwnedBy(space[t])
      /\ \A h \in Harts : H[By(h)] = OwnedBy(job[h].space)
      /\ Pool \in Spots /\ Lost \in Spots
      /\ (\A t \in Tasks : Of(t) \in Spots) /\ \A h \in Harts : By(h) \in Spots
  BY HeldAt
<1>2. PICK x \in Spots : \A y \in Spots : f \in H[y] <=> x = y
  BY DEF IInv, OneSpot, Sorted
<1> HIDE DEF H
<1>3. Cardinality({}) = 0 /\ \A u : Cardinality({u}) = 1
  BY FS_EmptySet, FS_Singleton
<1>4. Uses(f) = Cardinality(T) + Cardinality(B)
                + (IF f \in freeFrames THEN 1 ELSE 0) + (IF f \in leaked THEN 1 ELSE 0)
  BY DEF Uses
<1>5. CASE x = Pool
  <2>1. T = {} /\ B = {} /\ f \in freeFrames /\ f \notin leaked
    BY <1>1, <1>2, <1>5, SpotsDiffer
  <2> HIDE DEF T, B
  <2>2. Cardinality(T) = 0 /\ Cardinality(B) = 0
    BY <1>3, <2>1
  <2> QED BY <1>4, <2>1, <2>2
<1>6. CASE x = Lost
  <2>1. T = {} /\ B = {} /\ f \notin freeFrames /\ f \in leaked
    BY <1>1, <1>2, <1>6, SpotsDiffer
  <2> HIDE DEF T, B
  <2>2. Cardinality(T) = 0 /\ Cardinality(B) = 0
    BY <1>3, <2>1
  <2> QED BY <1>4, <2>1, <2>2
<1>7. ASSUME NEW t \in Tasks, x = Of(t) PROVE Uses(f) = 1
  <2>1. T = {t} /\ B = {} /\ f \notin freeFrames /\ f \notin leaked
    BY <1>1, <1>2, <1>7, SpotsDiffer
  <2> HIDE DEF T, B
  <2>2. Cardinality(T) = 1 /\ Cardinality(B) = 0
    BY <1>3, <2>1
  <2> QED BY <1>4, <2>1, <2>2
<1>8. ASSUME NEW h \in Harts, x = By(h) PROVE Uses(f) = 1
  <2>1. T = {} /\ B = {h} /\ f \notin freeFrames /\ f \notin leaked
    BY <1>1, <1>2, <1>8, SpotsDiffer
  <2> HIDE DEF T, B
  <2>2. Cardinality(T) = 0 /\ Cardinality(B) = 1
    BY <1>3, <2>1
  <2> QED BY <1>4, <2>1, <2>2
<1> QED BY <1>5, <1>6, <1>7, <1>8, SpotsDiffer

LEMMA InvIsEnough == IInv => MemoryIsOwned
<1> SUFFICES ASSUME IInv PROVE MemoryIsOwned
  OBVIOUS
<1>1. FramesAccountedFor
  <2>1. \A s \in Holders : Neat(s)
    BY DEF IInv, OneUse, Holders
  <2> QED BY <2>1, UsesIsOne DEF FramesAccountedFor, Neat
<1>2. NoStaleTranslation
  BY DEF NoStaleTranslation, IInv, TlbFits
<1>3. RootsAlive
  <2> SUFFICES ASSUME NEW h \in Harts, mode[h] # "leave", satp[h] \in freeFrames PROVE FALSE
    BY DEF RootsAlive
  <2>1. satp[h] \in Frames /\ satp[h] # KernelRoot
    BY Numbers DEF IInv, TypeOK, KernelRoot, NoFrame
  <2>2. cur[h] \in Tasks /\ satp[h] = space[cur[h]].root
    BY <2>1 DEF IInv, Control, OnItsRoot
  <2>3. space[cur[h]] \in SpaceType
    BY <2>2 DEF IInv, TypeOK
  <2>4. satp[h] \in OwnedBy(space[cur[h]])
    BY <2>1, <2>2, <2>3, OwnedIs
  <2> DEFINE H == Held(space, job, freeFrames, leaked)
  <2>5. H[Of(cur[h])] = OwnedBy(space[cur[h]]) /\ H[Pool] = freeFrames
        /\ Of(cur[h]) \in Spots /\ Pool \in Spots
    BY <2>2, HeldAt
  <2>6. H[Of(cur[h])] \cap H[Pool] = {}
    <3>1. InOneSpot(space, job, freeFrames, leaked)
      BY Memory DEF IInv
    <3>2. Of(cur[h]) # Pool
      BY <2>2, SpotsDiffer
    <3> QED BY <2>5, <3>1, <3>2, Apart
  <2> QED BY <2>4, <2>5, <2>6
<1> QED BY <1>1, <1>2, <1>3 DEF MemoryIsOwned

\* Frames, translations and roots (mem/frame.rs, mem/mod.rs, pagetable.rs, and fork,
\* exec, sbrk, mmap, munmap, exit and waitpid over them): for any number of tasks,
\* harts, frames and pages, every frame is free, lost or in one place of one space, a
\* hart in a program translates by that program's own pages only, and no hart but one
\* that leaves a task is on a root that is free.
THEOREM FramesAreOwned == AsSpec => []MemoryIsOwned
<1>1. AsSpec => []IInv
  BY InitFits, StepKeeps, PTL DEF AsSpec
<1> QED BY <1>1, InvIsEnough, PTL

----------------------------------------------------------------------------
(* The kernel heap *)

FreeNode == [at : Nat, size : Nat \ {0}]
Block    == [at : Nat, asked : HeapSizes, size : Nat \ {0}]

\* The piece x lies wholly below the piece y.
Below(x, y) == x.at + x.size <= y.at
Clear(x, y) == Below(x, y) \/ Below(y, x)
Covers(x, c) == x.at <= c /\ c < x.at + x.size

HeapTypeOK ==
    /\ freeList \in Seq(FreeNode)
    /\ blocks \subseteq Block
    /\ \A i \in 1 .. Len(freeList) : freeList[i].at + freeList[i].size <= HeapCells
    /\ \A b \in blocks : b.at + b.size <= HeapCells /\ b.asked + 1 <= b.size

\* The free nodes come in the order of their addresses and never touch.
NodesApart ==
    \A i, j \in 1 .. Len(freeList) :
      i < j => freeList[i].at + freeList[i].size < freeList[j].at

BlocksApart ==
    /\ \A b, c \in blocks : b # c => Clear(b, c)
    /\ \A i \in 1 .. Len(freeList), b \in blocks : Clear(freeList[i], b)

NoCellLost ==
    \A c \in 0 .. HeapCells - 1 :
      \/ \E i \in 1 .. Len(freeList) : Covers(freeList[i], c)
      \/ \E b \in blocks : Covers(b, c)

HeapInv == HeapTypeOK /\ NodesApart /\ BlocksApart /\ NoCellLost

LEMMA HeapStarts == HeapInit => HeapInv
<1> SUFFICES ASSUME HeapInit PROVE HeapInv
  OBVIOUS
<1> DEFINE whole == [at |-> 0, size |-> HeapCells]
<1>1. whole \in FreeNode
  BY KHeapAssumption DEF FreeNode
<1>2. freeList = <<whole>> /\ blocks = {}
  BY DEF HeapInit
<1>3. freeList \in Seq(FreeNode) /\ Len(freeList) = 1 /\ freeList[1] = whole
  BY <1>1, <1>2
<1>4. whole.at = 0 /\ whole.size = HeapCells /\ HeapCells \in Nat
  BY KHeapAssumption
<1> HIDE DEF whole
<1>5. 1 .. Len(freeList) = {1}
  BY <1>3
<1> QED BY <1>2, <1>3, <1>4, <1>5
        DEF HeapInv, HeapTypeOK, NodesApart, BlocksApart, NoCellLost, Covers

LEMMA LeastIndex ==
    ASSUME NEW S \in SUBSET Nat, S # {}
    PROVE  \E k \in S : \A l \in S : k <= l
<1>1. PICK k \in S : \A y \in S : <<y, k>> \notin NatOrder
  BY NatOrderWellFounded, WFMin
<1>2. \A l \in S : k <= l
  <2> SUFFICES ASSUME NEW l \in S, ~(k <= l) PROVE FALSE
    OBVIOUS
  <2>1. <<l, k>> \in NatOrder
    BY DEF NatOrder
  <2> QED BY <2>1, <1>1
<1> QED BY <1>2

\* What a piece of a node touches, the node touches.
LEMMA PartIsApart ==
    ASSUME NEW x, NEW y, NEW z, {x.at, x.size, y.at, y.size, z.at, z.size} \subseteq Nat,
           y.at <= x.at, x.at + x.size <= y.at + y.size, Clear(y, z)
    PROVE  Clear(x, z) /\ Clear(z, x)
BY DEF Clear, Below

\* The list without its i-th node.
LEMMA WithoutOne ==
    ASSUME NEW S, NEW s \in Seq(S), NEW i \in 1 .. Len(s)
    PROVE  /\ Without(s, i) \in Seq(S)
           /\ Len(Without(s, i)) = Len(s) - 1
           /\ \A j \in 1 .. Len(s) - 1 : Without(s, i)[j] = IF j < i THEN s[j] ELSE s[j + 1]
<1> DEFINE a == SubSeq(s, 1, i - 1)
           b == SubSeq(s, i + 1, Len(s))
<1>1. a \in Seq(S) /\ Len(a) = i - 1 /\ \A j \in 1 .. i - 1 : a[j] = s[j]
  OBVIOUS
<1>2. b \in Seq(S) /\ Len(b) = Len(s) - i /\ \A j \in 1 .. Len(s) - i : b[j] = s[i + j]
  <2>1. Len(s) \in Nat
    OBVIOUS
  <2>2. CASE i = Len(s)
    BY <2>1, <2>2
  <2>3. CASE i < Len(s)
    BY <2>1, <2>3
  <2> QED BY <2>1, <2>2, <2>3
<1>3. Without(s, i) = a \o b
  BY DEF Without
<1> HIDE DEF a, b
<1>4. /\ a \o b \in Seq(S) /\ Len(a \o b) = Len(a) + Len(b)
      /\ \A j \in 1 .. Len(a) + Len(b) : (a \o b)[j] = IF j <= Len(a) THEN a[j] ELSE b[j - Len(a)]
  BY <1>1, <1>2, ConcatProperties
<1>5. ASSUME NEW j \in 1 .. Len(s) - 1
      PROVE  (a \o b)[j] = IF j < i THEN s[j] ELSE s[j + 1]
  <2>1. Len(s) \in Nat
    OBVIOUS
  <2>2. CASE j < i
    BY <2>1, <2>2, <1>1, <1>2, <1>4
  <2>3. CASE ~(j < i)
    <3>1. j - (i - 1) \in 1 .. Len(s) - i /\ i + (j - (i - 1)) = j + 1
      BY <2>1, <2>3
    <3>2. b[j - (i - 1)] = s[j + 1]
      BY <1>2, <3>1
    <3> QED BY <2>1, <2>3, <3>2, <1>1, <1>2, <1>4
  <2> QED BY <2>2, <2>3
<1> QED BY <1>1, <1>2, <1>3, <1>4, <1>5

NewBlock(at, n) == [at |-> at, asked |-> n, size |-> n + 1]

LEMMA HeapNumbers ==
    ASSUME HeapTypeOK
    PROVE  /\ HeapCells \in Nat /\ \A n \in HeapSizes : n \in Nat \ {0}
           /\ Len(freeList) \in Nat /\ DOMAIN freeList = 1 .. Len(freeList)
           /\ \A i \in 1 .. Len(freeList) :
                /\ freeList[i] \in FreeNode
                /\ freeList[i].at \in Nat /\ freeList[i].size \in Nat \ {0}
                /\ freeList[i].at + freeList[i].size <= HeapCells
           /\ \A b \in blocks :
                /\ b \in Block
                /\ b.at \in Nat /\ b.size \in Nat \ {0} /\ b.asked \in HeapSizes /\ b.asked \in Nat \ {0}
                /\ b.at + b.size <= HeapCells /\ b.asked + 1 <= b.size
<1>1. HeapCells \in Nat /\ \A n \in HeapSizes : n \in Nat \ {0}
  BY KHeapAssumption
<1>2. freeList \in Seq(FreeNode)
  BY DEF HeapTypeOK
<1>3. Len(freeList) \in Nat /\ DOMAIN freeList = 1 .. Len(freeList)
  BY <1>2
<1>4. ASSUME NEW i \in 1 .. Len(freeList)
      PROVE  /\ freeList[i] \in FreeNode
             /\ freeList[i].at \in Nat /\ freeList[i].size \in Nat \ {0}
             /\ freeList[i].at + freeList[i].size <= HeapCells
  <2>1. freeList[i] \in FreeNode
    BY <1>2
  <2> QED BY <2>1 DEF HeapTypeOK, FreeNode
<1>5. ASSUME NEW b \in blocks
      PROVE  /\ b \in Block
             /\ b.at \in Nat /\ b.size \in Nat \ {0} /\ b.asked \in HeapSizes /\ b.asked \in Nat \ {0}
             /\ b.at + b.size <= HeapCells /\ b.asked + 1 <= b.size
  <2>1. b \in Block
    BY DEF HeapTypeOK
  <2> QED BY <2>1, <1>1 DEF HeapTypeOK, Block
<1> QED BY <1>1, <1>3, <1>4, <1>5

LEMMA AllocMeans ==
    ASSUME HeapTypeOK, NEW n \in HeapSizes, HeapAlloc(n)
    PROVE  \E i \in 1 .. Len(freeList) :
             /\ freeList[i].size >= n + 1
             /\ blocks' = blocks \cup {NewBlock(freeList[i].at, n)}
             /\ \/ /\ freeList[i].size > n + 1
                   /\ freeList' = [freeList EXCEPT ![i] = [at |-> freeList[i].at + (n + 1),
                                                           size |-> freeList[i].size - (n + 1)]]
                \/ /\ freeList[i].size = n + 1
                   /\ freeList' = Without(freeList, i)
<1> DEFINE fits == {i \in DOMAIN freeList : freeList[i].size >= Need(n)}
<1>1. fits \in SUBSET Nat /\ fits # {} /\ fits \subseteq 1 .. Len(freeList)
  BY HeapNumbers DEF HeapAlloc
<1>2. \E k \in fits : \A l \in fits : k <= l
  <2> HIDE DEF fits
  <2> QED BY <1>1, LeastIndex
<1> DEFINE i == CHOOSE k \in fits : \A l \in fits : k <= l
<1>3. i \in fits
  BY <1>2
<1> DEFINE node == freeList[i]
<1> DEFINE split == node.size >= Need(n) + 1
<1>4. /\ freeList' = IF split THEN [freeList EXCEPT ![i] = Rest(node, n)] ELSE Without(freeList, i)
      /\ blocks' = blocks \cup {[at |-> node.at, asked |-> n,
                                 size |-> IF split THEN Need(n) ELSE node.size]}
  BY DEF HeapAlloc
<1>5. node.size >= n + 1 /\ i \in 1 .. Len(freeList)
  BY <1>1, <1>3 DEF Need
<1> HIDE DEF i, fits
<1>6. node.size \in Nat /\ node.at \in Nat /\ n \in Nat
  BY <1>5, HeapNumbers
<1>7. CASE split
  <2>1. node.size > n + 1
    BY <1>6, <1>7 DEF Need
  <2> QED BY <2>1, <1>4, <1>5, <1>7 DEF NewBlock, Rest, Need
<1>8. CASE ~split
  <2>1. node.size = n + 1
    BY <1>5, <1>6, <1>8 DEF Need
  <2> QED BY <2>1, <1>4, <1>5, <1>8 DEF NewBlock
<1> QED BY <1>7, <1>8

\* What a block taken from the front of a node may meet.
LEMMA NewBlockFits ==
    ASSUME HeapInv, NEW n \in HeapSizes, NEW i \in 1 .. Len(freeList), freeList[i].size >= n + 1
    PROVE  LET b == NewBlock(freeList[i].at, n) IN
           /\ b \in Block /\ b.at = freeList[i].at /\ b.size = n + 1 /\ b.asked = n
           /\ b.at + b.size <= HeapCells /\ b.asked + 1 <= b.size
           /\ \A c \in blocks : Clear(b, c) /\ Clear(c, b)
           /\ \A j \in 1 .. Len(freeList) : j # i => Clear(freeList[j], b)
<1> DEFINE b == NewBlock(freeList[i].at, n)
<1>0. HeapTypeOK
  BY DEF HeapInv
<1>1. b.at = freeList[i].at /\ b.size = n + 1 /\ b.asked = n
  BY DEF NewBlock
<1>2. n \in Nat /\ freeList[i].at \in Nat /\ freeList[i].size \in Nat
  BY <1>0, HeapNumbers
<1>3. b \in Block
  BY <1>2 DEF NewBlock, Block
<1> HIDE DEF b
<1>4. b.at + b.size <= HeapCells /\ b.asked + 1 <= b.size
  BY <1>0, <1>1, <1>2, HeapNumbers
<1>5. ASSUME NEW c \in blocks PROVE Clear(b, c) /\ Clear(c, b)
  <2>1. Clear(freeList[i], c)
    BY DEF HeapInv, BlocksApart
  <2>2. c.at \in Nat /\ c.size \in Nat
    BY <1>0, HeapNumbers
  <2> QED BY <2>1, <2>2, <1>1, <1>2 DEF Clear, Below
<1>6. ASSUME NEW j \in 1 .. Len(freeList), j # i PROVE Clear(freeList[j], b)
  <2>1. freeList[j].at \in Nat /\ freeList[j].size \in Nat
    BY <1>0, HeapNumbers
  <2>2. i < j \/ j < i
    BY <1>6
  <2>3. \/ freeList[i].at + freeList[i].size < freeList[j].at
        \/ freeList[j].at + freeList[j].size < freeList[i].at
    BY <2>2 DEF HeapInv, NodesApart
  <2> QED BY SMTT(20), <2>1, <2>3, <1>1, <1>2 DEF Clear, Below
<1> QED BY <1>1, <1>3, <1>4, <1>5, <1>6 DEF b

LEMMA AllocSplits ==
    ASSUME HeapInv, NEW n \in HeapSizes, NEW i \in 1 .. Len(freeList),
           freeList[i].size > n + 1,
           blocks' = blocks \cup {NewBlock(freeList[i].at, n)},
           freeList' = [freeList EXCEPT ![i] = [at |-> freeList[i].at + (n + 1),
                                                size |-> freeList[i].size - (n + 1)]]
    PROVE  HeapInv'
<1> DEFINE b == NewBlock(freeList[i].at, n)
<1> DEFINE rest == [at |-> freeList[i].at + (n + 1), size |-> freeList[i].size - (n + 1)]
<1>0. HeapTypeOK /\ NodesApart /\ BlocksApart /\ NoCellLost
  BY DEF HeapInv
<1>1. n \in Nat /\ freeList[i].at \in Nat /\ freeList[i].size \in Nat
  BY <1>0, HeapNumbers
<1>2. freeList[i].size >= n + 1
  BY <1>1
<1>3. /\ b \in Block /\ b.at = freeList[i].at /\ b.size = n + 1
      /\ b.at + b.size <= HeapCells /\ b.asked + 1 <= b.size
      /\ \A c \in blocks : Clear(b, c) /\ Clear(c, b)
      /\ \A j \in 1 .. Len(freeList) : j # i => Clear(freeList[j], b)
  BY <1>2, NewBlockFits
<1>4. rest \in FreeNode /\ rest.at = freeList[i].at + (n + 1) /\ rest.size = freeList[i].size - (n + 1)
  BY <1>1 DEF FreeNode
<1>5. blocks' = blocks \cup {b} /\ freeList' = [freeList EXCEPT ![i] = rest]
  OBVIOUS
<1> HIDE DEF b, rest
<1>6. freeList \in Seq(FreeNode)
  BY <1>0 DEF HeapTypeOK
<1>7. /\ freeList' \in Seq(FreeNode) /\ Len(freeList') = Len(freeList)
      /\ freeList'[i] = rest
      /\ \A j \in 1 .. Len(freeList) : j # i => freeList'[j] = freeList[j]
  BY <1>4, <1>5, <1>6, HeapNumbers, <1>0
<1>8. ASSUME NEW j \in 1 .. Len(freeList)
      PROVE  /\ freeList[j].at \in Nat /\ freeList[j].size \in Nat
             /\ freeList'[j].at \in Nat /\ freeList'[j].size \in Nat
             /\ freeList[j].at <= freeList'[j].at
             /\ freeList'[j].at + freeList'[j].size = freeList[j].at + freeList[j].size
  <2>1. freeList[j].at \in Nat /\ freeList[j].size \in Nat
    BY <1>0, HeapNumbers
  <2>2. CASE j = i
    <3>1. freeList'[j].at = freeList[j].at + (n + 1) /\ freeList'[j].size = freeList[j].size - (n + 1)
      BY <2>2, <1>4, <1>7
    <3>2. freeList[j].size >= n + 1
      BY <2>2, <1>2
    <3>3. \A x, y, m \in Nat : y >= m + 1 =>
             x + (m + 1) \in Nat /\ y - (m + 1) \in Nat /\ x <= x + (m + 1)
             /\ (x + (m + 1)) + (y - (m + 1)) = x + y
      OBVIOUS
    <3>4. n \in Nat
      BY <1>1
    <3>5. /\ freeList[j].at + (n + 1) \in Nat /\ freeList[j].size - (n + 1) \in Nat
          /\ freeList[j].at <= freeList[j].at + (n + 1)
          /\ (freeList[j].at + (n + 1)) + (freeList[j].size - (n + 1)) = freeList[j].at + freeList[j].size
      BY <2>1, <3>2, <3>3, <3>4
    <3> QED BY <2>1, <3>1, <3>5
  <2>3. CASE j # i
    BY <2>1, <2>3, <1>7
  <2> QED BY <2>2, <2>3
<1>9. HeapTypeOK'
  <2>1. \A j \in 1 .. Len(freeList') : freeList'[j].at + freeList'[j].size <= HeapCells
    BY <1>7, <1>8, <1>0, HeapNumbers
  <2>2. blocks' \subseteq Block /\ \A c \in blocks' : c.at + c.size <= HeapCells /\ c.asked + 1 <= c.size
    BY <1>0, <1>3, <1>5 DEF HeapTypeOK
  <2> QED BY <2>1, <2>2, <1>7 DEF HeapTypeOK
<1>10. NodesApart'
  <2> SUFFICES ASSUME NEW j \in 1 .. Len(freeList), NEW k \in 1 .. Len(freeList), j < k
               PROVE  freeList'[j].at + freeList'[j].size < freeList'[k].at
    BY <1>7 DEF NodesApart
  <2>1. freeList[j].at + freeList[j].size < freeList[k].at
    BY <1>0 DEF NodesApart
  <2>2. /\ freeList'[j].at + freeList'[j].size = freeList[j].at + freeList[j].size
        /\ freeList[k].at <= freeList'[k].at
        /\ freeList[j].at \in Nat /\ freeList[j].size \in Nat
        /\ freeList[k].at \in Nat /\ freeList'[k].at \in Nat
    BY <1>8
  <2> QED BY <2>1, <2>2
<1>11. BlocksApart'
  <2>1. \A c, d \in blocks' : c # d => Clear(c, d)
    BY <1>0, <1>3, <1>5 DEF BlocksApart
  <2>2. ASSUME NEW j \in 1 .. Len(freeList), NEW c \in blocks PROVE Clear(freeList'[j], c)
    <3>1. Clear(freeList[j], c) /\ c.at \in Nat /\ c.size \in Nat
      BY <1>0, HeapNumbers DEF BlocksApart
    <3>2. freeList'[j].at + freeList'[j].size <= freeList[j].at + freeList[j].size
      BY <1>8
    <3> QED BY SMTT(20), <3>1, <3>2, <1>8 DEF Clear, Below
  <2>3. ASSUME NEW j \in 1 .. Len(freeList) PROVE Clear(freeList'[j], b)
    <3>1. CASE j = i
      BY <3>1, <1>1, <1>3, <1>4, <1>7 DEF Clear, Below
    <3>2. CASE j # i
      BY <3>2, <1>3, <1>7
    <3> QED BY <3>1, <3>2
  <2> QED BY <2>1, <2>2, <2>3, <1>5, <1>7 DEF BlocksApart
<1>12. NoCellLost'
  <2> SUFFICES ASSUME NEW c \in 0 .. HeapCells - 1
               PROVE  \/ \E j \in 1 .. Len(freeList) : Covers(freeList'[j], c)
                      \/ \E d \in blocks' : Covers(d, c)
    BY <1>7 DEF NoCellLost
  <2>1. CASE \E d \in blocks : Covers(d, c)
    BY <2>1, <1>5
  <2>2. ASSUME NEW j \in 1 .. Len(freeList), Covers(freeList[j], c)
        PROVE  Covers(freeList'[j], c) \/ Covers(b, c)
    <3>1. CASE j # i
      BY <3>1, <2>2, <1>7
    <3>2. CASE j = i
      BY <3>2, <2>2, <1>1, <1>2, <1>3, <1>4, <1>7, HeapNumbers, <1>0 DEF Covers
    <3> QED BY <3>1, <3>2
  <2>3. b \in blocks'
    BY <1>5
  <2> QED BY <2>1, <2>2, <2>3, <1>0 DEF NoCellLost
<1> QED BY <1>9, <1>10, <1>11, <1>12 DEF HeapInv

LEMMA AllocTakesAll ==
    ASSUME HeapInv, NEW n \in HeapSizes, NEW i \in 1 .. Len(freeList),
           freeList[i].size = n + 1,
           blocks' = blocks \cup {NewBlock(freeList[i].at, n)},
           freeList' = Without(freeList, i)
    PROVE  HeapInv'
<1> DEFINE b == NewBlock(freeList[i].at, n)
<1> DEFINE Was(j) == IF j < i THEN j ELSE j + 1
<1>0. HeapTypeOK /\ NodesApart /\ BlocksApart /\ NoCellLost
  BY DEF HeapInv
<1>1. n \in Nat /\ freeList[i].at \in Nat /\ freeList[i].size \in Nat /\ freeList[i].size >= n + 1
  BY <1>0, HeapNumbers
<1>3. /\ b \in Block /\ b.at = freeList[i].at /\ b.size = n + 1
      /\ b.at + b.size <= HeapCells /\ b.asked + 1 <= b.size
      /\ \A c \in blocks : Clear(b, c) /\ Clear(c, b)
      /\ \A j \in 1 .. Len(freeList) : j # i => Clear(freeList[j], b)
  BY <1>1, NewBlockFits
<1>5. blocks' = blocks \cup {b}
  OBVIOUS
<1> HIDE DEF b
<1>6. freeList \in Seq(FreeNode) /\ Len(freeList) \in Nat
  BY <1>0 DEF HeapTypeOK
<1>7. /\ freeList' \in Seq(FreeNode) /\ Len(freeList') = Len(freeList) - 1
      /\ \A j \in 1 .. Len(freeList) - 1 : freeList'[j] = freeList[Was(j)]
  BY <1>6, WithoutOne
<1>8. /\ \A j \in 1 .. Len(freeList) - 1 : Was(j) \in 1 .. Len(freeList) /\ Was(j) # i
      /\ \A j, k \in 1 .. Len(freeList) - 1 : j < k => Was(j) < Was(k)
      /\ \A k \in 1 .. Len(freeList) : k # i => \E j \in 1 .. Len(freeList) - 1 : Was(j) = k
  <2>1. \A j \in 1 .. Len(freeList) - 1 : Was(j) \in 1 .. Len(freeList) /\ Was(j) # i
    BY <1>6
  <2>2. \A j, k \in 1 .. Len(freeList) - 1 : j < k => Was(j) < Was(k)
    BY <1>6
  <2>3. ASSUME NEW k \in 1 .. Len(freeList), k # i PROVE \E j \in 1 .. Len(freeList) - 1 : Was(j) = k
    <3>1. CASE k < i
      <4>1. k \in 1 .. Len(freeList) - 1 /\ Was(k) = k
        BY <3>1, <1>6
      <4> QED BY <4>1
    <3>2. CASE ~(k < i)
      <4>1. k - 1 \in 1 .. Len(freeList) - 1 /\ Was(k - 1) = k
        BY <2>3, <3>2, <1>6
      <4> QED BY <4>1
    <3> QED BY <3>1, <3>2
  <2> QED BY <2>1, <2>2, <2>3
<1> HIDE DEF Was
<1>9. HeapTypeOK'
  <2>1. \A j \in 1 .. Len(freeList') : freeList'[j].at + freeList'[j].size <= HeapCells
    BY <1>7, <1>8, <1>0 DEF HeapTypeOK
  <2>2. blocks' \subseteq Block /\ \A c \in blocks' : c.at + c.size <= HeapCells /\ c.asked + 1 <= c.size
    BY <1>0, <1>3, <1>5 DEF HeapTypeOK
  <2> QED BY <2>1, <2>2, <1>7 DEF HeapTypeOK
<1>10. NodesApart'
  <2> SUFFICES ASSUME NEW j \in 1 .. Len(freeList) - 1, NEW k \in 1 .. Len(freeList) - 1, j < k
               PROVE  freeList'[j].at + freeList'[j].size < freeList'[k].at
    BY <1>7 DEF NodesApart
  <2> QED BY <1>0, <1>7, <1>8 DEF NodesApart
<1>11. BlocksApart'
  <2>1. \A c, d \in blocks' : c # d => Clear(c, d)
    BY <1>0, <1>3, <1>5 DEF BlocksApart
  <2>2. \A j \in 1 .. Len(freeList) - 1, c \in blocks' : Clear(freeList'[j], c)
    BY <1>0, <1>3, <1>5, <1>7, <1>8 DEF BlocksApart
  <2> QED BY <2>1, <2>2, <1>7 DEF BlocksApart
<1>12. NoCellLost'
  <2> SUFFICES ASSUME NEW c \in 0 .. HeapCells - 1
               PROVE  \/ \E j \in 1 .. Len(freeList) - 1 : Covers(freeList'[j], c)
                      \/ \E d \in blocks' : Covers(d, c)
    BY <1>7 DEF NoCellLost
  <2>1. CASE \E d \in blocks : Covers(d, c)
    BY <2>1, <1>5
  <2>2. ASSUME NEW k \in 1 .. Len(freeList), k # i, Covers(freeList[k], c)
        PROVE  \E j \in 1 .. Len(freeList) - 1 : Covers(freeList'[j], c)
    BY <2>2, <1>7, <1>8
  <2>3. Covers(freeList[i], c) => Covers(b, c)
    BY <1>3 DEF Covers
  <2>4. b \in blocks'
    BY <1>5
  <2> QED BY <2>1, <2>2, <2>3, <2>4, <1>0 DEF NoCellLost
<1> QED BY <1>9, <1>10, <1>11, <1>12 DEF HeapInv

\* A set of the first places of a list is known by its size.
LEMMA FirstPlaces ==
    ASSUME NEW n \in Nat, NEW S \in SUBSET (1 .. n),
           \A i, j \in 1 .. n : (i < j /\ j \in S) => i \in S
    PROVE  Cardinality(S) \in 0 .. n /\ S = 1 .. Cardinality(S)
<1> DEFINE T == {k \in Nat : k + 1 \notin S}
<1>1. n \in T
  OBVIOUS
<1>2. T \in SUBSET Nat /\ T # {}
  BY <1>1
<1> HIDE DEF T
<1>3. PICK k \in T : \A l \in T : k <= l
  BY <1>2, LeastIndex
<1>4. k \in Nat /\ k + 1 \notin S /\ k <= n
  BY <1>1, <1>2, <1>3 DEF T
<1>5. 1 .. k \subseteq S
  <2> SUFFICES ASSUME NEW i \in 1 .. k, i \notin S PROVE FALSE
    OBVIOUS
  <2>1. i - 1 \in Nat /\ (i - 1) + 1 = i
    BY <1>4
  <2>2. i - 1 \in T
    BY <2>1 DEF T
  <2> QED BY <2>2, <1>3, <1>4
<1>6. S \subseteq 1 .. k
  <2> SUFFICES ASSUME NEW i \in S, ~(i <= k) PROVE FALSE
    BY <1>4
  <2>1. i \in 1 .. n
    OBVIOUS
  <2>2. CASE i = k + 1
    BY <2>2, <1>4
  <2>3. CASE i > k + 1
    <3>1. k + 1 \in 1 .. n
      BY <2>1, <2>3, <1>4
    <3> QED BY <2>1, <2>3, <3>1, <1>4
  <2> QED BY <2>1, <2>2, <2>3, <1>4
<1>7. S = 1 .. k
  BY <1>5, <1>6
<1>8. Cardinality(1 .. k) = k
  <2>1. Cardinality(1 .. k) = IF 1 > k THEN 0 ELSE (k - 1) + 1
    BY <1>4, FS_Interval
  <2> QED BY <2>1, <1>4
<1> QED BY <1>4, <1>7, <1>8

Replaced(s, a, m, c) == (SubSeq(s, 1, a) \o <<m>>) \o SubSeq(s, c, Len(s))

\* A list of which the places from a + 1 to c - 1 are replaced by one.
LEMMA PlacesReplaced ==
    ASSUME NEW S, NEW s \in Seq(S), NEW m \in S, NEW a \in 0 .. Len(s), NEW c \in 1 .. Len(s) + 1,
           a < c
    PROVE  /\ Replaced(s, a, m, c) \in Seq(S) /\ Len(Replaced(s, a, m, c)) = a + 2 + Len(s) - c
           /\ \A j \in 1 .. a : Replaced(s, a, m, c)[j] = s[j]
           /\ Replaced(s, a, m, c)[a + 1] = m
           /\ \A j \in c .. Len(s) : Replaced(s, a, m, c)[a + 2 + j - c] = s[j]
<1> DEFINE x == SubSeq(s, 1, a)
           z == SubSeq(s, c, Len(s))
           y == x \o <<m>>
<1>0. Len(s) \in Nat /\ a \in Nat /\ c \in Nat
  OBVIOUS
<1>1. x \in Seq(S) /\ Len(x) = a /\ \A j \in 1 .. a : x[j] = s[j]
  BY <1>0
<1>2. z \in Seq(S) /\ Len(z) = Len(s) + 1 - c /\ \A j \in 1 .. Len(s) + 1 - c : z[j] = s[c + j - 1]
  <2>1. CASE c = Len(s) + 1
    BY <2>1, <1>0
  <2>2. CASE c <= Len(s)
    BY <2>2, <1>0
  <2> QED BY <2>1, <2>2, <1>0
<1>3. <<m>> \in Seq(S) /\ Len(<<m>>) = 1 /\ <<m>>[1] = m
  OBVIOUS
<1> HIDE DEF x, z
<1>4. y \in Seq(S) /\ Len(y) = a + 1 /\ y[a + 1] = m /\ \A j \in 1 .. a : y[j] = x[j]
  <2>1. /\ x \o <<m>> \in Seq(S) /\ Len(x \o <<m>>) = Len(x) + Len(<<m>>)
        /\ \A j \in 1 .. Len(x) + Len(<<m>>) :
             (x \o <<m>>)[j] = IF j <= Len(x) THEN x[j] ELSE <<m>>[j - Len(x)]
    BY <1>1, <1>3, ConcatProperties
  <2>2. (a + 1) - a = 1 /\ ~(a + 1 <= a) /\ a + 1 \in 1 .. a + 1
    BY <1>0
  <2>3. y[a + 1] = m
    BY <2>1, <2>2, <1>1, <1>3
  <2>4. \A j \in 1 .. a : y[j] = x[j]
    BY <2>1, <1>0, <1>1, <1>3
  <2> QED BY <2>1, <2>3, <2>4, <1>1, <1>3
<1> HIDE DEF y
<1>5. /\ y \o z \in Seq(S) /\ Len(y \o z) = Len(y) + Len(z)
      /\ \A j \in 1 .. Len(y) + Len(z) : (y \o z)[j] = IF j <= Len(y) THEN y[j] ELSE z[j - Len(y)]
  BY <1>2, <1>4, ConcatProperties
<1>6. Len(y \o z) = a + 2 + Len(s) - c
  BY <1>0, <1>2, <1>4, <1>5
<1>7. \A j \in 1 .. a : (y \o z)[j] = s[j]
  BY <1>0, <1>1, <1>2, <1>4, <1>5
<1>8. (y \o z)[a + 1] = m
  BY <1>0, <1>2, <1>4, <1>5
<1>9. ASSUME NEW j \in c .. Len(s) PROVE (y \o z)[a + 2 + j - c] = s[j]
  <2>1. /\ a + 2 + j - c \in 1 .. Len(y) + Len(z) /\ ~(a + 2 + j - c <= Len(y))
        /\ (a + 2 + j - c) - Len(y) = j + 1 - c /\ j + 1 - c \in 1 .. Len(s) + 1 - c
        /\ c + (j + 1 - c) - 1 = j
    BY <1>0, <1>2, <1>4
  <2>2. z[j + 1 - c] = s[j]
    BY <2>1, <1>2
  <2> QED BY <2>1, <2>2, <1>5
<1>10. Replaced(s, a, m, c) = y \o z
  BY DEF Replaced, x, y, z
<1> QED BY <1>5, <1>6, <1>7, <1>8, <1>9, <1>10

\* What dealloc makes of the list: the block and the nodes it touches, between those
\* below and those above.
LEMMA DeallocMeans ==
    ASSUME HeapInv, NEW b \in blocks, HeapDealloc(b)
    PROVE  \E a \in 0 .. Len(freeList), c \in 1 .. Len(freeList) + 1, m \in FreeNode :
             /\ a < c
             /\ freeList' = (SubSeq(freeList, 1, a) \o <<m>>) \o SubSeq(freeList, c, Len(freeList))
             /\ blocks' = blocks \ {b}
             /\ m.at <= b.at /\ b.at + b.size <= m.at + m.size /\ m.at + m.size <= HeapCells
             /\ \A i \in 1 .. a : freeList[i].at + freeList[i].size < m.at
             /\ \A i \in c .. Len(freeList) : m.at + m.size < freeList[i].at
             /\ \A i \in 1 .. Len(freeList) : (i > a /\ i < c) =>
                  m.at <= freeList[i].at /\ freeList[i].at + freeList[i].size <= m.at + m.size
             /\ \A d \in blocks \ {b} : Clear(m, d)
<1> DEFINE node == [at |-> b.at, size |-> b.size]
           L == Len(freeList)
           S == {i \in DOMAIN freeList : freeList[i].at < node.at}
           k == Cardinality(S)
           prev == IF k > 0 /\ freeList[k].at + freeList[k].size = node.at THEN {k} ELSE {}
           next == IF k < L /\ node.at + node.size = freeList[k + 1].at THEN {k + 1} ELSE {}
           from == IF prev = {} THEN node.at ELSE freeList[k].at
           to == IF next = {} THEN node.at + node.size ELSE freeList[k + 1].at + freeList[k + 1].size
           m == [at |-> from, size |-> to - from]
           a == k - Cardinality(prev)
           c == k + 1 + Cardinality(next)
<1>0. HeapTypeOK /\ NodesApart /\ BlocksApart
  BY DEF HeapInv
<1>1. /\ freeList' = Inserted(node)
      /\ blocks' = blocks \ {b}
  BY DEF HeapDealloc
<1>2. Inserted(node) = (SubSeq(freeList, 1, a) \o <<m>>) \o SubSeq(freeList, c, L)
  BY DEF Inserted
<1>3. /\ node.at = b.at /\ node.size = b.size /\ b.at \in Nat /\ b.size \in Nat \ {0}
      /\ b.at + b.size <= HeapCells
      /\ L \in Nat /\ DOMAIN freeList = 1 .. L /\ HeapCells \in Nat
      /\ \A i \in 1 .. L : /\ freeList[i].at \in Nat /\ freeList[i].size \in Nat \ {0}
                           /\ freeList[i].at + freeList[i].size <= HeapCells
                           /\ Clear(freeList[i], b)
  BY <1>0, HeapNumbers DEF BlocksApart
<1> HIDE DEF L, node
<1>4. k \in 0 .. L /\ S = 1 .. k
  <2>1. S \in SUBSET (1 .. L)
    BY <1>3
  <2>2. \A i, j \in 1 .. L : (i < j /\ j \in S) => i \in S
    <3> SUFFICES ASSUME NEW i \in 1 .. L, NEW j \in 1 .. L, i < j, j \in S PROVE i \in S
      OBVIOUS
    <3>1. freeList[i].at + freeList[i].size < freeList[j].at
      BY <1>0 DEF NodesApart, L
    <3>2. freeList[i].at < node.at
      BY <3>1, <1>3
    <3> QED BY <3>2, <1>3
  <2> HIDE DEF S
  <2> QED BY <2>1, <2>2, <1>3, FirstPlaces
<1>5. ASSUME NEW i \in 1 .. L, i <= k PROVE freeList[i].at + freeList[i].size <= b.at
  <2>1. i \in S
    BY <1>4, <1>5
  <2>2. freeList[i].at < b.at
    BY <2>1, <1>3
  <2>3. Clear(freeList[i], b)
    BY <1>3
  <2> HIDE DEF S, k
  <2> QED BY <2>2, <2>3, <1>3 DEF Clear, Below
<1>6. ASSUME NEW i \in 1 .. L, i > k PROVE b.at + b.size <= freeList[i].at
  <2>1. i \notin S
    BY <1>4, <1>6
  <2>2. ~(freeList[i].at < b.at)
    BY <2>1, <1>3
  <2>3. Clear(freeList[i], b)
    BY <1>3
  <2> HIDE DEF S, k
  <2> QED BY <2>2, <2>3, <1>3 DEF Clear, Below
<1> HIDE DEF S, k
<1>7. \A i, j \in 1 .. L : i < j => freeList[i].at + freeList[i].size < freeList[j].at
  BY <1>0 DEF NodesApart, L
<1>8. /\ a \in 0 .. L /\ a <= k /\ from \in Nat /\ from <= b.at
      /\ \A i \in 1 .. a : freeList[i].at + freeList[i].size < from
      /\ \A i \in 1 .. L : (i > a /\ i <= k) =>
           from <= freeList[i].at /\ freeList[i].at + freeList[i].size <= b.at
      /\ \A d \in blocks \ {b} : ~(d.at + d.size <= from) => b.at + b.size <= d.at
  <2>1. CASE prev = {}
    <3>1. a = k /\ from = b.at
      BY <2>1, <1>3, <1>4, FS_EmptySet
    <3> HIDE DEF a, from
    <3>2. ASSUME NEW i \in 1 .. k PROVE freeList[i].at + freeList[i].size < b.at
      <4>1. i \in 1 .. L /\ k \in 1 .. L
        BY <1>3, <1>4
      <4>2. freeList[k].at + freeList[k].size # b.at
        BY <2>1, <4>1, <1>3
      <4>3. CASE i = k
        BY <4>1, <4>2, <4>3, <1>3, <1>5
      <4>4. CASE i < k
        <5>1. freeList[i].at + freeList[i].size < freeList[k].at
          BY <4>1, <4>4, <1>7
        <5>2. freeList[k].at + freeList[k].size <= b.at
          BY <4>1, <1>4, <1>5
        <5> QED BY SMTT(20), <5>1, <5>2, <4>1, <1>3
      <4> QED BY <4>3, <4>4, <1>4
    <3>3. ASSUME NEW d \in blocks \ {b}, ~(d.at + d.size <= b.at) PROVE b.at + b.size <= d.at
      BY <3>3, <1>0 DEF BlocksApart, Clear, Below
    <3> QED BY <3>1, <3>2, <3>3, <1>3, <1>4
  <2>2. CASE prev # {}
    <3>1. prev = {k} /\ k > 0 /\ freeList[k].at + freeList[k].size = b.at
      BY <2>2, <1>3
    <3>2. a = k - 1 /\ from = freeList[k].at
      BY <2>2, <3>1, FS_Singleton
    <3> HIDE DEF a, from, prev
    <3>3. k \in 1 .. L
      BY <3>1, <1>4
    <3>4. \A i \in 1 .. k - 1 : freeList[i].at + freeList[i].size < freeList[k].at
      BY <3>3, <1>3, <1>7
    <3>5. ASSUME NEW d \in blocks \ {b}, ~(d.at + d.size <= freeList[k].at) PROVE b.at + b.size <= d.at
      <4>1. Clear(freeList[k], d) /\ Clear(b, d)
        BY <3>3, <1>0 DEF BlocksApart, L
      <4>2. d.at \in Nat /\ d.size \in Nat \ {0}
        BY <1>0, HeapNumbers
      <4>3. d.at + d.size <= b.at \/ b.at + b.size <= d.at
        BY <4>1 DEF Clear, Below
      <4>4. d.at + d.size <= freeList[k].at \/ freeList[k].at + freeList[k].size <= d.at
        BY <4>1 DEF Clear, Below
      <4>5. b.at <= d.at
        BY <3>1, <3>5, <4>4
      <4> QED BY <4>2, <4>3, <4>5, <1>3
    <3>6. \A i \in 1 .. L : (i > k - 1 /\ i <= k) => i = k
      BY <1>3, <1>4
    <3>7. freeList[k].at \in Nat /\ freeList[k].at <= b.at
      BY <3>1, <3>3, <1>3
    <3>8. freeList[k].at + freeList[k].size = b.at
      BY <3>1
    <3> QED BY SMTT(20), <3>2, <3>3, <3>4, <3>5, <3>6, <3>7, <3>8, <1>3
  <2> QED BY <2>1, <2>2
<1>9. /\ c \in 1 .. L + 1 /\ c > k /\ to \in Nat /\ to >= b.at + b.size /\ to <= HeapCells
      /\ \A i \in c .. L : to < freeList[i].at
      /\ \A i \in 1 .. L : (i > k /\ i < c) =>
           b.at + b.size <= freeList[i].at /\ freeList[i].at + freeList[i].size <= to
      /\ \A d \in blocks \ {b} : ~(to <= d.at) => d.at + d.size <= b.at
  <2>1. CASE next = {}
    <3>1. c = k + 1 /\ to = b.at + b.size
      BY <2>1, <1>3, <1>4, FS_EmptySet
    <3> HIDE DEF c, to
    <3>2. ASSUME NEW i \in k + 1 .. L PROVE b.at + b.size < freeList[i].at
      <4>1. i \in 1 .. L /\ k + 1 \in 1 .. L /\ k < L
        BY <1>3, <1>4
      <4>2. freeList[k + 1].at # b.at + b.size
        BY <2>1, <4>1, <1>3
      <4>3. b.at + b.size <= freeList[k + 1].at
        BY <4>1, <1>4, <1>6
      <4>4. CASE i = k + 1
        <5>1. freeList[k + 1].at \in Nat
          BY <4>1, <1>3
        <5>2. b.at + b.size < freeList[k + 1].at
          <6>1. b.at + b.size \in Nat
            BY <1>3
          <6> QED BY <5>1, <6>1, <4>2, <4>3
        <5> QED BY <5>2, <4>4, Zenon
      <4>5. CASE i > k + 1
        <5>1. freeList[k + 1].at + freeList[k + 1].size < freeList[i].at
          BY <4>1, <4>5, <1>7
        <5> QED BY SMTT(20), <5>1, <4>1, <4>3, <1>3
      <4> QED BY <4>4, <4>5, <1>4
    <3>3. ASSUME NEW d \in blocks \ {b}, ~(b.at + b.size <= d.at) PROVE d.at + d.size <= b.at
      BY <3>3, <1>0 DEF BlocksApart, Clear, Below
    <3>4. \A i \in 1 .. L : ~(i > k /\ i < k + 1)
      BY <1>3, <1>4
    <3> QED BY <3>1, <3>2, <3>3, <3>4, <1>3, <1>4
  <2>2. CASE next # {}
    <3>1. next = {k + 1} /\ k < L /\ b.at + b.size = freeList[k + 1].at
      BY <2>2, <1>3
    <3>2. c = k + 2 /\ to = freeList[k + 1].at + freeList[k + 1].size
      <4>1. Cardinality({k + 1}) = 1
        BY FS_Singleton
      <4> QED BY <2>2, <3>1, <4>1, <1>4
    <3> HIDE DEF c, to, next
    <3>3. k + 1 \in 1 .. L
      BY <3>1, <1>3, <1>4
    <3>4. \A i \in k + 2 .. L : freeList[k + 1].at + freeList[k + 1].size < freeList[i].at
      BY <3>3, <1>3, <1>4, <1>7
    <3>5. ASSUME NEW d \in blocks \ {b}, ~(freeList[k + 1].at + freeList[k + 1].size <= d.at)
          PROVE  d.at + d.size <= b.at
      <4>1. Clear(freeList[k + 1], d) /\ Clear(b, d)
        BY <3>3, <1>0 DEF BlocksApart, L
      <4>2. d.at \in Nat /\ d.size \in Nat \ {0}
        BY <1>0, HeapNumbers
      <4>3. freeList[k + 1].at \in Nat /\ freeList[k + 1].size \in Nat \ {0}
        BY <3>3, <1>3
      <4> QED BY <4>1, <4>2, <4>3, <3>1, <3>5, <1>3 DEF Clear, Below
    <3>6. \A i \in 1 .. L : (i > k /\ i < k + 2) => i = k + 1
      BY <1>3, <1>4
    <3>7. /\ freeList[k + 1].at \in Nat /\ freeList[k + 1].size \in Nat
          /\ freeList[k + 1].at + freeList[k + 1].size <= HeapCells
      BY <3>3, <1>3
    <3>8. c \in 1 .. L + 1 /\ c > k /\ to \in Nat /\ to >= b.at + b.size /\ to <= HeapCells
      BY SMTT(20), <3>1, <3>2, <3>3, <3>7, <1>3, <1>4
    <3>9. \A i \in c .. L : to < freeList[i].at
      BY <3>2, <3>4
    <3>10. \A i \in 1 .. L : (i > k /\ i < c) =>
             b.at + b.size <= freeList[i].at /\ freeList[i].at + freeList[i].size <= to
      <4> SUFFICES ASSUME NEW i \in 1 .. L, i > k, i < c
                   PROVE  b.at + b.size <= freeList[i].at /\ freeList[i].at + freeList[i].size <= to
        OBVIOUS
      <4>1. i = k + 1
        BY <3>2, <3>6
      <4>2. b.at + b.size <= freeList[k + 1].at
        BY <3>1, <3>7
      <4>3. freeList[k + 1].at + freeList[k + 1].size <= to
        BY <3>2, <3>7
      <4> QED BY <4>1, <4>2, <4>3
    <3> QED BY <3>2, <3>5, <3>8, <3>9, <3>10
  <2> QED BY <2>1, <2>2
<1> HIDE DEF a, c, from, to
<1>10. m.at = from /\ m.size = to - from /\ m \in FreeNode /\ m.at + m.size = to
  BY <1>3, <1>8, <1>9 DEF FreeNode
<1> HIDE DEF m
<1>11. a < c
  BY <1>3, <1>4, <1>8, <1>9
<1>12. \A i \in 1 .. L : (i > a /\ i < c) =>
         m.at <= freeList[i].at /\ freeList[i].at + freeList[i].size <= m.at + m.size
  <2> SUFFICES ASSUME NEW i \in 1 .. L, i > a, i < c
               PROVE  m.at <= freeList[i].at /\ freeList[i].at + freeList[i].size <= m.at + m.size
    OBVIOUS
  <2>1. freeList[i].at \in Nat /\ freeList[i].size \in Nat
    BY <1>3
  <2>2. CASE i <= k
    BY SMTT(20), <2>1, <2>2, <1>3, <1>8, <1>9, <1>10
  <2>3. CASE i > k
    BY <2>1, <2>3, <1>3, <1>8, <1>9, <1>10
  <2> QED BY <2>2, <2>3, <1>4
<1>13. \A d \in blocks \ {b} : Clear(m, d)
  <2> SUFFICES ASSUME NEW d \in blocks \ {b} PROVE Clear(m, d)
    OBVIOUS
  <2>1. d.at \in Nat /\ d.size \in Nat \ {0}
    BY <1>0, HeapNumbers
  <2>2. CASE d.at + d.size <= from
    BY <2>2, <1>10 DEF Clear, Below
  <2>3. CASE to <= d.at
    BY <2>3, <1>10 DEF Clear, Below
  <2>4. CASE ~(d.at + d.size <= from) /\ ~(to <= d.at)
    BY SMTT(20), <2>1, <2>4, <1>3, <1>8, <1>9
  <2> QED BY <2>2, <2>3, <2>4
<1> QED BY <1>1, <1>2, <1>3, <1>8, <1>9, <1>10, <1>11, <1>12, <1>13 DEF L

LEMMA DeallocKeeps ==
    ASSUME HeapInv, NEW b \in blocks, HeapDealloc(b)
    PROVE  HeapInv'
<1> DEFINE L == Len(freeList)
<1>0. HeapTypeOK /\ NodesApart /\ BlocksApart /\ NoCellLost
  BY DEF HeapInv
<1>1. PICK a \in 0 .. L, c \in 1 .. L + 1, m \in FreeNode :
         /\ a < c
         /\ freeList' = (SubSeq(freeList, 1, a) \o <<m>>) \o SubSeq(freeList, c, Len(freeList))
         /\ blocks' = blocks \ {b}
         /\ m.at <= b.at /\ b.at + b.size <= m.at + m.size /\ m.at + m.size <= HeapCells
         /\ \A i \in 1 .. a : freeList[i].at + freeList[i].size < m.at
         /\ \A i \in c .. L : m.at + m.size < freeList[i].at
         /\ \A i \in 1 .. L : (i > a /\ i < c) =>
              m.at <= freeList[i].at /\ freeList[i].at + freeList[i].size <= m.at + m.size
         /\ \A d \in blocks \ {b} : Clear(m, d)
  BY DeallocMeans
<1>2. freeList \in Seq(FreeNode) /\ L \in Nat
  BY <1>0 DEF HeapTypeOK
<1> DEFINE N == a + 2 + L - c
<1>3. /\ freeList' \in Seq(FreeNode) /\ Len(freeList') = N
      /\ \A j \in 1 .. a : freeList'[j] = freeList[j]
      /\ freeList'[a + 1] = m
      /\ \A j \in c .. L : freeList'[a + 2 + j - c] = freeList[j]
  <2> DEFINE t == Replaced(freeList, a, m, c)
  <2>0. /\ a \in 0 .. Len(freeList) /\ c \in 1 .. Len(freeList) + 1 /\ a < c
        /\ freeList \in Seq(FreeNode) /\ m \in FreeNode
    BY <1>1, <1>2
  <2>1. /\ t \in Seq(FreeNode) /\ Len(t) = a + 2 + Len(freeList) - c
        /\ \A j \in 1 .. a : t[j] = freeList[j]
        /\ t[a + 1] = m
        /\ \A j \in c .. Len(freeList) : t[a + 2 + j - c] = freeList[j]
    BY <2>0, PlacesReplaced
  <2>2. freeList' = t
    BY <1>1 DEF Replaced
  <2> HIDE DEF t
  <2> QED BY <2>1, <2>2
<1>4. /\ m.at \in Nat /\ m.size \in Nat \ {0} /\ HeapCells \in Nat
      /\ b.at \in Nat /\ b.size \in Nat \ {0}
      /\ \A i \in 1 .. L : freeList[i].at \in Nat /\ freeList[i].size \in Nat \ {0}
  BY <1>0, HeapNumbers DEF FreeNode
<1> HIDE DEF L
<1>5. ASSUME NEW j \in 1 .. N
      PROVE  \/ j \in 1 .. a
             \/ j = a + 1
             \/ \E i \in c .. L : j = a + 2 + i - c
  <2>1. CASE j > a + 1
    <3>1. j - (a + 2) + c \in c .. L /\ j = a + 2 + (j - (a + 2) + c) - c
      BY <2>1, <1>1, <1>2
    <3> QED BY <3>1
  <2>2. CASE ~(j > a + 1)
    BY <2>2, <1>1, <1>2
  <2> QED BY <2>1, <2>2
<1>6. 1 .. a \subseteq 1 .. L /\ c .. L \subseteq 1 .. L /\ N \in Nat /\ a + 1 \in 1 .. N /\ a \in Nat
  BY <1>1, <1>2
<1>7. \A i \in c .. L : a + 2 + i - c \in 1 .. N
  BY <1>1, <1>2
<1> HIDE DEF N
<1>8. HeapTypeOK'
  <2>1. ASSUME NEW j \in 1 .. N PROVE freeList'[j].at + freeList'[j].size <= HeapCells
    <3>1. \A i \in 1 .. L : freeList[i].at + freeList[i].size <= HeapCells
      BY <1>0, HeapNumbers DEF L
    <3>2. CASE j \in 1 .. a
      BY <3>1, <3>2, <1>3, <1>6
    <3>3. CASE j = a + 1
      BY <3>3, <1>1, <1>3
    <3>4. ASSUME NEW i \in c .. L, j = a + 2 + i - c PROVE freeList'[j].at + freeList'[j].size <= HeapCells
      BY <3>1, <3>4, <1>3, <1>6
    <3> QED BY <3>2, <3>3, <3>4, <1>5
  <2>2. blocks' \subseteq blocks
    BY <1>1
  <2> QED BY <2>1, <2>2, <1>0, <1>3 DEF HeapTypeOK
<1>9. NodesApart'
  <2> SUFFICES ASSUME NEW j \in 1 .. N, NEW k \in 1 .. N, j < k
               PROVE  freeList'[j].at + freeList'[j].size < freeList'[k].at
    BY <1>3 DEF NodesApart
  <2>1. \A x, y \in 1 .. L : x < y => freeList[x].at + freeList[x].size < freeList[y].at
    BY <1>0 DEF NodesApart, L
  <2>2. CASE j \in 1 .. a /\ k \in 1 .. a
    BY <2>1, <2>2, <1>3, <1>6
  <2>3. CASE j \in 1 .. a /\ k = a + 1
    BY <2>3, <1>1, <1>3
  <2>4. ASSUME j \in 1 .. a, NEW i \in c .. L, k = a + 2 + i - c
        PROVE  freeList'[j].at + freeList'[j].size < freeList'[k].at
    <3>1. j \in 1 .. L /\ i \in 1 .. L /\ j < i
      BY <2>4, <1>1, <1>6
    <3>2. freeList'[j] = freeList[j] /\ freeList'[k] = freeList[i]
      BY <2>4, <1>3
    <3> QED BY <3>1, <3>2, <2>1
  <2>5. ASSUME j = a + 1, NEW i \in c .. L, k = a + 2 + i - c
        PROVE  freeList'[j].at + freeList'[j].size < freeList'[k].at
    <3>1. freeList'[j] = m /\ freeList'[k] = freeList[i]
      BY <2>5, <1>3
    <3> QED BY <3>1, <1>1
  <2>6. ASSUME NEW h \in c .. L, j = a + 2 + h - c, NEW i \in c .. L, k = a + 2 + i - c
        PROVE  freeList'[j].at + freeList'[j].size < freeList'[k].at
    <3>1. h \in 1 .. L /\ i \in 1 .. L /\ h < i
      BY <2>6, <1>1, <1>6
    <3>2. freeList'[j] = freeList[h] /\ freeList'[k] = freeList[i]
      BY <2>6, <1>3
    <3> QED BY <3>1, <3>2, <2>1
  <2>7. ~(k \in 1 .. a /\ j = a + 1)
    BY <1>1
  <2>8. \A i \in c .. L : j = a + 2 + i - c => ~(k \in 1 .. a \cup {a + 1})
    BY <1>1
  <2>9. ~(j = a + 1 /\ k = a + 1)
    OBVIOUS
  <2> QED BY <2>2, <2>3, <2>4, <2>5, <2>6, <2>7, <2>8, <2>9, <1>5
<1>10. BlocksApart'
  <2>1. \A d, e \in blocks' : d # e => Clear(d, e)
    BY <1>0, <1>1 DEF BlocksApart
  <2>2. ASSUME NEW j \in 1 .. N, NEW d \in blocks' PROVE Clear(freeList'[j], d)
    <3>1. d \in blocks \ {b} /\ \A i \in 1 .. L : Clear(freeList[i], d)
      BY <1>0, <1>1 DEF BlocksApart, L
    <3>2. CASE j \in 1 .. a
      BY <3>1, <3>2, <1>3, <1>6
    <3>3. CASE j = a + 1
      BY <3>1, <3>3, <1>1, <1>3
    <3>4. ASSUME NEW i \in c .. L, j = a + 2 + i - c PROVE Clear(freeList'[j], d)
      BY <3>1, <3>4, <1>3, <1>6
    <3> QED BY <3>2, <3>3, <3>4, <1>5
  <2> QED BY <2>1, <2>2, <1>3 DEF BlocksApart
<1>11. NoCellLost'
  <2> SUFFICES ASSUME NEW x \in 0 .. HeapCells - 1
               PROVE  \/ \E j \in 1 .. N : Covers(freeList'[j], x)
                      \/ \E d \in blocks' : Covers(d, x)
    BY <1>3 DEF NoCellLost
  <2>0. x \in Nat
    BY <1>4
  <2>1. ASSUME NEW d \in blocks, d # b, Covers(d, x) PROVE \E e \in blocks' : Covers(e, x)
    BY <2>1, <1>1
  <2>2. ASSUME Covers(m, x) PROVE \E j \in 1 .. N : Covers(freeList'[j], x)
    BY <2>2, <1>3, <1>6
  <2>3. ASSUME Covers(b, x) PROVE Covers(m, x)
    BY SMTT(20), <2>0, <2>3, <1>1, <1>4 DEF Covers
  <2>4. ASSUME NEW i \in 1 .. L, Covers(freeList[i], x)
        PROVE  \E j \in 1 .. N : Covers(freeList'[j], x)
    <3>1. CASE i \in 1 .. a
      <4>1. i \in 1 .. N
        BY <3>1, <1>6
      <4>2. freeList'[i] = freeList[i]
        BY <3>1, <1>3
      <4> QED BY <4>1, <4>2, <2>4
    <3>2. CASE i \in c .. L
      <4>1. freeList'[a + 2 + i - c] = freeList[i] /\ a + 2 + i - c \in 1 .. N
        BY <3>2, <1>3, <1>7
      <4> QED BY <4>1, <2>4
    <3>3. CASE i > a /\ i < c
      <4>1. freeList[i].at \in Nat /\ freeList[i].size \in Nat
        BY <1>4
      <4>2. m.at <= freeList[i].at /\ freeList[i].at + freeList[i].size <= m.at + m.size
        BY <3>3, <1>1
      <4>3. Covers(m, x)
        BY <4>1, <4>2, <2>0, <2>4, <1>4 DEF Covers
      <4> QED BY <4>3, <2>2
    <3>4. i \in 1 .. a \/ i \in c .. L \/ (i > a /\ i < c)
      BY <1>2
    <3> QED BY <3>1, <3>2, <3>3, <3>4
  <2>5. \/ \E i \in 1 .. L : Covers(freeList[i], x)
        \/ \E d \in blocks : Covers(d, x)
    BY <1>0 DEF NoCellLost, L
  <2> QED BY <2>1, <2>2, <2>3, <2>4, <2>5
<1> QED BY <1>8, <1>9, <1>10, <1>11 DEF HeapInv

LEMMA HeapStepKeeps == HeapInv /\ [HeapNext]_heapVars => HeapInv'
<1> SUFFICES ASSUME HeapInv, [HeapNext]_heapVars PROVE HeapInv'
  OBVIOUS
<1>1. ASSUME NEW n \in HeapSizes, HeapAlloc(n) PROVE HeapInv'
  <2>1. PICK i \in 1 .. Len(freeList) :
           /\ freeList[i].size >= n + 1
           /\ blocks' = blocks \cup {NewBlock(freeList[i].at, n)}
           /\ \/ /\ freeList[i].size > n + 1
                 /\ freeList' = [freeList EXCEPT ![i] = [at |-> freeList[i].at + (n + 1),
                                                         size |-> freeList[i].size - (n + 1)]]
              \/ /\ freeList[i].size = n + 1
                 /\ freeList' = Without(freeList, i)
    BY <1>1, AllocMeans DEF HeapInv
  <2> QED BY <2>1, AllocSplits, AllocTakesAll
<1>2. ASSUME NEW b \in blocks, HeapDealloc(b) PROVE HeapInv'
  BY <1>2, DeallocKeeps
<1>3. CASE UNCHANGED heapVars
  <2>1. freeList' = freeList /\ blocks' = blocks
    BY <1>3 DEF heapVars
  <2> QED BY <2>1 DEF HeapInv, HeapTypeOK, NodesApart, BlocksApart, NoCellLost
<1> QED BY <1>1, <1>2, <1>3 DEF HeapNext

\* A cell of the heap is in one piece: a free node or a block.
LEMMA HeapInvTiles == HeapInv => HeapIsTiled /\ NoSlivers
<1> SUFFICES ASSUME HeapInv PROVE HeapIsTiled /\ NoSlivers
  OBVIOUS
<1>0. HeapTypeOK /\ NodesApart /\ BlocksApart /\ NoCellLost
  BY DEF HeapInv
<1>1. /\ DOMAIN freeList = 1 .. Len(freeList) /\ HeapCells \in Nat /\ Len(freeList) \in Nat
      /\ \A i \in 1 .. Len(freeList) :
           /\ freeList[i].at \in Nat /\ freeList[i].size \in Nat
           /\ freeList[i].at + freeList[i].size <= HeapCells
      /\ \A b \in blocks : b.at \in Nat /\ b.size \in Nat
  BY <1>0, HeapNumbers
<1>2. NoSlivers
  BY <1>0, <1>1 DEF NoSlivers, NodesApart
<1>3. ASSUME NEW i \in DOMAIN freeList PROVE CellsOf(freeList[i]) \subseteq 0 .. HeapCells - 1
  <2>1. /\ freeList[i].at \in Nat /\ freeList[i].size \in Nat
        /\ freeList[i].at + freeList[i].size <= HeapCells
    BY <1>1
  <2> QED BY <2>1, <1>1 DEF CellsOf
<1>4. ASSUME NEW c \in 0 .. HeapCells - 1
      PROVE  Cardinality({i \in DOMAIN freeList : c \in CellsOf(freeList[i])})
             + Cardinality({b \in blocks : c \in CellsOf(b)}) = 1
  <2> DEFINE F == {i \in DOMAIN freeList : c \in CellsOf(freeList[i])}
             B == {b \in blocks : c \in CellsOf(b)}
  <2>0. c \in Nat
    BY <1>1
  <2>1. ASSUME NEW i \in 1 .. Len(freeList)
        PROVE  c \in CellsOf(freeList[i]) <=> Covers(freeList[i], c)
    <3>1. freeList[i].at \in Nat /\ freeList[i].size \in Nat
      BY <1>1
    <3> QED BY <2>0, <3>1 DEF CellsOf, Covers
  <2>2. ASSUME NEW b \in blocks PROVE c \in CellsOf(b) <=> Covers(b, c)
    <3>1. b.at \in Nat /\ b.size \in Nat
      BY <1>1
    <3> QED BY <2>0, <3>1 DEF CellsOf, Covers
  <2>3. ASSUME NEW i \in 1 .. Len(freeList), NEW b \in blocks, Covers(freeList[i], c), Covers(b, c)
        PROVE  FALSE
    <3>1. Clear(freeList[i], b)
      BY <1>0 DEF BlocksApart
    <3> QED BY <2>0, <2>3, <3>1, <1>1 DEF Clear, Below, Covers
  <2>4. ASSUME NEW a \in blocks, NEW b \in blocks, Covers(a, c), Covers(b, c) PROVE a = b
    <3> SUFFICES ASSUME a # b PROVE FALSE
      OBVIOUS
    <3>1. Clear(a, b)
      BY <1>0 DEF BlocksApart
    <3> QED BY <2>0, <2>4, <3>1, <1>1 DEF Clear, Below, Covers
  <2>5. ASSUME NEW i \in 1 .. Len(freeList), NEW j \in 1 .. Len(freeList), i < j,
               Covers(freeList[i], c), Covers(freeList[j], c)
        PROVE  FALSE
    <3>1. freeList[i].at + freeList[i].size < freeList[j].at
      BY <2>5, <1>0 DEF NodesApart
    <3> QED BY <2>0, <2>5, <3>1, <1>1 DEF Covers
  <2>6. ASSUME NEW i \in 1 .. Len(freeList), Covers(freeList[i], c)
        PROVE  Cardinality(F) + Cardinality(B) = 1
    <3>1. F = {i}
      <4>1. ASSUME NEW j \in F PROVE j = i
        <5>1. j \in 1 .. Len(freeList) /\ Covers(freeList[j], c)
          BY <1>1, <2>1
        <5>2. ~(i < j) /\ ~(j < i)
          BY <5>1, <2>5, <2>6
        <5> QED BY <5>1, <5>2, <1>1
      <4> QED BY <4>1, <2>1, <2>6, <1>1
    <3>2. B = {}
      BY <2>2, <2>3, <2>6
    <3> HIDE DEF F, B
    <3>3. Cardinality(F) = 1
      BY <3>1, FS_Singleton
    <3>4. Cardinality(B) = 0
      BY <3>2, FS_EmptySet
    <3> QED BY <3>3, <3>4
  <2>7. ASSUME NEW b \in blocks, Covers(b, c)
        PROVE  Cardinality(F) + Cardinality(B) = 1
    <3>1. F = {}
      BY <2>1, <2>3, <2>7, <1>1
    <3>2. B = {b}
      BY <2>2, <2>4, <2>7
    <3> HIDE DEF F, B
    <3>3. Cardinality(B) = 1
      BY <3>2, FS_Singleton
    <3>4. Cardinality(F) = 0
      BY <3>1, FS_EmptySet
    <3> QED BY <3>3, <3>4
  <2> QED BY <2>6, <2>7, <1>0 DEF NoCellLost
<1> QED BY <1>2, <1>3, <1>4 DEF HeapIsTiled

----------------------------------------------------------------------------
(* The heap is an arena *)

LEMMA ArenaStarts == HeapInit => Lender!Init
BY DEF HeapInit, Lender!Init

LEMMA AllocLends ==
    ASSUME HeapInv, NEW n \in HeapSizes, HeapAlloc(n)
    PROVE  Lender!Lend(n)
<1>0. HeapTypeOK /\ BlocksApart
  BY DEF HeapInv
<1>1. PICK i \in 1 .. Len(freeList) :
         /\ freeList[i].size >= n + 1
         /\ blocks' = blocks \cup {NewBlock(freeList[i].at, n)}
  BY <1>0, AllocMeans
<1> DEFINE b == NewBlock(freeList[i].at, n)
           p == [at |-> freeList[i].at + 1, asked |-> n]
<1>2. /\ b.at = freeList[i].at /\ b.size = n + 1 /\ b.asked = n
      /\ b.at + b.size <= HeapCells
      /\ \A c \in blocks : Clear(b, c)
  BY <1>1, NewBlockFits
<1>3. n \in Nat \ {0} /\ freeList[i].at \in Nat /\ HeapCells \in Nat
  BY <1>0, HeapNumbers
<1>4. Payload(b) = p /\ p.at = freeList[i].at + 1 /\ p.asked = n
  BY <1>2 DEF Payload
<1>5. freeList[i].at + 1 \in 0 .. HeapCells - 1
  BY <1>2, <1>3
<1>6. blocks' = blocks \cup {b}
  BY <1>1
<1> HIDE DEF b, p
<1>7. Lender!Extent(p) \subseteq 0 .. HeapCells - 1
  BY <1>2, <1>3, <1>4 DEF Lender!Extent
<1>8. ASSUME NEW c \in blocks PROVE Lender!Extent(p) \cap Lender!Extent(Payload(c)) = {}
  <2>1. Clear(b, c)
    BY <1>2
  <2>2. c.at \in Nat /\ c.size \in Nat /\ c.asked \in Nat /\ c.asked + 1 <= c.size
    BY <1>0, HeapNumbers
  <2>3. Payload(c).at = c.at + 1 /\ Payload(c).asked = c.asked
    BY DEF Payload
  <2>4. p.at + p.asked <= Payload(c).at \/ Payload(c).at + Payload(c).asked <= p.at
    <3>1. p.at = b.at + 1 /\ p.at + p.asked = b.at + b.size
      BY <1>2, <1>3, <1>4
    <3>2. b.at \in Nat /\ b.size \in Nat
      BY <1>2, <1>3
    <3>3. b.at + b.size <= c.at \/ c.at + c.size <= b.at
      BY <2>1 DEF Clear, Below
    <3>4. CASE b.at + b.size <= c.at
      <4>1. b.at + b.size <= c.at + 1
        BY <3>2, <3>4, <2>2
      <4> QED BY <4>1, <3>1, <2>3
    <3>5. CASE c.at + c.size <= b.at
      <4>1. (c.at + 1) + c.asked <= b.at + 1
        BY SMTT(20), <3>2, <3>5, <2>2
      <4> QED BY <4>1, <3>1, <2>3
    <3> QED BY <3>3, <3>4, <3>5
  <2>5. p.at \in Nat /\ p.asked \in Nat /\ Payload(c).at \in Nat /\ Payload(c).asked \in Nat
    BY <2>2, <2>3, <1>3, <1>4
  <2>6. ASSUME NEW x \in Lender!Extent(p), x \in Lender!Extent(Payload(c)) PROVE FALSE
    <3>1. /\ x \in p.at .. p.at + p.asked - 1
          /\ x \in Payload(c).at .. Payload(c).at + Payload(c).asked - 1
      BY <2>6 DEF Lender!Extent
    <3> DEFINE pa == p.at
               pn == p.asked
               ca == Payload(c).at
               cn == Payload(c).asked
    <3>2. pa \in Nat /\ pn \in Nat /\ ca \in Nat /\ cn \in Nat
      BY <2>5
    <3>3. (pa + pn <= ca \/ ca + cn <= pa) /\ x \in pa .. pa + pn - 1 /\ x \in ca .. ca + cn - 1
      BY <2>4, <3>1
    <3> HIDE DEF pa, pn, ca, cn
    <3> QED BY <3>2, <3>3
  <2> QED BY <2>6
<1>9. {Payload(c) : c \in blocks'} = {Payload(c) : c \in blocks} \cup {p}
  BY <1>4, <1>6
<1>10. \A x \in {Payload(c) : c \in blocks} : Lender!Extent(p) \cap Lender!Extent(x) = {}
  BY <1>8
<1>11. p = [at |-> freeList[i].at + 1, asked |-> n]
  BY DEF p
<1> DEFINE at == freeList[i].at + 1
<1>12. at \in 0 .. HeapCells - 1 /\ p = [at |-> at, asked |-> n]
  BY <1>5, <1>11
<1> HIDE DEF at
<1> QED BY <1>7, <1>9, <1>10, <1>12 DEF Lender!Lend

LEMMA DeallocReturns ==
    ASSUME HeapInv, NEW b \in blocks, HeapDealloc(b)
    PROVE  Lender!Return(Payload(b))
<1>0. HeapTypeOK /\ BlocksApart
  BY DEF HeapInv
<1>1. blocks' = blocks \ {b}
  BY DEF HeapDealloc
<1>2. ASSUME NEW c \in blocks, Payload(c) = Payload(b) PROVE c = b
  <2> SUFFICES ASSUME c # b PROVE FALSE
    OBVIOUS
  <2>1. Clear(c, b)
    BY <1>0 DEF BlocksApart
  <2>2. /\ c.at \in Nat /\ c.size \in Nat \ {0}
        /\ b.at \in Nat /\ b.size \in Nat \ {0}
    BY <1>0, HeapNumbers
  <2>3. c.at + 1 = b.at + 1
    <3>1. Payload(c).at = c.at + 1 /\ Payload(b).at = b.at + 1
      BY DEF Payload
    <3> QED BY <3>1, <1>2
  <2> QED BY <2>1, <2>2, <2>3 DEF Clear, Below
<1>3. {Payload(c) : c \in blocks'} = {Payload(c) : c \in blocks} \ {Payload(b)}
  BY <1>1, <1>2
<1> QED BY <1>3 DEF Lender!Return

LEMMA HeapLends ==
    HeapInv /\ [HeapNext]_heapVars => [Lender!Next]_{Payload(b) : b \in blocks}
<1> SUFFICES ASSUME HeapInv, [HeapNext]_heapVars PROVE [Lender!Next]_{Payload(b) : b \in blocks}
  OBVIOUS
<1>1. ASSUME NEW n \in HeapSizes, HeapAlloc(n) PROVE Lender!Next
  BY <1>1, AllocLends DEF Lender!Next
<1>2. ASSUME NEW b \in blocks, HeapDealloc(b) PROVE Lender!Next
  <2>1. Lender!Return(Payload(b)) /\ Payload(b) \in {Payload(c) : c \in blocks}
    BY <1>2, DeallocReturns
  <2> QED BY <2>1 DEF Lender!Next
<1>3. CASE UNCHANGED heapVars
  BY <1>3 DEF heapVars
<1> QED BY <1>1, <1>2, <1>3 DEF HeapNext

----------------------------------------------------------------------------
(* Descriptors *)

Kinds  == {"none", "stdin", "stdout", "file", "rpipe", "wpipe", "socket"}
Images == {0, 1}

Desc ==
    [kind : Kinds, obj : Names \cup Nat, slot : Nat, off : Nat, cloexec : BOOLEAN,
     image : Images \cup {NoImage}, app : BOOLEAN]

Place == 0 .. PipeCap - 1
Pipe  == [buf : [Place -> Nat], r : Place, w : Place, n : 0 .. PipeCap]

FdTypeOK ==
    /\ fdt \in [Procs -> [FdIds -> Desc]]
    /\ running \subseteq Procs
    /\ DOMAIN files \subseteq Names /\ files \in [DOMAIN files -> Seq(Nat)]
    /\ pipes \in Seq(Pipe)
    /\ socks \subseteq 1 .. SockSlots
    /\ image \in [Procs -> Images]
    /\ sent \in Seq(Seq(Nat)) /\ Len(sent) = Len(pipes)
    /\ got \in Seq(Seq(Nat)) /\ Len(got) = Len(pipes)
    /\ shared \in BOOLEAN

\* The place to write to follows the bytes that are in the ring.
RingsFit ==
    \A id \in 1 .. Len(pipes) : pipes[id].w = (pipes[id].r + pipes[id].n) % PipeCap

\* An end of a pipe has its pipe, and only a file is open for one image.
EndsFit ==
    \A p \in Procs, f \in FdIds :
      /\ Kind(p, f) \in {"rpipe", "wpipe"} => fdt[p][f].obj \in 1 .. Len(pipes)
      /\ fdt[p][f].cloexec => Kind(p, f) = "file"

FdInv == FdTypeOK /\ RingsFit /\ EndsFit /\ PipeIsAQueue /\ PrivateToItsImage /\ SlotsHaveOwners

LEMMA FdNumbers ==
    /\ PipeCap \in Nat \ {0} /\ SockSlots \in Nat /\ FdMax \in Nat /\ FdMax > 3 /\ MaxLen \in Nat
    /\ FdIds \subseteq Nat /\ proc0 \in Procs
BY DescriptorsAssumption DEF FdIds

LEMMA UnusedIsDesc == Unused \in Desc /\ Unused.kind = "none" /\ Unused.cloexec = FALSE
                      /\ Unused.image = NoImage
BY DEF Unused, Desc, Kinds, Images, NoImage

LEMMA DescFields ==
    ASSUME NEW d \in Desc
    PROVE  /\ d.kind \in Kinds /\ d.obj \in Names \cup Nat /\ d.slot \in Nat /\ d.off \in Nat
           /\ d.cloexec \in BOOLEAN /\ d.image \in Images \cup {NoImage} /\ d.app \in BOOLEAN
BY DEF Desc

LEMMA FdStarts == FdInit => FdInv
<1> SUFFICES ASSUME FdInit PROVE FdInv
  OBVIOUS
<1> DEFINE First3(f) == CASE f = 0 -> "stdin" [] f \in {1, 2} -> "stdout" [] OTHER -> "none"
<1>1. ASSUME NEW f \in FdIds
      PROVE  /\ [Unused EXCEPT !.kind = First3(f)] \in Desc
             /\ [Unused EXCEPT !.kind = First3(f)].kind \in {"stdin", "stdout", "none"}
             /\ [Unused EXCEPT !.kind = First3(f)].cloexec = FALSE
             /\ [Unused EXCEPT !.kind = First3(f)].image = NoImage
  <2>1. First3(f) \in {"stdin", "stdout", "none"}
    OBVIOUS
  <2> HIDE DEF First3
  <2> QED BY <2>1 DEF Unused, Desc, Kinds, NoImage
<1>2. fdt = [p \in Procs |-> [f \in FdIds |-> [Unused EXCEPT !.kind = First3(f)]]]
  BY DEF FdInit
<1> HIDE DEF First3
<1>3. fdt \in [Procs -> [FdIds -> Desc]]
  BY <1>1, <1>2
<1>4. ASSUME NEW p \in Procs, NEW f \in FdIds
      PROVE  /\ Kind(p, f) \in {"stdin", "stdout", "none"}
             /\ fdt[p][f].cloexec = FALSE /\ fdt[p][f].image = NoImage
  <2>1. fdt[p][f] = [Unused EXCEPT !.kind = First3(f)]
    BY <1>2
  <2> QED BY <2>1, <1>1 DEF Kind
<1>5. /\ running = {proc0} /\ files = <<>> /\ pipes = <<>> /\ socks = {}
      /\ image = [p \in Procs |-> 0] /\ sent = <<>> /\ got = <<>> /\ shared = FALSE
  BY DEF FdInit
<1>6. FdTypeOK
  <2>1. files \in [DOMAIN files -> Seq(Nat)] /\ DOMAIN files \subseteq Names
    BY <1>5
  <2>2. image \in [Procs -> Images]
    BY <1>5 DEF Images
  <2>3. /\ pipes \in Seq(Pipe) /\ sent \in Seq(Seq(Nat)) /\ got \in Seq(Seq(Nat))
        /\ Len(sent) = Len(pipes) /\ Len(got) = Len(pipes)
    BY <1>5
  <2>4. running \subseteq Procs /\ socks \subseteq 1 .. SockSlots /\ shared \in BOOLEAN
    BY <1>5, FdNumbers
  <2> QED BY <2>1, <2>2, <2>3, <2>4, <1>3 DEF FdTypeOK
<1>7. RingsFit /\ PipeIsAQueue
  BY <1>5 DEF RingsFit, PipeIsAQueue
<1>8. EndsFit
  BY <1>4 DEF EndsFit
<1>9. PrivateToItsImage
  BY <1>4, <1>6 DEF PrivateToItsImage, FdTypeOK
<1>10. SlotsHaveOwners
  <2>1. \A p \in running, f \in FdIds : Kind(p, f) # "socket"
    BY <1>4, <1>6 DEF FdTypeOK
  <2>2. UNION {Released(p) : p \in running} = {}
    BY <2>1 DEF Released
  <2> QED BY <2>1, <2>2, <1>5 DEF SlotsHaveOwners
<1> QED BY <1>6, <1>7, <1>8, <1>9, <1>10 DEF FdInv

----------------------------------------------------------------------------
(* Who has which socket *)

Holds(p, f, s) == Kind(p, f) = "socket" /\ fdt[p][f].slot = s

SlotsFit ==
    ~shared =>
      /\ \A s : s \in socks <=> \E p \in running, f \in FdIds : Holds(p, f, s)
      /\ \A s : \A p, q \in running, f, g \in FdIds : Holds(p, f, s) /\ Holds(q, g, s) => p = q /\ f = g

LEMMA SlotsAgree == SlotsFit <=> SlotsHaveOwners
<1>1. \A p, s : s \in Released(p) <=> \E f \in FdIds : Holds(p, f, s)
  BY DEF Released, Holds
<1>2. \A s : s \in UNION {Released(p) : p \in running} <=> \E p \in running, f \in FdIds : Holds(p, f, s)
  BY <1>1
<1>3. socks = UNION {Released(p) : p \in running}
      <=> \A s : s \in socks <=> \E p \in running, f \in FdIds : Holds(p, f, s)
  BY <1>2
<1>4. (\A s : \A p, q \in running, f, g \in FdIds : Holds(p, f, s) /\ Holds(q, g, s) => p = q /\ f = g)
      <=> \A p, q \in running, f, g \in FdIds :
            /\ Kind(p, f) = "socket" /\ Kind(q, g) = "socket"
            /\ fdt[p][f].slot = fdt[q][g].slot
            => p = q /\ f = g
  BY DEF Holds
<1> QED BY <1>3, <1>4 DEF SlotsFit, SlotsHaveOwners

\* A step that gives no descriptor a socket and takes none away.
LEMMA SlotsStay ==
    ASSUME SlotsHaveOwners, ~shared' => ~shared, socks' = socks,
           ~shared' => \A p \in running \cup running', f \in FdIds :
             /\ (p \in running' /\ Kind(p, f)' = "socket") <=> (p \in running /\ Kind(p, f) = "socket")
             /\ (p \in running /\ Kind(p, f) = "socket") => fdt'[p][f].slot = fdt[p][f].slot
    PROVE  SlotsHaveOwners'
<1>0. (SlotsFit <=> SlotsHaveOwners)'
  BY SlotsAgree, PTL
<1> SUFFICES ASSUME ~shared' PROVE SlotsFit'
  BY <1>0 DEF SlotsFit
<1>1. SlotsFit /\ ~shared
  BY SlotsAgree
<1>2. \A s : \A p \in running \cup running', f \in FdIds :
        (p \in running' /\ Holds(p, f, s)') <=> (p \in running /\ Holds(p, f, s))
  BY DEF Holds
<1>3. \A s : (\E p \in running', f \in FdIds : Holds(p, f, s)')
             <=> (\E p \in running, f \in FdIds : Holds(p, f, s))
  BY <1>2
<1> QED BY <1>1, <1>2, <1>3 DEF SlotsFit

----------------------------------------------------------------------------
(* The table of descriptors *)

DescFits(d, n) ==
    /\ d.kind \in {"rpipe", "wpipe"} => d.obj \in 1 .. n
    /\ d.cloexec => d.kind = "file"

Private(d, im) ==
    /\ d.image # NoImage => d.image = im
    /\ d.cloexec = (d.image # NoImage)

TableFits(t, ps, im, n) ==
    /\ t \in [Procs -> [FdIds -> Desc]]
    /\ \A p \in Procs, f \in FdIds : DescFits(t[p][f], n)
    /\ \A p \in ps, f \in FdIds : Private(t[p][f], im[p])

LEMMA TableMeans ==
    ASSUME FdTypeOK
    PROVE  TableFits(fdt, running, image, Len(pipes)) <=> EndsFit /\ PrivateToItsImage
BY DEF FdTypeOK, TableFits, EndsFit, PrivateToItsImage, DescFits, Private, Kind

Put(t, p, f, d) == [t EXCEPT ![p][f] = d]

LEMMA OneFd ==
    ASSUME NEW t, NEW ps, NEW im, NEW n, TableFits(t, ps, im, n), ps \subseteq Procs,
           NEW p \in Procs, NEW f \in FdIds, NEW d \in Desc, DescFits(d, n), Private(d, im[p])
    PROVE  /\ TableFits(Put(t, p, f, d), ps, im, n)
           /\ Put(t, p, f, d)[p][f] = d
           /\ \A q \in Procs, g \in FdIds :
                (q # p \/ g # f) => Put(t, p, f, d)[q][g] = t[q][g]
<1> DEFINE u == [t EXCEPT ![p][f] = d]
<1>1. t \in [Procs -> [FdIds -> Desc]]
  BY DEF TableFits
<1>2. u \in [Procs -> [FdIds -> Desc]]
  BY <1>1
<1>3. u[p][f] = d
  BY <1>1
<1>4. \A q \in Procs, g \in FdIds : (q # p \/ g # f) => u[q][g] = t[q][g]
  BY <1>1
<1>0. Put(t, p, f, d) = u
  BY DEF Put
<1> HIDE DEF u
<1>5. \A q \in Procs, g \in FdIds : DescFits(u[q][g], n)
  BY <1>3, <1>4 DEF TableFits
<1>6. \A q \in ps, g \in FdIds : Private(u[q][g], im[q])
  BY <1>3, <1>4 DEF TableFits
<1>7. TableFits(u, ps, im, n)
  BY <1>2, <1>5, <1>6 DEF TableFits
<1> QED BY <1>0, <1>3, <1>4, <1>7

LEMMA MorePipes ==
    ASSUME NEW t, NEW ps, NEW im, NEW n \in Nat, NEW m \in Nat, n <= m, TableFits(t, ps, im, n)
    PROVE  TableFits(t, ps, im, m)
<1>1. \A p \in Procs, f \in FdIds : t[p][f] \in Desc
  BY DEF TableFits
<1>2. 1 .. n \subseteq 1 .. m
  OBVIOUS
<1>3. \A p \in Procs, f \in FdIds : DescFits(t[p][f], m)
  BY <1>2 DEF TableFits, DescFits
<1> QED BY <1>3 DEF TableFits

LEMMA LowestIsLeast ==
    ASSUME NEW S \in SUBSET Nat, S # {}
    PROVE  Lowest(S) \in S
BY LeastIndex DEF Lowest

LEMMA UnusedFits == \A n, im : DescFits(Unused, n) /\ Private(Unused, im)
BY UnusedIsDesc DEF DescFits, Private

\* What a step needs to show of the pipes it leaves alone.
LEMMA PipesStay ==
    ASSUME RingsFit, PipeIsAQueue, UNCHANGED <<pipes, sent, got>>
    PROVE  RingsFit' /\ PipeIsAQueue'
BY DEF RingsFit, PipeIsAQueue, Oldest

LEMMA Parts ==
    ASSUME FdInv
    PROVE  /\ FdTypeOK /\ RingsFit /\ EndsFit /\ PipeIsAQueue /\ PrivateToItsImage /\ SlotsHaveOwners
           /\ TableFits(fdt, running, image, Len(pipes))
           /\ fdt \in [Procs -> [FdIds -> Desc]] /\ running \subseteq Procs
           /\ Len(pipes) \in Nat
<1>1. FdTypeOK /\ RingsFit /\ EndsFit /\ PipeIsAQueue /\ PrivateToItsImage /\ SlotsHaveOwners
  BY DEF FdInv
<1> QED BY <1>1, TableMeans DEF FdTypeOK

\* A step by which one descriptor changes, to what is no socket if it was none, or to the
\* same one, and of the rest only the files.
LEMMA OneFdKeeps ==
    ASSUME FdInv, NEW p \in running, NEW f \in FdIds, NEW d \in Desc,
           DescFits(d, Len(pipes)), Private(d, image[p]),
           fdt' = Put(fdt, p, f, d),
           ~shared' => ~shared, shared' \in BOOLEAN,
           ~shared' => (d.kind = "socket" <=> Kind(p, f) = "socket"),
           ~shared' /\ d.kind = "socket" => d.slot = fdt[p][f].slot,
           DOMAIN files' \subseteq Names, files' \in [DOMAIN files' -> Seq(Nat)],
           UNCHANGED <<running, pipes, socks, image, sent, got>>
    PROVE  FdInv'
<1>0. /\ FdTypeOK /\ RingsFit /\ EndsFit /\ PipeIsAQueue /\ PrivateToItsImage /\ SlotsHaveOwners
      /\ TableFits(fdt, running, image, Len(pipes)) /\ p \in Procs
      /\ fdt \in [Procs -> [FdIds -> Desc]] /\ running \subseteq Procs
  BY Parts
<1>1. /\ TableFits(fdt', running, image, Len(pipes))
      /\ fdt'[p][f] = d
      /\ \A q \in Procs, g \in FdIds : (q # p \/ g # f) => fdt'[q][g] = fdt[q][g]
  <2>1. /\ running \subseteq Procs /\ p \in Procs /\ TableFits(fdt, running, image, Len(pipes))
        /\ fdt' = Put(fdt, p, f, d)
        /\ DescFits(d, Len(pipes)) /\ Private(d, image[p])
    BY <1>0
  <2>2. /\ TableFits(Put(fdt, p, f, d), running, image, Len(pipes))
        /\ Put(fdt, p, f, d)[p][f] = d
        /\ \A q \in Procs, g \in FdIds :
             (q # p \/ g # f) => Put(fdt, p, f, d)[q][g] = fdt[q][g]
    BY <2>1, OneFd
  <2> QED BY <2>1, <2>2
<1>2. FdTypeOK'
  BY <1>0, <1>1 DEF FdTypeOK, TableFits
<1>3. RingsFit' /\ PipeIsAQueue'
  BY <1>0, PipesStay
<1>4. TableFits(fdt, running, image, Len(pipes))' <=> (EndsFit /\ PrivateToItsImage)'
  <2>1. (FdTypeOK => (TableFits(fdt, running, image, Len(pipes)) <=> EndsFit /\ PrivateToItsImage))'
    BY TableMeans, PTL
  <2> QED BY <2>1, <1>2
<1>5. TableFits(fdt, running, image, Len(pipes))'
  BY <1>1 DEF TableFits
<1>6. SlotsHaveOwners'
  <2>1. ASSUME ~shared', NEW q \in running, NEW g \in FdIds
        PROVE  /\ Kind(q, g)' = "socket" <=> Kind(q, g) = "socket"
               /\ Kind(q, g) = "socket" => fdt'[q][g].slot = fdt[q][g].slot
    <3>1. q \in Procs
      BY <1>0
    <3>2. CASE q = p /\ g = f
      BY <3>2, <1>1, <2>1 DEF Kind
    <3>3. CASE q # p \/ g # f
      BY <3>1, <3>3, <1>1 DEF Kind
    <3> QED BY <3>2, <3>3
  <2>2. ~shared' => \A q \in running \cup running', g \in FdIds :
          /\ (q \in running' /\ Kind(q, g)' = "socket") <=> (q \in running /\ Kind(q, g) = "socket")
          /\ (q \in running /\ Kind(q, g) = "socket") => fdt'[q][g].slot = fdt[q][g].slot
    BY <2>1
  <2>3. socks' = socks
    OBVIOUS
  <2> QED BY <2>2, <2>3, <1>0, SlotsStay
<1> QED BY <1>2, <1>3, <1>4, <1>5, <1>6 DEF FdInv

\* A step by which only the files change.
LEMMA FilesOnly ==
    ASSUME FdInv, DOMAIN files' \subseteq Names, files' \in [DOMAIN files' -> Seq(Nat)],
           UNCHANGED <<fdt, running, pipes, socks, image, sent, got, shared>>
    PROVE  FdInv'
<1>0. FdTypeOK /\ RingsFit /\ EndsFit /\ PipeIsAQueue /\ PrivateToItsImage /\ SlotsHaveOwners
  BY Parts
<1>1. FdTypeOK'
  BY <1>0 DEF FdTypeOK
<1>2. RingsFit' /\ PipeIsAQueue'
  BY <1>0, PipesStay
<1>3. EndsFit' /\ PrivateToItsImage'
  BY <1>0 DEF EndsFit, PrivateToItsImage, Kind
<1>4. SlotsHaveOwners'
  BY <1>0 DEF SlotsHaveOwners, Released, Kind
<1> QED BY <1>1, <1>2, <1>3, <1>4 DEF FdInv

----------------------------------------------------------------------------
(* Files *)

LEMMA FilesAre ==
    ASSUME FdTypeOK
    PROVE  /\ DOMAIN files \subseteq Names /\ files \in [DOMAIN files -> Seq(Nat)]
           /\ \A x \in DOMAIN files : files[x] \in Seq(Nat) /\ Len(files[x]) \in Nat
<1>1. DOMAIN files \subseteq Names /\ files \in [DOMAIN files -> Seq(Nat)]
  BY DEF FdTypeOK
<1>2. \A x \in DOMAIN files : files[x] \in Seq(Nat)
  BY <1>1
<1> QED BY <1>1, <1>2

LEMMA OneMoreFile ==
    ASSUME FdTypeOK, NEW x \in Names, NEW s \in Seq(Nat), files' = Written(x, s)
    PROVE  DOMAIN files' \subseteq Names /\ files' \in [DOMAIN files' -> Seq(Nat)]
<1>1. /\ DOMAIN files \subseteq Names /\ files \in [DOMAIN files -> Seq(Nat)]
  BY FilesAre
<1> DEFINE D == DOMAIN files \cup {x}
<1>2. files' = [y \in D |-> IF y = x THEN s ELSE files[y]]
  BY DEF Written
<1>3. files' \in [D -> Seq(Nat)] /\ D \subseteq Names
  BY <1>1, <1>2
<1> QED BY <1>3

LEMMA OpenKeeps ==
    ASSUME FdInv, NEW p \in running, NEW x \in Names,
           NEW flags \in {{}, {"create"}, {"create", "trunc"}, {"append"}, {"create", "cloexec"}},
           OpenFile(p, x, flags)
    PROVE  FdInv'
<1> DEFINE s == Opened(x, flags)
           off == IF "append" \in flags THEN Len(s) ELSE 0
           d == FileDesc(p, x, off, flags)
           free == FreeFrom(p, 3)
<1>0. FdTypeOK /\ fdt \in [Procs -> [FdIds -> Desc]] /\ p \in Procs
  BY Parts
<1>1. s \in Seq(Nat)
  BY <1>0, FilesAre DEF Opened
<1>2. Len(s) \in Nat
  BY <1>1
<1>3. files' = Written(x, s)
  BY DEF OpenFile
<1>4. DOMAIN files' \subseteq Names /\ files' \in [DOMAIN files' -> Seq(Nat)]
  BY <1>0, <1>1, <1>3, OneMoreFile
<1>5. image[p] \in Images
  BY <1>0 DEF FdTypeOK
<1>6. off \in Nat
  BY <1>2
<1>7. /\ fdt' = IF free = {} THEN fdt ELSE [fdt EXCEPT ![p][Lowest(free)] = d]
      /\ UNCHANGED <<running, pipes, socks, image, sent, got, shared>>
  BY DEF OpenFile
<1> HIDE DEF s, off
<1>8. /\ d \in Desc /\ d.kind = "file" /\ d.cloexec = ("cloexec" \in flags)
      /\ d.image = IF "cloexec" \in flags THEN image[p] ELSE NoImage
  BY <1>5, <1>6 DEF FileDesc, Desc, Kinds, Images
<1> HIDE DEF d
<1>9. DescFits(d, Len(pipes)) /\ Private(d, image[p])
  BY <1>5, <1>8 DEF DescFits, Private, Images, NoImage
<1>10. CASE free = {}
  BY <1>4, <1>7, <1>10, FilesOnly
<1>11. CASE free # {}
  <2> DEFINE f == Lowest(free)
  <2>1. f \in free
    BY <1>11, FdNumbers, LowestIsLeast DEF FreeFrom
  <2>2. f \in FdIds /\ Kind(p, f) = "none"
    BY <2>1 DEF FreeFrom, Kind
  <2>3. fdt' = Put(fdt, p, f, d)
    BY <1>7, <1>11 DEF Put
  <2>4. shared \in BOOLEAN
    BY <1>0 DEF FdTypeOK
  <2> HIDE DEF f
  <2> QED BY <2>2, <2>3, <2>4, <1>4, <1>7, <1>8, <1>9, OneFdKeeps
<1> QED BY <1>10, <1>11

\* A step by which the rest of the fields of a descriptor are as they were.
LEMMA OffsetKeeps ==
    ASSUME FdInv, NEW p \in running, NEW f \in FdIds, NEW e \in Desc,
           e.kind = fdt[p][f].kind, e.obj = fdt[p][f].obj, e.slot = fdt[p][f].slot,
           e.cloexec = fdt[p][f].cloexec, e.image = fdt[p][f].image,
           SetFd(p, f, e),
           DOMAIN files' \subseteq Names, files' \in [DOMAIN files' -> Seq(Nat)],
           UNCHANGED <<running, pipes, socks, image, sent, got, shared>>
    PROVE  FdInv'
<1>0. /\ FdTypeOK /\ TableFits(fdt, running, image, Len(pipes)) /\ p \in Procs
  BY Parts
<1>1. DescFits(fdt[p][f], Len(pipes)) /\ Private(fdt[p][f], image[p])
  BY <1>0 DEF TableFits
<1>2. DescFits(e, Len(pipes)) /\ Private(e, image[p])
  BY <1>1 DEF DescFits, Private
<1>3. fdt' = Put(fdt, p, f, e)
  BY DEF SetFd, Put
<1>4. shared' = shared /\ shared \in BOOLEAN
  BY <1>0 DEF FdTypeOK
<1>5. e.kind = "socket" <=> Kind(p, f) = "socket"
  BY DEF Kind
<1>6. UNCHANGED <<running, pipes, socks, image, sent, got>>
  OBVIOUS
<1> QED BY <1>2, <1>3, <1>4, <1>5, <1>6, OneFdKeeps

LEMMA WriteAtIsFile ==
    ASSUME NEW s \in Seq(Nat), NEW off \in Nat, NEW b \in Seq(Nat)
    PROVE  WriteAt(s, off, b) \in Seq(Nat)
<1> DEFINE n == IF Len(s) > off + Len(b) THEN Len(s) ELSE off + Len(b)
           At(i) == IF i > off /\ i <= off + Len(b) THEN b[i - off]
                    ELSE IF i <= Len(s) THEN s[i] ELSE 0
<1>1. n \in Nat
  OBVIOUS
<1>2. \A i \in 1 .. n : At(i) \in Nat
  <2> SUFFICES ASSUME NEW i \in 1 .. n PROVE At(i) \in Nat
    OBVIOUS
  <2>1. CASE i > off /\ i <= off + Len(b)
    <3>1. i - off \in 1 .. Len(b)
      BY <2>1
    <3> QED BY <2>1, <3>1
  <2>2. CASE ~(i > off /\ i <= off + Len(b)) /\ i <= Len(s)
    <3>1. i \in 1 .. Len(s)
      BY <2>2
    <3> QED BY <2>2, <3>1
  <2> QED BY <2>1, <2>2
<1>3. WriteAt(s, off, b) = [i \in 1 .. n |-> At(i)]
  BY DEF WriteAt
<1> HIDE DEF n, At
<1> QED BY <1>1, <1>2, <1>3, IsASeq

LEMMA WriteKeeps ==
    ASSUME FdInv, NEW p \in running, NEW f \in FdIds, NEW b \in Chunks, WriteFile(p, f, b)
    PROVE  FdInv'
<1> DEFINE d == fdt[p][f]
<1>0. /\ FdTypeOK /\ p \in Procs /\ fdt \in [Procs -> [FdIds -> Desc]]
  BY Parts
<1>1. d \in Desc /\ d.off \in Nat
  BY <1>0, DescFields
<1>2. b \in Seq(Nat) /\ Len(b) \in Nat
  BY DescriptorsAssumption
<1>3. UNCHANGED <<running, pipes, socks, image, sent, got, shared>>
  BY DEF WriteFile
<1>4. CASE d.obj \notin DOMAIN files
  <2>1. UNCHANGED <<fdt, files>>
    BY <1>4 DEF WriteFile
  <2>2. DOMAIN files' \subseteq Names /\ files' \in [DOMAIN files' -> Seq(Nat)]
    BY <2>1, <1>0, FilesAre
  <2> QED BY <2>1, <2>2, <1>3, FilesOnly
<1>5. CASE d.obj \in DOMAIN files
  <2> DEFINE e == [d EXCEPT !.off = @ + Len(b)]
  <2>1. files' = [files EXCEPT ![d.obj] = WriteAt(@, d.off, b)] /\ SetFd(p, f, e)
    BY <1>5 DEF WriteFile
  <2>2. WriteAt(files[d.obj], d.off, b) \in Seq(Nat)
    BY <1>0, <1>1, <1>2, <1>5, FilesAre, WriteAtIsFile
  <2>3. DOMAIN files' \subseteq Names /\ files' \in [DOMAIN files' -> Seq(Nat)]
    BY <2>1, <2>2, <1>0, FilesAre
  <2>4. d.off + Len(b) \in Nat /\ e = [d EXCEPT !.off = d.off + Len(b)]
    BY <1>1, <1>2
  <2> HIDE DEF d, e
  <2>5. /\ e \in Desc /\ e.kind = d.kind /\ e.obj = d.obj /\ e.slot = d.slot
        /\ e.cloexec = d.cloexec /\ e.image = d.image
    BY <2>4, <1>1 DEF Desc
  <2> QED BY <2>1, <2>3, <2>5, <1>3, OffsetKeeps DEF d
<1> QED BY <1>4, <1>5

LEMMA ReadKeeps ==
    ASSUME FdInv, NEW p \in running, NEW f \in FdIds, NEW n \in 1 .. 2, ReadFile(p, f, n)
    PROVE  FdInv'
<1> DEFINE d == fdt[p][f]
           k == ReadLen(d.obj, d.off, n)
           e == [d EXCEPT !.off = @ + k]
<1>0. /\ FdTypeOK /\ p \in Procs /\ fdt \in [Procs -> [FdIds -> Desc]]
  BY Parts
<1>1. d \in Desc /\ d.off \in Nat
  BY <1>0, DescFields
<1>2. k \in Nat
  BY <1>0, <1>1, FilesAre DEF ReadLen, Least
<1>3. /\ SetFd(p, f, e)
      /\ UNCHANGED <<running, files, pipes, socks, image, sent, got, shared>>
  BY DEF ReadFile
<1> HIDE DEF k
<1>4. d.off + k \in Nat /\ e = [d EXCEPT !.off = d.off + k]
  BY <1>1, <1>2
<1> HIDE DEF d, e
<1>5. /\ e \in Desc /\ e.kind = d.kind /\ e.obj = d.obj /\ e.slot = d.slot
      /\ e.cloexec = d.cloexec /\ e.image = d.image
  BY <1>4, <1>1 DEF Desc
<1>6. DOMAIN files' \subseteq Names /\ files' \in [DOMAIN files' -> Seq(Nat)]
  BY <1>0, <1>3, FilesAre
<1> QED BY <1>3, <1>5, <1>6, OffsetKeeps DEF d

LEMMA SeekKeeps ==
    ASSUME FdInv, NEW p \in running, NEW f \in FdIds, NEW to \in 0 .. MaxLen, Seek(p, f, to)
    PROVE  FdInv'
<1> DEFINE d == fdt[p][f]
           e == [d EXCEPT !.off = to, !.app = FALSE]
<1>0. /\ FdTypeOK /\ p \in Procs /\ fdt \in [Procs -> [FdIds -> Desc]]
  BY Parts
<1>1. d \in Desc /\ to \in Nat
  BY <1>0, FdNumbers
<1>3. /\ SetFd(p, f, e)
      /\ UNCHANGED <<running, files, pipes, socks, image, sent, got, shared>>
  BY DEF Seek
<1>4. e = [d EXCEPT !.off = to, !.app = FALSE]
  OBVIOUS
<1> HIDE DEF d, e
<1>5. /\ e \in Desc /\ e.kind = d.kind /\ e.obj = d.obj /\ e.slot = d.slot
      /\ e.cloexec = d.cloexec /\ e.image = d.image
  BY <1>4, <1>1 DEF Desc
<1>6. DOMAIN files' \subseteq Names /\ files' \in [DOMAIN files' -> Seq(Nat)]
  BY <1>0, <1>3, FilesAre
<1> QED BY <1>3, <1>5, <1>6, OffsetKeeps DEF d

LEMMA UnlinkKeeps ==
    ASSUME FdInv, NEW x \in Names, Unlink(x)
    PROVE  FdInv'
<1>0. FdTypeOK
  BY Parts
<1>1. files' = [y \in DOMAIN files \ {x} |-> files[y]]
  BY DEF Unlink
<1>2. DOMAIN files' \subseteq Names /\ files' \in [DOMAIN files' -> Seq(Nat)]
  BY <1>0, <1>1, FilesAre
<1>3. UNCHANGED <<fdt, running, pipes, socks, image, sent, got, shared>>
  BY DEF Unlink
<1> QED BY <1>2, <1>3, FilesOnly

LEMMA LinkKeeps ==
    ASSUME FdInv, NEW x \in Names, NEW y \in Names, LinkFile(x, y)
    PROVE  FdInv'
<1>0. FdTypeOK
  BY Parts
<1>1. files' = Written(y, files[x]) /\ x \in DOMAIN files
  BY DEF LinkFile
<1>2. DOMAIN files' \subseteq Names /\ files' \in [DOMAIN files' -> Seq(Nat)]
  BY <1>0, <1>1, FilesAre, OneMoreFile
<1>3. UNCHANGED <<fdt, running, pipes, socks, image, sent, got, shared>>
  BY DEF LinkFile
<1> QED BY <1>2, <1>3, FilesOnly

----------------------------------------------------------------------------
(* Pipes *)

LEMMA Wrap ==
    ASSUME NEW n \in Nat \ {0}, NEW x \in Nat, x < n + n
    PROVE  (x % n) = IF x < n THEN x ELSE x - n
<1>1. CASE x < n
  BY <1>1, SMTT(20)
<1>2. CASE ~(x < n)
  <2> DEFINE y == x - n
  <2>1. y \in Nat /\ y < n /\ x = y + n
    BY <1>2
  <2> HIDE DEF y
  <2>2. ((y + n) % n) = y
    BY <2>1, SMTT(20)
  <2> QED BY <1>2, <2>1, <2>2
<1> QED BY <1>1, <1>2

\* Where the i-th byte from r on lies, seen from the place n bytes after r.
LEMMA FromPlace ==
    ASSUME NEW r \in Place, NEW n \in 0 .. PipeCap, NEW i \in 1 .. PipeCap
    PROVE  /\ (r + i - 1) % PipeCap \in Place
           /\ From((r + n) % PipeCap, (r + i - 1) % PipeCap)
              = IF i > n THEN i - 1 - n ELSE PipeCap + i - 1 - n
<1> DEFINE x == (r + i - 1) % PipeCap
           w == (r + n) % PipeCap
<1>0. PipeCap \in Nat \ {0} /\ r \in Nat /\ r < PipeCap /\ n \in Nat /\ i \in Nat
  BY FdNumbers DEF Place
<1>1. x = IF r + i - 1 < PipeCap THEN r + i - 1 ELSE r + i - 1 - PipeCap
  <2> DEFINE y == r + i - 1
  <2>1. y \in Nat /\ y < PipeCap + PipeCap /\ y = r + i - 1
    BY <1>0
  <2>2. x = y % PipeCap
    OBVIOUS
  <2> HIDE DEF x, y
  <2>3. y % PipeCap = IF y < PipeCap THEN y ELSE y - PipeCap
    BY <2>1, <1>0, Wrap
  <2> QED BY <2>1, <2>2, <2>3, <1>0
<1>2. w = IF r + n < PipeCap THEN r + n ELSE r + n - PipeCap
  <2> DEFINE y == r + n
  <2>1. y \in Nat /\ y < PipeCap + PipeCap /\ y = r + n
    BY <1>0
  <2>2. w = y % PipeCap
    OBVIOUS
  <2> HIDE DEF w, y
  <2>3. y % PipeCap = IF y < PipeCap THEN y ELSE y - PipeCap
    BY <2>1, <1>0, Wrap
  <2> QED BY <2>1, <2>2, <2>3, <1>0
<1> HIDE DEF x, w
<1>3. x \in 0 .. PipeCap - 1 /\ w \in 0 .. PipeCap - 1
  BY <1>0, <1>1, <1>2
<1>4. From(w, x) = IF x + PipeCap - w < PipeCap THEN x + PipeCap - w ELSE x - w
  <2> DEFINE y == x + PipeCap - w
  <2>1. y \in Nat /\ y < PipeCap + PipeCap /\ y - PipeCap = x - w
    BY <1>0, <1>3
  <2>2. From(w, x) = y % PipeCap
    BY DEF From
  <2> HIDE DEF y
  <2>3. y % PipeCap = IF y < PipeCap THEN y ELSE y - PipeCap
    BY <2>1, <1>0, Wrap
  <2> QED BY <2>1, <2>2, <2>3 DEF y
<1>5. From(w, x) = IF i > n THEN i - 1 - n ELSE PipeCap + i - 1 - n
  <2>1. CASE i > n
    BY <2>1, <1>0, <1>1, <1>2, <1>3, <1>4
  <2>2. CASE ~(i > n)
    BY <2>2, <1>0, <1>1, <1>2, <1>3, <1>4
  <2> QED BY <2>1, <2>2
<1> QED BY <1>3, <1>5 DEF x, w, Place

\* Adding up around the ring.
LEMMA AroundTwice ==
    ASSUME NEW r \in Place, NEW n \in 0 .. PipeCap, NEW k \in 0 .. PipeCap - n
    PROVE  (((r + n) % PipeCap) + k) % PipeCap = (r + (n + k)) % PipeCap
<1>0. PipeCap \in Nat \ {0} /\ r \in Nat /\ r < PipeCap /\ n \in Nat /\ k \in Nat
  BY FdNumbers DEF Place
<1> DEFINE w == (r + n) % PipeCap
<1>1. w = IF r + n < PipeCap THEN r + n ELSE r + n - PipeCap
  <2> DEFINE y == r + n
  <2>1. y \in Nat /\ y < PipeCap + PipeCap /\ y = r + n
    BY <1>0
  <2>2. w = y % PipeCap
    OBVIOUS
  <2> HIDE DEF w, y
  <2>3. y % PipeCap = IF y < PipeCap THEN y ELSE y - PipeCap
    BY <2>1, <1>0, Wrap
  <2> QED BY <2>1, <2>2, <2>3, <1>0
<1> HIDE DEF w
<1>2. (w + k) % PipeCap = IF w + k < PipeCap THEN w + k ELSE w + k - PipeCap
  <2> DEFINE y == w + k
           z == y % PipeCap
  <2>1. y \in Nat /\ y < PipeCap + PipeCap /\ y = w + k
    BY <1>0, <1>1
  <2>2. (w + k) % PipeCap = z
    OBVIOUS
  <2>3. z = y % PipeCap
    OBVIOUS
  <2> HIDE DEF y, z
  <2>4. z = IF y < PipeCap THEN y ELSE y - PipeCap
    BY <2>1, <2>3, <1>0, Wrap
  <2> QED BY <2>1, <2>2, <2>4, <1>0, <1>1
<1>3. (r + (n + k)) % PipeCap = IF r + (n + k) < PipeCap THEN r + (n + k) ELSE r + (n + k) - PipeCap
  <2> DEFINE y == r + (n + k)
           z == y % PipeCap
  <2>1. y \in Nat /\ y < PipeCap + PipeCap /\ y = r + (n + k)
    BY <1>0
  <2>2. (r + (n + k)) % PipeCap = z
    OBVIOUS
  <2>3. z = y % PipeCap
    OBVIOUS
  <2> HIDE DEF y, z
  <2>4. z = IF y < PipeCap THEN y ELSE y - PipeCap
    BY <2>1, <2>3, <1>0, Wrap
  <2> QED BY <2>1, <2>2, <2>4, <1>0
<1>4. (w + k) % PipeCap = (r + (n + k)) % PipeCap
  <2>1. CASE r + n < PipeCap
    BY <2>1, <1>0, <1>1, <1>2, <1>3
  <2>2. CASE ~(r + n < PipeCap)
    BY <2>2, <1>0, <1>1, <1>2, <1>3
  <2> QED BY <2>1, <2>2
<1> QED BY <1>4 DEF w

LEMMA PipeFields ==
    ASSUME NEW q \in Pipe
    PROVE  /\ q.buf \in [Place -> Nat] /\ q.r \in Place /\ q.w \in Place
           /\ q.n \in 0 .. PipeCap /\ q.n \in Nat /\ DOMAIN q.buf = Place
BY FdNumbers DEF Pipe

LEMMA OldestAre ==
    ASSUME NEW q \in Pipe, NEW n \in 0 .. PipeCap
    PROVE  /\ Oldest(q, n) \in Seq(Nat) /\ Len(Oldest(q, n)) = n
           /\ \A i \in 1 .. n : Oldest(q, n)[i] = q.buf[(q.r + i - 1) % PipeCap]
<1> DEFINE At(i) == q.buf[(q.r + i - 1) % PipeCap]
<1>0. q.buf \in [Place -> Nat] /\ q.r \in Place /\ n \in Nat /\ PipeCap \in Nat
  BY PipeFields, FdNumbers
<1>1. \A i \in 1 .. n : At(i) \in Nat
  <2> SUFFICES ASSUME NEW i \in 1 .. n PROVE At(i) \in Nat
    OBVIOUS
  <2>1. i \in 1 .. PipeCap
    BY <1>0
  <2>2. (q.r + i - 1) % PipeCap \in Place
    BY <2>1, <1>0, FromPlace
  <2> DEFINE x == (q.r + i - 1) % PipeCap
  <2>3. x \in Place
    BY <2>2
  <2> HIDE DEF x
  <2>4. q.buf[x] \in Nat
    BY <2>3, <1>0
  <2> QED BY <2>4 DEF x
<1>2. Oldest(q, n) = [i \in 1 .. n |-> At(i)]
  BY DEF Oldest
<1>3. \A i \in 1 .. n : Oldest(q, n)[i] = At(i)
  BY <1>2
<1> HIDE DEF At
<1>4. Oldest(q, n) \in Seq(Nat) /\ Len(Oldest(q, n)) = n
  <2>1. [i \in 1 .. n |-> At(i)] \in Seq(Nat)
    BY <1>0, <1>1, IsASeq
  <2>2. DOMAIN [i \in 1 .. n |-> At(i)] = 1 .. n
    OBVIOUS
  <2>3. Len([i \in 1 .. n |-> At(i)]) = n
    BY <2>1, <2>2, <1>0, LenProperties
  <2> QED BY <2>1, <2>3, <1>2
<1> QED BY <1>3, <1>4 DEF At

\* What is read is the front of what is in the ring, and the rest stays.
LEMMA OldestSplits ==
    ASSUME NEW q \in Pipe, NEW k \in 0 .. PipeCap, k <= q.n, NEW q2 \in Pipe,
           q2.buf = q.buf, q2.r = (q.r + k) % PipeCap, q2.n = q.n - k
    PROVE  Oldest(q, q.n) = Oldest(q, k) \o Oldest(q2, q2.n)
<1> DEFINE a == Oldest(q, q.n)
           b == Oldest(q, k)
           c == Oldest(q2, q2.n)
<1>0. /\ PipeCap \in Nat \ {0} /\ k \in Nat /\ q.n \in Nat /\ q.n \in 0 .. PipeCap /\ q2.n \in 0 .. PipeCap
      /\ q.r \in Place /\ q.r \in Nat
  BY PipeFields, FdNumbers DEF Place
<1>1. a \in Seq(Nat) /\ Len(a) = q.n /\ \A i \in 1 .. q.n : a[i] = q.buf[(q.r + i - 1) % PipeCap]
  BY <1>0, OldestAre
<1>2. b \in Seq(Nat) /\ Len(b) = k /\ \A i \in 1 .. k : b[i] = q.buf[(q.r + i - 1) % PipeCap]
  BY <1>0, OldestAre
<1>3. c \in Seq(Nat) /\ Len(c) = q2.n /\ \A i \in 1 .. q2.n : c[i] = q2.buf[(q2.r + i - 1) % PipeCap]
  BY <1>0, OldestAre
<1>4. ASSUME NEW j \in 1 .. q2.n
      PROVE  (q2.r + j - 1) % PipeCap = (q.r + (k + j) - 1) % PipeCap
  <2>1. (((q.r + k) % PipeCap) + (j - 1)) % PipeCap = (q.r + (k + (j - 1))) % PipeCap
    <3>1. k \in 0 .. PipeCap /\ j - 1 \in 0 .. PipeCap - k
      BY <1>0
    <3> QED BY <3>1, <1>0, AroundTwice
  <2>2. q2.r + j - 1 = q2.r + (j - 1)
    <3>1. q2.r \in Nat
      BY PipeFields DEF Place
    <3> QED BY <3>1, <1>0
  <2>3. q.r + (k + j) - 1 = q.r + (k + (j - 1))
    BY <1>0
  <2>4. q2.r + (j - 1) = ((q.r + k) % PipeCap) + (j - 1)
    BY Zenon
  <2> QED BY <2>1, <2>2, <2>3, <2>4, Zenon
<1> HIDE DEF a, b, c
<1>5. /\ b \o c \in Seq(Nat) /\ Len(b \o c) = Len(b) + Len(c)
      /\ \A i \in 1 .. Len(b) + Len(c) : (b \o c)[i] = IF i <= Len(b) THEN b[i] ELSE c[i - Len(b)]
  <2>1. b \in Seq(Nat) /\ c \in Seq(Nat)
    BY <1>2, <1>3
  <2> QED BY <2>1, ConcatProperties
<1>6. Len(b) + Len(c) = q.n
  BY <1>0, <1>2, <1>3
<1>7. ASSUME NEW i \in 1 .. q.n PROVE a[i] = (b \o c)[i]
  <2>1. CASE i <= k
    <3>1. i \in 1 .. k
      BY <2>1
    <3>2. (b \o c)[i] = b[i]
      BY <2>1, <1>2, <1>5, <1>6
    <3> QED BY <3>1, <3>2, <1>1, <1>2
  <2>2. CASE ~(i <= k)
    <3>1. i - k \in 1 .. q2.n /\ k + (i - k) = i
      BY <2>2, <1>0
    <3>2. (b \o c)[i] = c[i - k]
      BY <2>2, <1>2, <1>5, <1>6
    <3>3. c[i - k] = q.buf[(q2.r + (i - k) - 1) % PipeCap]
      BY <3>1, <1>3
    <3>4. (q2.r + (i - k) - 1) % PipeCap = (q.r + (k + (i - k)) - 1) % PipeCap
      BY <3>1, <1>4
    <3> QED BY <3>1, <3>2, <3>3, <3>4, <1>1
  <2> QED BY <2>1, <2>2
<1>8. a = b \o c
  BY <1>1, <1>5, <1>6, <1>7, SeqEqual
<1> QED BY <1>8 DEF a, b, c

\* What is written comes after what is in the ring and overwrites none of it.
LEMMA OldestGrow ==
    ASSUME NEW q \in Pipe, q.w = (q.r + q.n) % PipeCap, NEW b \in Seq(Nat),
           NEW k \in 0 .. PipeCap - q.n, k <= Len(b),
           NEW q2 \in Pipe, q2.r = q.r, q2.n = q.n + k,
           \A i \in Place : q2.buf[i] = IF From(q.w, i) < k THEN b[1 + From(q.w, i)] ELSE q.buf[i]
    PROVE  Oldest(q2, q2.n) = Oldest(q, q.n) \o SubSeq(b, 1, k)
<1> DEFINE a == Oldest(q, q.n)
           c == SubSeq(b, 1, k)
           d == Oldest(q2, q2.n)
<1>0. /\ PipeCap \in Nat \ {0} /\ k \in Nat /\ q.n \in Nat /\ q.n \in 0 .. PipeCap /\ q2.n \in 0 .. PipeCap
      /\ q.r \in Place /\ Len(b) \in Nat
  BY PipeFields, FdNumbers DEF Place
<1>1. a \in Seq(Nat) /\ Len(a) = q.n /\ \A i \in 1 .. q.n : a[i] = q.buf[(q.r + i - 1) % PipeCap]
  BY <1>0, OldestAre
<1>2. c \in Seq(Nat) /\ Len(c) = k /\ \A i \in 1 .. k : c[i] = b[i]
  BY SMTT(20), <1>0
<1>3. d \in Seq(Nat) /\ Len(d) = q2.n /\ \A i \in 1 .. q2.n : d[i] = q2.buf[(q2.r + i - 1) % PipeCap]
  BY <1>0, OldestAre
<1> HIDE DEF a, c, d
<1>4. /\ a \o c \in Seq(Nat) /\ Len(a \o c) = Len(a) + Len(c)
      /\ \A i \in 1 .. Len(a) + Len(c) : (a \o c)[i] = IF i <= Len(a) THEN a[i] ELSE c[i - Len(a)]
  BY <1>1, <1>2, ConcatProperties
<1>5. Len(a) + Len(c) = q2.n
  BY <1>0, <1>1, <1>2
<1>6. ASSUME NEW i \in 1 .. q2.n PROVE d[i] = (a \o c)[i]
  <2> DEFINE x == (q.r + i - 1) % PipeCap
  <2>0. i \in 1 .. PipeCap /\ i \in Nat
    BY <1>0
  <2>1. x \in Place /\ From(q.w, x) = IF i > q.n THEN i - 1 - q.n ELSE PipeCap + i - 1 - q.n
    BY <2>0, <1>0, FromPlace
  <2>2. d[i] = q2.buf[x]
    BY <1>3
  <2>3. i <= q.n => a[i] = q.buf[x]
    BY <2>0, <1>1
  <2> HIDE DEF x
  <2>4. q2.buf[x] = IF From(q.w, x) < k THEN b[1 + From(q.w, x)] ELSE q.buf[x]
    BY <2>1
  <2>5. CASE i <= q.n
    <3>1. ~(From(q.w, x) < k)
      BY <2>0, <2>1, <2>5, <1>0
    <3>2. (a \o c)[i] = a[i]
      BY <2>5, <1>1, <1>4, <1>5
    <3> QED BY <3>1, <3>2, <2>2, <2>3, <2>4, <2>5
  <2>6. CASE ~(i <= q.n)
    <3>1. From(q.w, x) < k /\ 1 + From(q.w, x) = i - q.n /\ i - q.n \in 1 .. k
      BY <2>0, <2>1, <2>6, <1>0
    <3>2. (a \o c)[i] = c[i - q.n]
      BY <2>6, <1>1, <1>4, <1>5
    <3> QED BY <3>1, <3>2, <2>2, <2>4, <1>2
  <2> QED BY <2>5, <2>6
<1> DEFINE e == a \o c
<1>7. d = e
  <2>1. d \in Seq(Nat) /\ e \in Seq(Nat) /\ Len(d) = Len(e)
    BY <1>3, <1>4, <1>5
  <2>2. \A i \in 1 .. Len(d) : d[i] = e[i]
    BY <1>3, <1>6
  <2> HIDE DEF e
  <2> QED BY <2>1, <2>2, SeqEqual
<1> QED BY <1>7 DEF a, c, d

LEMMA PipesAre ==
    ASSUME FdTypeOK
    PROVE  /\ pipes \in Seq(Pipe) /\ sent \in Seq(Seq(Nat)) /\ got \in Seq(Seq(Nat))
           /\ Len(pipes) \in Nat /\ Len(sent) = Len(pipes) /\ Len(got) = Len(pipes)
           /\ DOMAIN pipes = 1 .. Len(pipes)
           /\ \A id \in 1 .. Len(pipes) :
                pipes[id] \in Pipe /\ sent[id] \in Seq(Nat) /\ got[id] \in Seq(Nat)
<1>1. /\ pipes \in Seq(Pipe) /\ sent \in Seq(Seq(Nat)) /\ got \in Seq(Seq(Nat))
      /\ Len(sent) = Len(pipes) /\ Len(got) = Len(pipes)
  BY DEF FdTypeOK
<1>2. Len(pipes) \in Nat /\ DOMAIN pipes = 1 .. Len(pipes)
  BY <1>1
<1>3. \A id \in 1 .. Len(pipes) : pipes[id] \in Pipe /\ sent[id] \in Seq(Nat) /\ got[id] \in Seq(Nat)
  BY <1>1
<1> QED BY <1>1, <1>2, <1>3

\* A step of one pipe.
LEMMA OnePipeKeeps ==
    ASSUME FdInv, NEW id \in 1 .. Len(pipes), NEW q \in Pipe, NEW s \in Seq(Nat), NEW g \in Seq(Nat),
           pipes' = [pipes EXCEPT ![id] = q],
           sent' = [sent EXCEPT ![id] = s], got' = [got EXCEPT ![id] = g],
           q.w = (q.r + q.n) % PipeCap, g \o Oldest(q, q.n) = s,
           UNCHANGED <<fdt, running, files, socks, image, shared>>
    PROVE  FdInv'
<1>0. FdTypeOK /\ RingsFit /\ EndsFit /\ PipeIsAQueue /\ PrivateToItsImage /\ SlotsHaveOwners
  BY Parts
<1>1. /\ pipes \in Seq(Pipe) /\ sent \in Seq(Seq(Nat)) /\ got \in Seq(Seq(Nat))
      /\ Len(pipes) \in Nat /\ Len(sent) = Len(pipes) /\ Len(got) = Len(pipes)
      /\ DOMAIN pipes = 1 .. Len(pipes)
  BY <1>0, PipesAre
<1>2. /\ pipes' \in Seq(Pipe) /\ Len(pipes') = Len(pipes)
      /\ pipes'[id] = q /\ \A j \in 1 .. Len(pipes) : j # id => pipes'[j] = pipes[j]
  BY <1>1
<1>3. /\ sent' \in Seq(Seq(Nat)) /\ Len(sent') = Len(sent)
      /\ sent'[id] = s /\ \A j \in 1 .. Len(pipes) : j # id => sent'[j] = sent[j]
  BY <1>1
<1>4. /\ got' \in Seq(Seq(Nat)) /\ Len(got') = Len(got)
      /\ got'[id] = g /\ \A j \in 1 .. Len(pipes) : j # id => got'[j] = got[j]
  BY <1>1
<1>5. FdTypeOK'
  BY <1>0, <1>1, <1>2, <1>3, <1>4 DEF FdTypeOK
<1>6. RingsFit'
  BY <1>0, <1>2 DEF RingsFit
<1>7. PipeIsAQueue'
  <2>1. DOMAIN pipes' = 1 .. Len(pipes)
    BY <1>2
  <2> SUFFICES ASSUME NEW j \in 1 .. Len(pipes)
               PROVE  got'[j] \o Oldest(pipes'[j], pipes'[j].n) = sent'[j]
    BY <2>1 DEF PipeIsAQueue, Oldest
  <2>2. CASE j = id
    BY <2>2, <1>2, <1>3, <1>4
  <2>3. CASE j # id
    <3>1. got[j] \o Oldest(pipes[j], pipes[j].n) = sent[j]
      BY <1>0, <1>1 DEF PipeIsAQueue
    <3> QED BY <2>3, <3>1, <1>2, <1>3, <1>4
  <2> QED BY <2>2, <2>3
<1>8. EndsFit' /\ PrivateToItsImage'
  BY <1>0, <1>2 DEF EndsFit, PrivateToItsImage, Kind
<1>9. SlotsHaveOwners'
  BY <1>0 DEF SlotsHaveOwners, Released, Kind
<1> QED BY <1>5, <1>6, <1>7, <1>8, <1>9 DEF FdInv

LEMMA BytesJoin ==
    \A x, y, z : x \in Seq(Nat) /\ y \in Seq(Nat) /\ z \in Seq(Nat) => (z \o x) \o y = z \o (x \o y)
BY SMTT(20), ConcatAssociative

LEMMA PipeWriteKeeps ==
    ASSUME FdInv, NEW p \in running, NEW f \in FdIds, NEW b \in Chunks, PipeWrite(p, f, b)
    PROVE  FdInv'
<1> DEFINE id == fdt[p][f].obj
           q == pipes[id]
           k == Least(Len(b), Space(q))
           nb == [i \in DOMAIN q.buf |-> IF From(q.w, i) < k THEN b[1 + From(q.w, i)] ELSE q.buf[i]]
           q2 == [q EXCEPT !.buf = nb, !.w = (@ + k) % PipeCap, !.n = @ + k]
           s == sent[id] \o SubSeq(b, 1, k)
<1>0. /\ FdTypeOK /\ RingsFit /\ EndsFit /\ PipeIsAQueue /\ p \in Procs
      /\ fdt \in [Procs -> [FdIds -> Desc]]
  BY Parts
<1>1. id \in 1 .. Len(pipes)
  BY <1>0 DEF PipeWrite, EndsFit
<1>2. /\ pipes' = [pipes EXCEPT ![id] = q2]
      /\ sent' = [sent EXCEPT ![id] = s]
      /\ UNCHANGED <<fdt, running, files, socks, image, got, shared>>
  BY DEF PipeWrite
<1>3. /\ q \in Pipe /\ sent[id] \in Seq(Nat) /\ got[id] \in Seq(Nat)
      /\ got \in Seq(Seq(Nat)) /\ DOMAIN pipes = 1 .. Len(pipes)
      /\ q.w = (q.r + q.n) % PipeCap /\ got[id] \o Oldest(q, q.n) = sent[id]
  BY <1>0, <1>1, PipesAre DEF RingsFit, PipeIsAQueue
<1>4. b \in Seq(Nat) /\ Len(b) \in Nat
  BY DescriptorsAssumption
<1> HIDE DEF id, q
<1>5. /\ q.buf \in [Place -> Nat] /\ q.r \in Place /\ q.w \in Place /\ q.n \in 0 .. PipeCap
      /\ q.n \in Nat /\ DOMAIN q.buf = Place /\ PipeCap \in Nat \ {0} /\ Place \subseteq Nat
  <2>1. Place \subseteq Nat
    BY FdNumbers DEF Place
  <2>2. q \in Pipe
    BY <1>3
  <2> QED BY <2>1, <2>2, PipeFields, FdNumbers
<1>6. k \in 0 .. PipeCap - q.n /\ k <= Len(b) /\ k \in Nat
  BY <1>4, <1>5 DEF Least, Space
<1> HIDE DEF k
<1>7. nb \in [Place -> Nat]
  <2>1. ASSUME NEW i \in Place, From(q.w, i) < k PROVE b[1 + From(q.w, i)] \in Nat
    <3>1. q.w \in Nat /\ i \in Nat /\ q.w < PipeCap /\ i < PipeCap
      BY <1>5 DEF Place
    <3> DEFINE y == i + PipeCap - q.w
    <3>2. y \in Nat
      BY <3>1, <1>5
    <3>3. From(q.w, i) = y % PipeCap
      BY DEF From
    <3> HIDE DEF y
    <3>4. y % PipeCap \in Nat
      BY <3>2, <1>5, SMTT(20)
    <3>5. 1 + From(q.w, i) \in 1 .. Len(b)
      BY <3>3, <3>4, <2>1, <1>4, <1>6
    <3> QED BY <3>5, <1>4
  <2> QED BY <2>1, <1>5
<1>8. \A i \in Place : nb[i] = IF From(q.w, i) < k THEN b[1 + From(q.w, i)] ELSE q.buf[i]
  BY <1>5
<1> HIDE DEF nb
<1>9. (q.w + k) % PipeCap = (q.r + (q.n + k)) % PipeCap /\ (q.w + k) % PipeCap \in Place
  <2>0. (((q.r + q.n) % PipeCap) + k) % PipeCap = (q.r + (q.n + k)) % PipeCap
    BY <1>5, <1>6, AroundTwice
  <2>1. (q.w + k) % PipeCap = (q.r + (q.n + k)) % PipeCap
    BY <2>0, <1>3
  <2> DEFINE y == q.w + k
  <2>2. y \in Nat
    <3>1. q.w \in Nat /\ k \in Nat
      BY <1>5, <1>6
    <3> QED BY <3>1
  <2>3. (q.w + k) % PipeCap = y % PipeCap
    OBVIOUS
  <2> HIDE DEF y
  <2>4. y % PipeCap \in 0 .. PipeCap - 1
    BY <2>2, <1>5, SMTT(20)
  <2> QED BY <2>1, <2>3, <2>4 DEF Place
<1> DEFINE w == (q.w + k) % PipeCap
<1>10. q2 = [q EXCEPT !.buf = nb, !.w = w, !.n = q.n + k] /\ w \in Place
  BY <1>9
<1>11. w = (q.r + (q.n + k)) % PipeCap
  BY <1>9
<1> HIDE DEF q2, w
<1>12. q.n + k \in 0 .. PipeCap
  BY <1>5, <1>6
<1>13. q2 \in Pipe /\ q2.buf = nb /\ q2.r = q.r /\ q2.w = w /\ q2.n = q.n + k
  BY <1>3, <1>7, <1>10, <1>12 DEF Pipe
<1>14. Oldest(q2, q2.n) = Oldest(q, q.n) \o SubSeq(b, 1, k)
  BY <1>3, <1>4, <1>6, <1>8, <1>13, OldestGrow
<1>15. SubSeq(b, 1, k) \in Seq(Nat)
  BY <1>4, <1>6
<1>16. Oldest(q, q.n) \in Seq(Nat)
  BY <1>3, <1>5, OldestAre
<1>17. got[id] \o Oldest(q2, q2.n) = s
  <2> DEFINE x == Oldest(q, q.n)
             y == SubSeq(b, 1, k)
             z == got[id]
  <2>1. x \in Seq(Nat) /\ y \in Seq(Nat) /\ z \in Seq(Nat) /\ z \o x = sent[id]
    BY <1>3, <1>15, <1>16
  <2>2. Oldest(q2, q2.n) = x \o y /\ s = sent[id] \o y
    BY <1>14
  <2> HIDE DEF x, y, z, s
  <2>3. (z \o x) \o y = z \o (x \o y)
    <3>1. x \in Seq(Nat)
      BY <2>1
    <3>2. y \in Seq(Nat)
      BY <2>1
    <3>3. z \in Seq(Nat)
      BY <2>1
    <3> QED BY <3>1, <3>2, <3>3, BytesJoin
  <2> QED BY <2>1, <2>2, <2>3 DEF z
<1>18. s \in Seq(Nat)
  BY <1>3, <1>15
<1>19. got' = [got EXCEPT ![id] = got[id]]
  BY <1>2, <1>3
<1> HIDE DEF s
<1>20. q2.w = (q2.r + q2.n) % PipeCap
  BY <1>11, <1>13
<1> QED BY <1>1, <1>2, <1>3, <1>13, <1>17, <1>18, <1>19, <1>20, OnePipeKeeps

LEMMA PipeReadKeeps ==
    ASSUME FdInv, NEW p \in running, NEW f \in FdIds, NEW n \in 1 .. 2, PipeRead(p, f, n)
    PROVE  FdInv'
<1> DEFINE id == fdt[p][f].obj
           q == pipes[id]
           k == Least(n, q.n)
           q2 == [q EXCEPT !.r = (@ + k) % PipeCap, !.n = @ - k]
           g == got[id] \o Oldest(q, k)
<1>0. /\ FdTypeOK /\ RingsFit /\ EndsFit /\ PipeIsAQueue /\ p \in Procs
      /\ fdt \in [Procs -> [FdIds -> Desc]]
  BY Parts
<1>1. id \in 1 .. Len(pipes)
  BY <1>0 DEF PipeRead, EndsFit
<1>3. /\ q \in Pipe /\ sent[id] \in Seq(Nat) /\ got[id] \in Seq(Nat)
      /\ got \in Seq(Seq(Nat)) /\ sent \in Seq(Seq(Nat)) /\ DOMAIN pipes = 1 .. Len(pipes)
      /\ Len(sent) = Len(pipes) /\ Len(got) = Len(pipes)
      /\ q.w = (q.r + q.n) % PipeCap /\ got[id] \o Oldest(q, q.n) = sent[id]
  BY <1>0, <1>1, PipesAre DEF RingsFit, PipeIsAQueue
<1>2. /\ pipes' = [pipes EXCEPT ![id] = q2]
      /\ got' = [got EXCEPT ![id] = g]
      /\ UNCHANGED <<fdt, running, files, socks, image, sent, shared>>
  <2>2. pipes' = [pipes EXCEPT ![id] = q2]
    BY DEF PipeRead
  <2>3. got' = [got EXCEPT ![id] = @ \o Oldest(q, k)]
    BY DEF PipeRead
  <2>4. got' = [got EXCEPT ![id] = g]
    BY <2>3, <1>1, <1>3
  <2>5. UNCHANGED <<fdt, running, files, socks, image, sent, shared>>
    BY DEF PipeRead
  <2> QED BY <2>2, <2>4, <2>5
<1> HIDE DEF id, q
<1>5. /\ q.buf \in [Place -> Nat] /\ q.r \in Place /\ q.w \in Place /\ q.n \in 0 .. PipeCap
      /\ q.n \in Nat /\ PipeCap \in Nat \ {0} /\ Place \subseteq Nat
  <2>1. Place \subseteq Nat
    BY FdNumbers DEF Place
  <2>2. q \in Pipe
    BY <1>3
  <2> QED BY <2>1, <2>2, PipeFields, FdNumbers
<1>6. k \in 0 .. PipeCap /\ k <= q.n /\ k \in Nat
  BY <1>5 DEF Least
<1> HIDE DEF k
<1> DEFINE r == (q.r + k) % PipeCap
<1>7. r \in Place
  <2> DEFINE y == q.r + k
  <2>2. y \in Nat
    <3>1. q.r \in Nat /\ k \in Nat
      BY <1>5, <1>6
    <3> QED BY <3>1
  <2>3. r = y % PipeCap
    OBVIOUS
  <2> HIDE DEF y, r
  <2>4. y % PipeCap \in 0 .. PipeCap - 1
    BY <2>2, <1>5, SMTT(20)
  <2> QED BY <2>3, <2>4 DEF Place
<1>8. (r + (q.n - k)) % PipeCap = (q.r + q.n) % PipeCap
  <2>1. k \in 0 .. PipeCap /\ q.n - k \in 0 .. PipeCap - k /\ k + (q.n - k) = q.n
    BY <1>5, <1>6
  <2>2. (((q.r + k) % PipeCap) + (q.n - k)) % PipeCap = (q.r + (k + (q.n - k))) % PipeCap
    BY <2>1, <1>5, AroundTwice
  <2> QED BY <2>1, <2>2
<1>9. q2 = [q EXCEPT !.r = r, !.n = q.n - k] /\ r = (q.r + k) % PipeCap
  OBVIOUS
<1> HIDE DEF q2, r
<1>10. q.n - k \in 0 .. PipeCap
  BY <1>5, <1>6
<1>11. q2 \in Pipe /\ q2.buf = q.buf /\ q2.r = r /\ q2.w = q.w /\ q2.n = q.n - k
  BY <1>3, <1>7, <1>9, <1>10 DEF Pipe
<1>12. q2.w = (q2.r + q2.n) % PipeCap
  BY <1>3, <1>8, <1>11
<1>13. Oldest(q, q.n) = Oldest(q, k) \o Oldest(q2, q2.n)
  BY <1>3, <1>6, <1>9, <1>11, OldestSplits
<1>14. Oldest(q, k) \in Seq(Nat) /\ Oldest(q2, q2.n) \in Seq(Nat)
  BY <1>3, <1>6, <1>10, <1>11, OldestAre
<1>15. g \o Oldest(q2, q2.n) = sent[id] /\ g \in Seq(Nat)
  <2> DEFINE x == Oldest(q, k)
             y == Oldest(q2, q2.n)
             z == got[id]
  <2>1. x \in Seq(Nat) /\ y \in Seq(Nat) /\ z \in Seq(Nat)
    BY <1>3, <1>14
  <2>2. sent[id] = z \o (x \o y) /\ g = z \o x
    BY <1>3, <1>13
  <2> HIDE DEF x, y, z, g
  <2>3. (z \o x) \o y = z \o (x \o y)
    <3>1. x \in Seq(Nat)
      BY <2>1
    <3>2. y \in Seq(Nat)
      BY <2>1
    <3>3. z \in Seq(Nat)
      BY <2>1
    <3> QED BY <3>1, <3>2, <3>3, BytesJoin
  <2>4. g \o y = sent[id]
    BY <2>2, <2>3
  <2>5. g \in Seq(Nat)
    BY <2>1, <2>2
  <2> QED BY <2>4, <2>5 DEF y
<1>16. sent' = [sent EXCEPT ![id] = sent[id]]
  BY <1>2, <1>3
<1> HIDE DEF g
<1> QED BY <1>1, <1>2, <1>3, <1>11, <1>12, <1>15, <1>16, OnePipeKeeps

----------------------------------------------------------------------------
(* Descriptors that come, go and are copied *)

LEMMA EndFits ==
    ASSUME NEW k \in {"rpipe", "wpipe"}, NEW n \in Nat, NEW id \in 1 .. n
    PROVE  /\ PipeEnd(k, id) \in Desc /\ PipeEnd(k, id).kind = k
           /\ DescFits(PipeEnd(k, id), n) /\ \A im : Private(PipeEnd(k, id), im)
<1> DEFINE d == PipeEnd(k, id)
<1>0. id \in Nat /\ k \in Kinds
  BY DEF Kinds
<1>1. d \in Desc /\ d.kind = k /\ d.obj = id /\ d.cloexec = FALSE /\ d.image = NoImage
  <2>1. d \in Desc
    BY <1>0 DEF PipeEnd, Unused, Desc, Kinds, NoImage
  <2>2. d.kind = k /\ d.obj = id
    BY DEF PipeEnd, Unused
  <2>3. d.cloexec = FALSE /\ d.image = NoImage
    BY DEF PipeEnd, Unused
  <2> QED BY <2>1, <2>2, <2>3
<1> HIDE DEF d
<1>2. DescFits(d, n) /\ \A im : Private(d, im)
  BY <1>1 DEF DescFits, Private
<1> QED BY <1>1, <1>2 DEF d

LEMMA MakePipeKeeps ==
    ASSUME FdInv, NEW p \in running, MakePipe(p)
    PROVE  FdInv'
<1> DEFINE id == Len(pipes) + 1
           r == FreeFrom(p, 3)
           w == r \ {Lowest(r)}
           t == IF r = {} THEN fdt ELSE [fdt EXCEPT ![p][Lowest(r)] = PipeEnd("rpipe", id)]
           u == IF r = {} \/ w = {} THEN t ELSE [t EXCEPT ![p][Lowest(w)] = PipeEnd("wpipe", id)]
<1>0. /\ FdTypeOK /\ RingsFit /\ EndsFit /\ PipeIsAQueue /\ PrivateToItsImage /\ SlotsHaveOwners
      /\ TableFits(fdt, running, image, Len(pipes)) /\ p \in Procs
      /\ fdt \in [Procs -> [FdIds -> Desc]] /\ running \subseteq Procs /\ Len(pipes) \in Nat
  BY Parts
<1>1. /\ pipes' = Append(pipes, EmptyPipe) /\ sent' = Append(sent, <<>>) /\ got' = Append(got, <<>>)
      /\ fdt' = u
      /\ UNCHANGED <<running, files, socks, image, shared>>
  BY DEF MakePipe
<1>2. id \in Nat /\ id \in 1 .. id /\ Len(pipes) <= id
  BY <1>0
<1>3. /\ pipes \in Seq(Pipe) /\ sent \in Seq(Seq(Nat)) /\ got \in Seq(Seq(Nat))
      /\ Len(sent) = Len(pipes) /\ Len(got) = Len(pipes)
  BY <1>0, PipesAre
<1>4. EmptyPipe \in Pipe /\ EmptyPipe.w = (EmptyPipe.r + EmptyPipe.n) % PipeCap /\ EmptyPipe.n = 0
  <2>1. PipeCap \in Nat \ {0}
    BY FdNumbers
  <2>2. (0 + 0) % PipeCap = 0
    BY <2>1, SMTT(20)
  <2>3. EmptyPipe \in Pipe
    BY <2>1 DEF EmptyPipe, Pipe, Place
  <2> QED BY <2>2, <2>3 DEF EmptyPipe
<1>5. /\ pipes' \in Seq(Pipe) /\ Len(pipes') = id /\ pipes'[id] = EmptyPipe
      /\ \A j \in 1 .. Len(pipes) : pipes'[j] = pipes[j]
  BY <1>1, <1>3, <1>4
<1>6. /\ sent' \in Seq(Seq(Nat)) /\ Len(sent') = id /\ sent'[id] = <<>>
      /\ \A j \in 1 .. Len(pipes) : sent'[j] = sent[j]
  BY <1>1, <1>3
<1>7. /\ got' \in Seq(Seq(Nat)) /\ Len(got') = id /\ got'[id] = <<>>
      /\ \A j \in 1 .. Len(pipes) : got'[j] = got[j]
  BY <1>1, <1>3
<1>8. TableFits(fdt, running, image, id)
  BY <1>0, <1>2, MorePipes
<1>9. /\ TableFits(t, running, image, id)
      /\ \A q \in Procs, g \in FdIds :
           t[q][g] = fdt[q][g] \/ (Kind(q, g) = "none" /\ t[q][g].kind # "socket" /\ q = p /\ g = Lowest(r))
      /\ r # {} => Lowest(r) \in r
  <2>1. CASE r = {}
    BY <2>1, <1>8
  <2>2. CASE r # {}
    <3> DEFINE f == Lowest(r)
               d == PipeEnd("rpipe", id)
    <3>1. f \in r
      BY <2>2, FdNumbers, LowestIsLeast DEF FreeFrom
    <3>2. f \in FdIds /\ Kind(p, f) = "none"
      BY <3>1 DEF FreeFrom, Kind
    <3>3. d \in Desc /\ d.kind = "rpipe" /\ DescFits(d, id) /\ Private(d, image[p])
      BY <1>2, EndFits
    <3>4. t = Put(fdt, p, f, d)
      BY <2>2 DEF Put
    <3> HIDE DEF d, f, t, id
    <3>5. /\ TableFits(Put(fdt, p, f, d), running, image, id)
          /\ Put(fdt, p, f, d)[p][f] = d
          /\ \A q \in Procs, g \in FdIds : (q # p \/ g # f) => Put(fdt, p, f, d)[q][g] = fdt[q][g]
      BY <1>0, <1>8, <3>2, <3>3, OneFd
    <3>6. \A q \in Procs, g \in FdIds :
            t[q][g] = fdt[q][g] \/ (Kind(q, g) = "none" /\ t[q][g].kind # "socket" /\ q = p /\ g = f)
      BY <3>2, <3>3, <3>4, <3>5
    <3> QED BY <3>1, <3>4, <3>5, <3>6 DEF f
  <2> QED BY <2>1, <2>2
<1>10. /\ TableFits(u, running, image, id)
       /\ \A q \in Procs, g \in FdIds :
            u[q][g] = fdt[q][g] \/ (Kind(q, g) = "none" /\ u[q][g].kind # "socket")
  <2>1. CASE r = {} \/ w = {}
    <3>1. u = t
      BY <2>1
    <3> HIDE DEF t, u
    <3> QED BY <3>1, <1>9
  <2>2. CASE ~(r = {} \/ w = {})
    <3> DEFINE f == Lowest(w)
               d == PipeEnd("wpipe", id)
    <3>1. f \in w
      BY <2>2, FdNumbers, LowestIsLeast DEF FreeFrom
    <3>2. f \in FdIds /\ Kind(p, f) = "none"
      BY <3>1 DEF FreeFrom, Kind
    <3>3. d \in Desc /\ d.kind = "wpipe" /\ DescFits(d, id) /\ Private(d, image[p])
      BY <1>2, EndFits
    <3>4. u = Put(t, p, f, d)
      BY <2>2 DEF Put
    <3> HIDE DEF d, f, t, u, id
    <3>5. /\ TableFits(Put(t, p, f, d), running, image, id)
          /\ Put(t, p, f, d)[p][f] = d
          /\ \A q \in Procs, g \in FdIds : (q # p \/ g # f) => Put(t, p, f, d)[q][g] = t[q][g]
      BY <1>0, <1>9, <3>2, <3>3, OneFd
    <3>6. \A q \in Procs, g \in FdIds :
            u[q][g] = fdt[q][g] \/ (Kind(q, g) = "none" /\ u[q][g].kind # "socket")
      BY <1>9, <3>2, <3>3, <3>4, <3>5
    <3> QED BY <3>4, <3>5, <3>6
  <2> QED BY <2>1, <2>2
<1> HIDE DEF u, t, r, w
<1>11. FdTypeOK'
  <2>1. fdt' \in [Procs -> [FdIds -> Desc]]
    BY <1>1, <1>10 DEF TableFits
  <2>2. Len(sent') = Len(pipes') /\ Len(got') = Len(pipes')
    BY <1>5, <1>6, <1>7
  <2> QED BY <2>1, <2>2, <1>0, <1>1, <1>5, <1>6, <1>7 DEF FdTypeOK
<1>12. \A j \in 1 .. id : j \in 1 .. Len(pipes) \/ j = id
  BY <1>0
<1> HIDE DEF id
<1>13. RingsFit'
  <2>1. ASSUME NEW j \in 1 .. id PROVE pipes'[j].w = (pipes'[j].r + pipes'[j].n) % PipeCap
    <3>1. CASE j = id
      BY <3>1, <1>4, <1>5
    <3>2. CASE j \in 1 .. Len(pipes)
      BY <3>2, <1>0, <1>5 DEF RingsFit
    <3> QED BY <3>1, <3>2, <1>12
  <2> QED BY <2>1, <1>5 DEF RingsFit
<1>14. PipeIsAQueue'
  <2>1. DOMAIN pipes' = 1 .. id /\ DOMAIN pipes = 1 .. Len(pipes)
    BY <1>3, <1>5
  <2> SUFFICES ASSUME NEW j \in 1 .. id
               PROVE  got'[j] \o Oldest(pipes'[j], pipes'[j].n) = sent'[j]
    BY <2>1 DEF PipeIsAQueue, Oldest
  <2>2. CASE j = id
    <3>1. Oldest(EmptyPipe, 0) \in Seq(Nat) /\ Len(Oldest(EmptyPipe, 0)) = 0
      <4>1. 0 \in 0 .. PipeCap
        BY FdNumbers
      <4> QED BY <4>1, <1>4, OldestAre
    <3>2. Oldest(EmptyPipe, 0) = <<>>
      BY <3>1, EmptySeq
    <3>3. <<>> \o <<>> = <<>>
      OBVIOUS
    <3> QED BY <2>2, <3>2, <3>3, <1>4, <1>5, <1>6, <1>7
  <2>3. CASE j \in 1 .. Len(pipes)
    <3>1. got[j] \o Oldest(pipes[j], pipes[j].n) = sent[j]
      BY <2>1, <2>3, <1>0 DEF PipeIsAQueue
    <3> QED BY <2>3, <3>1, <1>5, <1>6, <1>7
  <2> QED BY <2>2, <2>3, <1>12
<1>15. EndsFit' /\ PrivateToItsImage'
  <2>1. (FdTypeOK => (TableFits(fdt, running, image, Len(pipes)) <=> EndsFit /\ PrivateToItsImage))'
    BY TableMeans, PTL
  <2>2. TableFits(fdt, running, image, Len(pipes))'
    <3>1. TableFits(fdt', running, image, id)
      BY <1>1, <1>10
    <3> QED BY <3>1, <1>1, <1>5 DEF TableFits
  <2> QED BY <2>1, <2>2, <1>11
<1>16. SlotsHaveOwners'
  <2>1. \A q \in running \cup running', g \in FdIds :
          /\ (q \in running' /\ Kind(q, g)' = "socket") <=> (q \in running /\ Kind(q, g) = "socket")
          /\ (q \in running /\ Kind(q, g) = "socket") => fdt'[q][g].slot = fdt[q][g].slot
    BY <1>0, <1>1, <1>10 DEF Kind
  <2>2. socks' = socks /\ shared' = shared
    BY <1>1
  <2> QED BY <2>1, <2>2, <1>0, SlotsStay
<1> QED BY <1>11, <1>13, <1>14, <1>15, <1>16 DEF FdInv

LEMMA SocketKeeps ==
    ASSUME FdInv, NEW p \in running, Socket(p)
    PROVE  FdInv'
<1> DEFINE s == Lowest(1 .. SockSlots \ socks)
           f == Lowest(FreeFrom(p, 3))
           d == [Unused EXCEPT !.kind = "socket", !.slot = s]
<1>0. /\ FdTypeOK /\ RingsFit /\ EndsFit /\ PipeIsAQueue /\ PrivateToItsImage /\ SlotsHaveOwners
      /\ TableFits(fdt, running, image, Len(pipes)) /\ p \in Procs
      /\ fdt \in [Procs -> [FdIds -> Desc]] /\ running \subseteq Procs /\ Len(pipes) \in Nat
  BY Parts
<1>1. /\ socks # 1 .. SockSlots /\ FreeFrom(p, 3) # {}
      /\ socks' = socks \cup {s}
      /\ fdt' = [fdt EXCEPT ![p][f] = d]
      /\ UNCHANGED <<running, pipes, files, image, sent, got, shared>>
  BY DEF Socket, SetFd
<1>2. s \in 1 .. SockSlots \ socks
  <2> DEFINE F == 1 .. SockSlots \ socks
  <2>0. socks \subseteq 1 .. SockSlots /\ socks # 1 .. SockSlots
    BY <1>0, <1>1 DEF FdTypeOK
  <2>1. F \in SUBSET Nat /\ F # {}
    <3>1. F \in SUBSET Nat
      BY FdNumbers
    <3>2. F # {}
      BY <2>0, Zenon
    <3> QED BY <3>1, <3>2
  <2> HIDE DEF F
  <2>2. Lowest(F) \in F
    BY <2>1, LowestIsLeast
  <2> QED BY <2>2 DEF F
<1>3. f \in FreeFrom(p, 3)
  BY <1>1, FdNumbers, LowestIsLeast DEF FreeFrom
<1>4. f \in FdIds /\ Kind(p, f) = "none"
  BY <1>3 DEF FreeFrom, Kind
<1> HIDE DEF f
<1>5. s \in Nat /\ s \notin socks /\ s \in 1 .. SockSlots
  BY <1>2, FdNumbers
<1> HIDE DEF s
<1>6. d \in Desc /\ d.kind = "socket" /\ d.slot = s /\ d.cloexec = FALSE /\ d.image = NoImage
  <2>1. d \in Desc
    BY <1>5 DEF Unused, Desc, Kinds, NoImage
  <2>2. d.kind = "socket" /\ d.slot = s
    BY DEF Unused
  <2>3. d.cloexec = FALSE /\ d.image = NoImage
    BY DEF Unused
  <2> QED BY <2>1, <2>2, <2>3
<1> HIDE DEF d
<1>7. DescFits(d, Len(pipes)) /\ Private(d, image[p])
  BY <1>6 DEF DescFits, Private
<1>8. fdt' = Put(fdt, p, f, d)
  BY <1>1 DEF Put
<1>9. /\ TableFits(fdt', running, image, Len(pipes))
      /\ fdt'[p][f] = d
      /\ \A q \in Procs, g \in FdIds : (q # p \/ g # f) => fdt'[q][g] = fdt[q][g]
  BY <1>0, <1>4, <1>6, <1>7, <1>8, OneFd
<1>10. FdTypeOK'
  <2>1. fdt' \in [Procs -> [FdIds -> Desc]]
    BY <1>9 DEF TableFits
  <2> QED BY <2>1, <1>0, <1>1, <1>5 DEF FdTypeOK
<1>11. RingsFit' /\ PipeIsAQueue'
  BY <1>0, <1>1, PipesStay
<1>12. EndsFit' /\ PrivateToItsImage'
  <2>1. (FdTypeOK => (TableFits(fdt, running, image, Len(pipes)) <=> EndsFit /\ PrivateToItsImage))'
    BY TableMeans, PTL
  <2>2. TableFits(fdt, running, image, Len(pipes))'
    BY <1>1, <1>9 DEF TableFits
  <2> QED BY <2>1, <2>2, <1>10
<1>13. SlotsHaveOwners'
  <2>0. (SlotsFit <=> SlotsHaveOwners)'
    BY SlotsAgree, PTL
  <2> SUFFICES ASSUME ~shared' PROVE SlotsFit'
    BY <2>0 DEF SlotsFit
  <2>1. /\ \A x : x \in socks <=> \E q \in running, g \in FdIds : Holds(q, g, x)
        /\ \A x : \A q, h \in running, g, e \in FdIds : Holds(q, g, x) /\ Holds(h, e, x) => q = h /\ g = e
    BY <1>0, <1>1, SlotsAgree DEF SlotsFit
  <2>2. \A q \in running, g \in FdIds : \A x :
          Holds(q, g, x)' <=> IF q = p /\ g = f THEN x = s ELSE Holds(q, g, x)
    <3> SUFFICES ASSUME NEW q \in running, NEW g \in FdIds, NEW x
                 PROVE  Holds(q, g, x)' <=> IF q = p /\ g = f THEN x = s ELSE Holds(q, g, x)
      OBVIOUS
    <3>1. CASE q = p /\ g = f
      BY <3>1, <1>6, <1>9 DEF Holds, Kind
    <3>2. CASE ~(q = p /\ g = f)
      BY <3>2, <1>0, <1>9 DEF Holds, Kind
    <3> QED BY <3>1, <3>2
  <2>3. \A x : ~Holds(p, f, x)
    BY <1>4 DEF Holds
  <2>4. running' = running /\ socks' = socks \cup {s}
    BY <1>1
  <2>5. ASSUME NEW x PROVE x \in socks' <=> \E q \in running, g \in FdIds : Holds(q, g, x)'
    <3>1. CASE x = s
      BY <3>1, <2>2, <2>4, <1>4
    <3>2. CASE x # s
      BY <3>2, <2>1, <2>2, <2>3, <2>4
    <3> QED BY <3>1, <3>2
  <2>6. \A q \in running, g \in FdIds : ~Holds(q, g, s)
    BY <2>1, <1>5
  <2>7. ASSUME NEW x, NEW q \in running, NEW h \in running, NEW g \in FdIds, NEW e \in FdIds,
               Holds(q, g, x)', Holds(h, e, x)'
        PROVE  q = h /\ g = e
    BY <2>1, <2>2, <2>6, <2>7
  <2> QED BY <2>4, <2>5, <2>7 DEF SlotsFit
<1> QED BY <1>10, <1>11, <1>12, <1>13 DEF FdInv

LEMMA CloseKeeps ==
    ASSUME FdInv, NEW p \in running, NEW f \in FdIds, Close(p, f)
    PROVE  FdInv'
<1>0. /\ FdTypeOK /\ RingsFit /\ EndsFit /\ PipeIsAQueue /\ PrivateToItsImage /\ SlotsHaveOwners
      /\ TableFits(fdt, running, image, Len(pipes)) /\ p \in Procs
      /\ fdt \in [Procs -> [FdIds -> Desc]] /\ running \subseteq Procs /\ Len(pipes) \in Nat
  BY Parts
<1>1. /\ socks' = IF Kind(p, f) = "socket" THEN socks \ {fdt[p][f].slot} ELSE socks
      /\ fdt' = [fdt EXCEPT ![p][f] = Unused]
      /\ UNCHANGED <<running, files, pipes, image, sent, got, shared>>
  BY DEF Close, SetFd
<1>2. fdt' = Put(fdt, p, f, Unused)
  BY <1>1 DEF Put
<1>3. /\ TableFits(fdt', running, image, Len(pipes))
      /\ fdt'[p][f] = Unused
      /\ \A q \in Procs, g \in FdIds : (q # p \/ g # f) => fdt'[q][g] = fdt[q][g]
  <2>1. DescFits(Unused, Len(pipes)) /\ Private(Unused, image[p])
    BY UnusedFits
  <2>2. Unused \in Desc
    BY UnusedIsDesc
  <2>3. /\ TableFits(Put(fdt, p, f, Unused), running, image, Len(pipes))
        /\ Put(fdt, p, f, Unused)[p][f] = Unused
        /\ \A q \in Procs, g \in FdIds :
             (q # p \/ g # f) => Put(fdt, p, f, Unused)[q][g] = fdt[q][g]
    BY <2>1, <2>2, <1>0, OneFd
  <2> QED BY <2>3, <1>2
<1>4. FdTypeOK'
  <2>1. fdt' \in [Procs -> [FdIds -> Desc]]
    BY <1>3 DEF TableFits
  <2> QED BY <2>1, <1>0, <1>1 DEF FdTypeOK
<1>5. RingsFit' /\ PipeIsAQueue'
  BY <1>0, <1>1, PipesStay
<1>6. EndsFit' /\ PrivateToItsImage'
  <2>1. (FdTypeOK => (TableFits(fdt, running, image, Len(pipes)) <=> EndsFit /\ PrivateToItsImage))'
    BY TableMeans, PTL
  <2>2. TableFits(fdt, running, image, Len(pipes))'
    BY <1>1, <1>3 DEF TableFits
  <2> QED BY <2>1, <2>2, <1>4
<1>7. SlotsHaveOwners'
  <2>0. (SlotsFit <=> SlotsHaveOwners)'
    BY SlotsAgree, PTL
  <2> SUFFICES ASSUME ~shared' PROVE SlotsFit'
    BY <2>0 DEF SlotsFit
  <2>1. /\ \A x : x \in socks <=> \E q \in running, g \in FdIds : Holds(q, g, x)
        /\ \A x : \A q, h \in running, g, e \in FdIds : Holds(q, g, x) /\ Holds(h, e, x) => q = h /\ g = e
    BY <1>0, <1>1, SlotsAgree DEF SlotsFit
  <2>2. \A q \in running, g \in FdIds : \A x :
          Holds(q, g, x)' <=> (q # p \/ g # f) /\ Holds(q, g, x)
    <3> SUFFICES ASSUME NEW q \in running, NEW g \in FdIds, NEW x
                 PROVE  Holds(q, g, x)' <=> (q # p \/ g # f) /\ Holds(q, g, x)
      OBVIOUS
    <3>1. CASE q = p /\ g = f
      BY <3>1, <1>3, UnusedIsDesc DEF Holds, Kind
    <3>2. CASE q # p \/ g # f
      BY <3>2, <1>0, <1>3 DEF Holds, Kind
    <3> QED BY <3>1, <3>2
  <2>3. running' = running
    BY <1>1
  <2>4. \A x : x \in socks' <=> x \in socks /\ ~Holds(p, f, x)
    BY <1>1 DEF Holds
  <2>5. ASSUME NEW x PROVE x \in socks' <=> \E q \in running, g \in FdIds : Holds(q, g, x)'
    <3>1. CASE Holds(p, f, x)
      BY <3>1, <2>1, <2>2, <2>4
    <3>2. CASE ~Holds(p, f, x)
      BY <3>2, <2>1, <2>2, <2>4
    <3> QED BY <3>1, <3>2
  <2>6. ASSUME NEW x, NEW q \in running, NEW h \in running, NEW g \in FdIds, NEW e \in FdIds,
               Holds(q, g, x)', Holds(h, e, x)'
        PROVE  q = h /\ g = e
    BY <2>1, <2>2, <2>6
  <2> QED BY <2>3, <2>5, <2>6 DEF SlotsFit
<1> QED BY <1>4, <1>5, <1>6, <1>7 DEF FdInv

LEMMA CopyFits ==
    ASSUME NEW d \in Desc, NEW f \in Nat, NEW n, NEW im, DescFits(d, n)
    PROVE  /\ CopyOf(d, f) \in Desc /\ CopyOf(d, f).kind = d.kind
           /\ DescFits(CopyOf(d, f), n) /\ Private(CopyOf(d, f), im)
<1> DEFINE e == CopyOf(d, f)
           s == IF d.kind = "socket" THEN f ELSE 0
<1>1. e = [d EXCEPT !.slot = s, !.cloexec = FALSE, !.image = NoImage] /\ s \in Nat
  BY DEF CopyOf
<1> HIDE DEF e, s
<1>2. /\ e \in Desc /\ e.kind = d.kind /\ e.obj = d.obj /\ e.cloexec = FALSE /\ e.image = NoImage
  BY <1>1 DEF Desc
<1>3. DescFits(e, n) /\ Private(e, im)
  BY <1>2 DEF DescFits, Private
<1> QED BY <1>2, <1>3 DEF e

LEMMA DupKeeps ==
    ASSUME FdInv, NEW p \in running, NEW f \in FdIds, Dup(p, f)
    PROVE  FdInv'
<1> DEFINE g == Lowest(FreeFrom(p, 0))
           d == CopyOf(fdt[p][f], g)
<1>0. /\ FdTypeOK /\ TableFits(fdt, running, image, Len(pipes)) /\ p \in Procs
      /\ fdt \in [Procs -> [FdIds -> Desc]]
  BY Parts
<1>1. /\ FreeFrom(p, 0) # {}
      /\ fdt' = [fdt EXCEPT ![p][g] = d]
      /\ shared' = (shared \/ Kind(p, f) = "socket")
      /\ UNCHANGED <<running, files, pipes, socks, image, sent, got>>
  BY DEF Dup, SetFd
<1>2. g \in FreeFrom(p, 0)
  BY <1>1, FdNumbers, LowestIsLeast DEF FreeFrom
<1>3. g \in FdIds /\ g \in Nat /\ Kind(p, g) = "none"
  BY <1>2, FdNumbers DEF FreeFrom, Kind
<1> HIDE DEF g
<1>4. fdt[p][f] \in Desc /\ DescFits(fdt[p][f], Len(pipes))
  BY <1>0 DEF TableFits
<1>5. d \in Desc /\ d.kind = fdt[p][f].kind /\ DescFits(d, Len(pipes)) /\ Private(d, image[p])
  BY <1>3, <1>4, CopyFits
<1>6. fdt' = Put(fdt, p, g, d)
  BY <1>1 DEF Put
<1> HIDE DEF d
<1>7. /\ ~shared' => ~shared /\ Kind(p, f) # "socket"
      /\ shared' \in BOOLEAN
  BY <1>0, <1>1 DEF FdTypeOK
<1>8. ~shared' => d.kind # "socket"
  BY <1>5, <1>7 DEF Kind
<1>9. DOMAIN files' \subseteq Names /\ files' \in [DOMAIN files' -> Seq(Nat)]
  BY <1>0, <1>1, FilesAre
<1>10. UNCHANGED <<running, pipes, socks, image, sent, got>>
  BY <1>1
<1> QED BY <1>3, <1>5, <1>6, <1>7, <1>8, <1>9, <1>10, OneFdKeeps

LEMMA Dup2Keeps ==
    ASSUME FdInv, NEW p \in running, NEW f \in FdIds, NEW g \in FdIds, Dup2(p, f, g)
    PROVE  FdInv'
<1> DEFINE d == CopyOf(fdt[p][f], g)
<1>0. /\ FdTypeOK /\ TableFits(fdt, running, image, Len(pipes)) /\ p \in Procs
      /\ fdt \in [Procs -> [FdIds -> Desc]]
  BY Parts
<1>1. /\ fdt' = [fdt EXCEPT ![p][g] = d]
      /\ shared' = (shared \/ Kind(p, f) = "socket" \/ Kind(p, g) = "socket")
      /\ UNCHANGED <<running, files, pipes, socks, image, sent, got>>
  BY DEF Dup2, SetFd
<1>3. g \in Nat
  BY FdNumbers
<1>4. fdt[p][f] \in Desc /\ DescFits(fdt[p][f], Len(pipes))
  BY <1>0 DEF TableFits
<1>5. d \in Desc /\ d.kind = fdt[p][f].kind /\ DescFits(d, Len(pipes)) /\ Private(d, image[p])
  BY <1>3, <1>4, CopyFits
<1>6. fdt' = Put(fdt, p, g, d)
  BY <1>1 DEF Put
<1> HIDE DEF d
<1>7. /\ ~shared' => ~shared /\ Kind(p, f) # "socket" /\ Kind(p, g) # "socket"
      /\ shared' \in BOOLEAN
  BY <1>0, <1>1 DEF FdTypeOK
<1>8. ~shared' => d.kind # "socket"
  BY <1>5, <1>7 DEF Kind
<1>9. DOMAIN files' \subseteq Names /\ files' \in [DOMAIN files' -> Seq(Nat)]
  BY <1>0, <1>1, FilesAre
<1>10. UNCHANGED <<running, pipes, socks, image, sent, got>>
  BY <1>1
<1> QED BY <1>5, <1>6, <1>7, <1>8, <1>9, <1>10, OneFdKeeps

----------------------------------------------------------------------------
(* fork, exec, exit *)

\* What a step that leaves the pipes alone needs to show.
LEMMA TableStep ==
    ASSUME FdInv, TableFits(fdt', running', image', Len(pipes)),
           running' \subseteq Procs, image' \in [Procs -> Images],
           socks' \subseteq 1 .. SockSlots, shared' \in BOOLEAN, SlotsHaveOwners',
           UNCHANGED <<files, pipes, sent, got>>
    PROVE  FdInv'
<1>0. FdTypeOK /\ RingsFit /\ PipeIsAQueue
  BY Parts
<1>1. FdTypeOK'
  <2>1. fdt' \in [Procs -> [FdIds -> Desc]]
    BY DEF TableFits
  <2> QED BY <2>1, <1>0 DEF FdTypeOK
<1>2. RingsFit' /\ PipeIsAQueue'
  BY <1>0, PipesStay
<1>3. EndsFit' /\ PrivateToItsImage'
  <2>1. (FdTypeOK => (TableFits(fdt, running, image, Len(pipes)) <=> EndsFit /\ PrivateToItsImage))'
    BY TableMeans, PTL
  <2>2. TableFits(fdt, running, image, Len(pipes))'
    BY DEF TableFits
  <2> QED BY <2>1, <2>2, <1>1
<1> QED BY <1>1, <1>2, <1>3 DEF FdInv

LEMMA ForkKeeps ==
    ASSUME FdInv, NEW p \in running, NEW q \in Procs, ForkFds(p, q)
    PROVE  FdInv'
<1>0. /\ FdTypeOK /\ SlotsHaveOwners
      /\ TableFits(fdt, running, image, Len(pipes)) /\ p \in Procs
      /\ fdt \in [Procs -> [FdIds -> Desc]] /\ running \subseteq Procs
      /\ image \in [Procs -> Images] /\ socks \subseteq 1 .. SockSlots
  BY Parts DEF FdTypeOK
<1>1. /\ q \notin running /\ running' = running \cup {q}
      /\ fdt' = [fdt EXCEPT ![q] = fdt[p]]
      /\ image' = [image EXCEPT ![q] = image[p]]
      /\ shared' = (shared \/ \E f \in FdIds : Kind(p, f) = "socket")
      /\ UNCHANGED <<files, pipes, socks, sent, got>>
  BY DEF ForkFds
<1>2. /\ fdt' \in [Procs -> [FdIds -> Desc]] /\ fdt'[q] = fdt[p]
      /\ \A h \in Procs : h # q => fdt'[h] = fdt[h]
  BY <1>0, <1>1
<1>3. /\ image' \in [Procs -> Images] /\ image'[q] = image[p]
      /\ \A h \in Procs : h # q => image'[h] = image[h]
  BY <1>0, <1>1
<1>4. TableFits(fdt', running', image', Len(pipes))
  <2>1. ASSUME NEW h \in Procs, NEW f \in FdIds PROVE DescFits(fdt'[h][f], Len(pipes))
    <3>1. CASE h = q
      BY <3>1, <1>0, <1>2 DEF TableFits
    <3>2. CASE h # q
      BY <3>2, <1>0, <1>2 DEF TableFits
    <3> QED BY <3>1, <3>2
  <2>2. ASSUME NEW h \in running', NEW f \in FdIds PROVE Private(fdt'[h][f], image'[h])
    <3>1. CASE h = q
      BY <3>1, <1>0, <1>2, <1>3 DEF TableFits
    <3>2. CASE h # q
      <4>1. h \in running /\ h \in Procs
        BY <3>2, <1>0, <1>1
      <4> QED BY <3>2, <4>1, <1>0, <1>2, <1>3 DEF TableFits
    <3> QED BY <3>1, <3>2
  <2> QED BY <2>1, <2>2, <1>2 DEF TableFits
<1>5. SlotsHaveOwners'
  <2>1. ASSUME ~shared'
        PROVE  \A h \in running \cup running', f \in FdIds :
                 /\ (h \in running' /\ Kind(h, f)' = "socket") <=> (h \in running /\ Kind(h, f) = "socket")
                 /\ (h \in running /\ Kind(h, f) = "socket") => fdt'[h][f].slot = fdt[h][f].slot
    <3>1. \A f \in FdIds : Kind(p, f) # "socket"
      BY <2>1, <1>1
    <3> SUFFICES ASSUME NEW h \in running \cup running', NEW f \in FdIds
                 PROVE  /\ (h \in running' /\ Kind(h, f)' = "socket") <=> (h \in running /\ Kind(h, f) = "socket")
                        /\ (h \in running /\ Kind(h, f) = "socket") => fdt'[h][f].slot = fdt[h][f].slot
      OBVIOUS
    <3>2. CASE h = q
      BY <3>1, <3>2, <1>1, <1>2 DEF Kind
    <3>3. CASE h # q
      BY <3>3, <1>0, <1>1, <1>2 DEF Kind
    <3> QED BY <3>2, <3>3
  <2>2. ~shared' => ~shared
    BY <1>1
  <2>3. socks' = socks
    BY <1>1
  <2> QED BY <2>1, <2>2, <2>3, <1>0, SlotsStay
<1>6. running' \subseteq Procs /\ shared' \in BOOLEAN
  BY <1>0, <1>1 DEF FdTypeOK
<1>7. socks' \subseteq 1 .. SockSlots /\ UNCHANGED <<files, pipes, sent, got>>
  BY <1>0, <1>1
<1> QED BY <1>3, <1>4, <1>5, <1>6, <1>7, TableStep

LEMMA AfterExecFits ==
    ASSUME NEW d \in Desc, NEW n, NEW im, NEW other, DescFits(d, n), Private(d, im)
    PROVE  /\ AfterExec(d) \in Desc /\ DescFits(AfterExec(d), n) /\ Private(AfterExec(d), other)
           /\ AfterExec(d).kind = "socket" <=> d.kind = "socket"
           /\ d.kind = "socket" => AfterExec(d) = d
<1>1. CASE d.cloexec
  <2>1. AfterExec(d) = Unused /\ d.kind = "file"
    BY <1>1 DEF AfterExec, DescFits
  <2>2. DescFits(Unused, n) /\ Private(Unused, other)
    BY UnusedFits
  <2> QED BY <2>1, <2>2, UnusedIsDesc
<1>2. CASE ~d.cloexec
  <2>1. AfterExec(d) = d
    BY <1>2 DEF AfterExec
  <2>2. Private(d, other)
    BY <1>2 DEF Private
  <2> QED BY <2>1, <2>2
<1> QED BY <1>1, <1>2

LEMMA ExecKeeps ==
    ASSUME FdInv, NEW p \in running, ExecFds(p)
    PROVE  FdInv'
<1>0. /\ FdTypeOK /\ SlotsHaveOwners
      /\ TableFits(fdt, running, image, Len(pipes)) /\ p \in Procs
      /\ fdt \in [Procs -> [FdIds -> Desc]] /\ running \subseteq Procs
      /\ image \in [Procs -> Images] /\ socks \subseteq 1 .. SockSlots /\ shared \in BOOLEAN
  BY Parts DEF FdTypeOK
<1>1. /\ fdt' = [fdt EXCEPT ![p] = [f \in FdIds |-> AfterExec(@[f])]]
      /\ image' = [image EXCEPT ![p] = 1 - @]
      /\ UNCHANGED <<running, files, pipes, socks, sent, got, shared>>
  BY DEF ExecFds
<1>2. ASSUME NEW f \in FdIds
      PROVE  /\ AfterExec(fdt[p][f]) \in Desc /\ DescFits(AfterExec(fdt[p][f]), Len(pipes))
             /\ \A im : Private(AfterExec(fdt[p][f]), im)
             /\ AfterExec(fdt[p][f]).kind = "socket" <=> fdt[p][f].kind = "socket"
             /\ fdt[p][f].kind = "socket" => AfterExec(fdt[p][f]) = fdt[p][f]
  <2>1. fdt[p][f] \in Desc /\ DescFits(fdt[p][f], Len(pipes)) /\ Private(fdt[p][f], image[p])
    BY <1>0 DEF TableFits
  <2> QED BY <2>1, AfterExecFits
<1>3. /\ fdt' \in [Procs -> [FdIds -> Desc]] /\ \A f \in FdIds : fdt'[p][f] = AfterExec(fdt[p][f])
      /\ \A h \in Procs : h # p => fdt'[h] = fdt[h]
  BY <1>0, <1>1, <1>2
<1>4. /\ image' \in [Procs -> Images] /\ \A h \in Procs : h # p => image'[h] = image[h]
  <2>1. image[p] \in Images /\ 1 - image[p] \in Images
    BY <1>0 DEF Images
  <2> QED BY <2>1, <1>0, <1>1
<1>5. TableFits(fdt', running', image', Len(pipes))
  <2>1. ASSUME NEW h \in Procs, NEW f \in FdIds PROVE DescFits(fdt'[h][f], Len(pipes))
    <3>1. CASE h = p
      BY <3>1, <1>2, <1>3
    <3>2. CASE h # p
      BY <3>2, <1>0, <1>3 DEF TableFits
    <3> QED BY <3>1, <3>2
  <2>2. ASSUME NEW h \in running', NEW f \in FdIds PROVE Private(fdt'[h][f], image'[h])
    <3>1. CASE h = p
      BY <3>1, <1>2, <1>3
    <3>2. CASE h # p
      <4>1. h \in running /\ h \in Procs
        BY <1>0, <1>1
      <4> QED BY <3>2, <4>1, <1>0, <1>3, <1>4 DEF TableFits
    <3> QED BY <3>1, <3>2
  <2> QED BY <2>1, <2>2, <1>3 DEF TableFits
<1>6. SlotsHaveOwners'
  <2>1. ASSUME NEW h \in running \cup running', NEW f \in FdIds
        PROVE  /\ (h \in running' /\ Kind(h, f)' = "socket") <=> (h \in running /\ Kind(h, f) = "socket")
               /\ (h \in running /\ Kind(h, f) = "socket") => fdt'[h][f].slot = fdt[h][f].slot
    <3>0. h \in Procs /\ running' = running
      BY <1>0, <1>1
    <3>1. CASE h = p
      BY <3>0, <3>1, <1>2, <1>3 DEF Kind
    <3>2. CASE h # p
      BY <3>0, <3>2, <1>3 DEF Kind
    <3> QED BY <3>1, <3>2
  <2>2. socks' = socks /\ shared' = shared
    BY <1>1
  <2> QED BY <2>1, <2>2, <1>0, SlotsStay
<1>7. running' \subseteq Procs /\ shared' \in BOOLEAN /\ socks' \subseteq 1 .. SockSlots
  BY <1>0, <1>1
<1>8. UNCHANGED <<files, pipes, sent, got>>
  BY <1>1
<1> QED BY <1>4, <1>5, <1>6, <1>7, <1>8, TableStep

LEMMA ReapKeeps ==
    ASSUME FdInv, NEW p \in running, ReapFds(p)
    PROVE  FdInv'
<1>0. /\ FdTypeOK /\ SlotsHaveOwners
      /\ TableFits(fdt, running, image, Len(pipes)) /\ p \in Procs
      /\ fdt \in [Procs -> [FdIds -> Desc]] /\ running \subseteq Procs
      /\ image \in [Procs -> Images] /\ socks \subseteq 1 .. SockSlots /\ shared \in BOOLEAN
  BY Parts DEF FdTypeOK
<1>1. /\ running' = running \ {p} /\ socks' = socks \ Released(p)
      /\ fdt' = [fdt EXCEPT ![p] = [f \in FdIds |-> Unused]]
      /\ UNCHANGED <<files, pipes, image, sent, got, shared>>
  BY DEF ReapFds
<1>2. /\ fdt' \in [Procs -> [FdIds -> Desc]] /\ \A f \in FdIds : fdt'[p][f] = Unused
      /\ \A h \in Procs : h # p => fdt'[h] = fdt[h]
  BY <1>0, <1>1, UnusedIsDesc
<1>3. TableFits(fdt', running', image', Len(pipes))
  <2>0. \A n, im : DescFits(Unused, n) /\ Private(Unused, im)
    BY UnusedFits
  <2>1. ASSUME NEW h \in Procs, NEW f \in FdIds PROVE DescFits(fdt'[h][f], Len(pipes))
    <3>1. CASE h = p
      BY <2>0, <3>1, <1>2
    <3>2. CASE h # p
      BY <3>2, <1>0, <1>2 DEF TableFits
    <3> QED BY <3>1, <3>2
  <2>2. ASSUME NEW h \in running', NEW f \in FdIds PROVE Private(fdt'[h][f], image'[h])
    <3>1. h \in running /\ h \in Procs /\ h # p
      BY <1>0, <1>1
    <3> QED BY <3>1, <1>0, <1>1, <1>2 DEF TableFits
  <2> QED BY <2>1, <2>2, <1>2 DEF TableFits
<1>4. SlotsHaveOwners'
  <2>0. (SlotsFit <=> SlotsHaveOwners)'
    BY SlotsAgree, PTL
  <2> SUFFICES ASSUME ~shared' PROVE SlotsFit'
    BY <2>0 DEF SlotsFit
  <2>1. /\ \A x : x \in socks <=> \E q \in running, g \in FdIds : Holds(q, g, x)
        /\ \A x : \A q, h \in running, g, e \in FdIds : Holds(q, g, x) /\ Holds(h, e, x) => q = h /\ g = e
    BY <1>0, <1>1, SlotsAgree DEF SlotsFit
  <2>2. \A q \in running', g \in FdIds : \A x : q \in running /\ q # p /\ (Holds(q, g, x)' <=> Holds(q, g, x))
    BY <1>0, <1>1, <1>2 DEF Holds, Kind
  <2>3. \A x : x \in Released(p) <=> \E g \in FdIds : Holds(p, g, x)
    BY DEF Released, Holds
  <2>4. \A q \in running : q # p => q \in running'
    BY <1>1
  <2>5. ASSUME NEW x PROVE x \in socks' <=> \E q \in running', g \in FdIds : Holds(q, g, x)'
    <3>1. x \in socks' <=> x \in socks /\ ~(\E g \in FdIds : Holds(p, g, x))
      BY <2>3, <1>1
    <3>2. ASSUME x \in socks' PROVE \E q \in running', g \in FdIds : Holds(q, g, x)'
      <4>1. PICK q \in running, g \in FdIds : Holds(q, g, x)
        BY <2>1, <3>1, <3>2
      <4>2. q # p
        BY <3>1, <3>2, <4>1
      <4>3. q \in running'
        BY <2>4, <4>2
      <4>4. Holds(q, g, x)'
        BY <2>2, <4>1, <4>3
      <4> QED BY <4>3, <4>4
    <3>3. ASSUME NEW q \in running', NEW g \in FdIds, Holds(q, g, x)' PROVE x \in socks'
      <4>1. q \in running /\ q # p /\ Holds(q, g, x)
        BY <2>2, <3>3
      <4>2. ~(\E e \in FdIds : Holds(p, e, x))
        BY <2>1, <4>1
      <4> QED BY <2>1, <3>1, <4>1, <4>2
    <3> QED BY <3>2, <3>3
  <2>6. ASSUME NEW x, NEW q \in running', NEW h \in running', NEW g \in FdIds, NEW e \in FdIds,
               Holds(q, g, x)', Holds(h, e, x)'
        PROVE  q = h /\ g = e
    <3>1. q \in running /\ h \in running /\ Holds(q, g, x) /\ Holds(h, e, x)
      BY <2>2, <2>6
    <3> QED BY <2>1, <3>1
  <2> QED BY <2>5, <2>6 DEF SlotsFit
<1>5. running' \subseteq Procs /\ shared' \in BOOLEAN /\ socks' \subseteq 1 .. SockSlots
  BY <1>0, <1>1
<1>6. image' \in [Procs -> Images] /\ UNCHANGED <<files, pipes, sent, got>>
  BY <1>0, <1>1
<1> QED BY <1>3, <1>4, <1>5, <1>6, TableStep

LEMMA FdStepKeeps == FdInv /\ [FdNext]_fdVars => FdInv'
<1> SUFFICES ASSUME FdInv, [FdNext]_fdVars PROVE FdInv'
  OBVIOUS
<1> DEFINE Flags == {{}, {"create"}, {"create", "trunc"}, {"append"}, {"create", "cloexec"}}
<1>1. ASSUME NEW p \in running, NEW x \in Names, NEW flags \in Flags, OpenFile(p, x, flags)
      PROVE  FdInv'
  BY <1>1, OpenKeeps
<1>2. ASSUME NEW p \in running, MakePipe(p) \/ Socket(p) \/ ExecFds(p) \/ ReapFds(p)
      PROVE  FdInv'
  BY <1>2, MakePipeKeeps, SocketKeeps, ExecKeeps, ReapKeeps
<1>3. ASSUME NEW p \in running, NEW q \in Procs, ForkFds(p, q) PROVE FdInv'
  BY <1>3, ForkKeeps
<1>4. ASSUME NEW p \in running, NEW f \in FdIds, NEW b \in Chunks, WriteFile(p, f, b) \/ PipeWrite(p, f, b)
      PROVE  FdInv'
  BY <1>4, WriteKeeps, PipeWriteKeeps
<1>5. ASSUME NEW p \in running, NEW f \in FdIds, NEW n \in 1 .. 2, ReadFile(p, f, n) \/ PipeRead(p, f, n)
      PROVE  FdInv'
  BY <1>5, ReadKeeps, PipeReadKeeps
<1>6. ASSUME NEW p \in running, NEW f \in FdIds, NEW to \in 0 .. MaxLen, Seek(p, f, to) PROVE FdInv'
  BY <1>6, SeekKeeps
<1>7. ASSUME NEW p \in running, NEW f \in FdIds, Close(p, f) \/ Dup(p, f) PROVE FdInv'
  BY <1>7, CloseKeeps, DupKeeps
<1>8. ASSUME NEW p \in running, NEW f \in FdIds, NEW g \in FdIds, Dup2(p, f, g) PROVE FdInv'
  BY <1>8, Dup2Keeps
<1>9. ASSUME NEW x \in Names, NEW y \in Names, Unlink(x) \/ LinkFile(x, y) PROVE FdInv'
  BY <1>9, UnlinkKeeps, LinkKeeps
<1>10. CASE UNCHANGED fdVars
  <2>1. UNCHANGED <<fdt, running, pipes, socks, image, sent, got, shared>> /\ files' = files
    BY <1>10 DEF fdVars
  <2>2. DOMAIN files' \subseteq Names /\ files' \in [DOMAIN files' -> Seq(Nat)]
    BY <2>1, FilesAre DEF FdInv
  <2> QED BY <2>1, <2>2, FilesOnly
<1>11. CASE FdNext
  BY <1>11, <1>1, <1>2, <1>3, <1>4, <1>5, <1>6, <1>7, <1>8, <1>9 DEF FdNext
<1> QED BY <1>10, <1>11

\* A pipe gives what was put into it, once and in order; what exec must close is open in no
\* other image; a socket slot has the one descriptor that frees it, until one is duplicated.
THEOREM DescriptorsHold == FdSpec => [](PipeIsAQueue /\ PrivateToItsImage /\ SlotsHaveOwners)
<1>1. FdInit => FdInv
  BY FdStarts
<1>2. FdInv /\ [FdNext]_fdVars => FdInv'
  BY FdStepKeeps
<1>3. FdInv => PipeIsAQueue /\ PrivateToItsImage /\ SlotsHaveOwners
  BY DEF FdInv
<1> QED BY <1>1, <1>2, <1>3, PTL DEF FdSpec

----------------------------------------------------------------------------
(* The three in one behaviour *)

MemInv == IInv /\ HeapInv /\ FdInv

LEMMA MemStarts == MemInit => MemInv
BY InitFits, HeapStarts, FdStarts DEF MemInit, MemInv

\* A step of one part leaves the variables of the others alone.
LEMMA MemStepMeans ==
    ASSUME [MemNext]_memVars
    PROVE  [AsNext]_asVars /\ [HeapNext]_heapVars /\ [FdNext]_fdVars
<1>1. CASE Spaces
  BY <1>1 DEF Spaces
<1>2. CASE Heap
  BY <1>2 DEF Heap
<1>3. CASE Files
  BY <1>3 DEF Files
<1>4. CASE UNCHANGED memVars
  BY <1>4 DEF memVars
<1> QED BY <1>1, <1>2, <1>3, <1>4 DEF MemNext

LEMMA MemStepKeeps == MemInv /\ [MemNext]_memVars => MemInv'
BY MemStepMeans, StepKeeps, HeapStepKeeps, FdStepKeeps DEF MemInv

\* Heap, descriptors, pipes and sockets (mem/heap.rs, fs/pipe.rs, syscall.rs): for any size of
\* the heap, any requests, any processes, descriptors, pipes and socket slots, the heap is
\* tiled by its blocks and its free nodes, no two of which touch; a pipe gives what was put
\* into it, once and in order; what exec closes is in no other image; and as long as no
\* socket is duplicated every slot in use has the one descriptor that frees it.
THEOREM HeapAndDescriptorsAreSound == MemSpec => []CellsAndDescriptorsHold
<1>1. MemSpec => []MemInv
  BY MemStarts, MemStepKeeps, PTL DEF MemSpec
<1>2. MemInv => CellsAndDescriptorsHold
  BY HeapInvTiles DEF MemInv, FdInv, CellsAndDescriptorsHold
<1> QED BY <1>1, <1>2, PTL

\* mem/heap.rs implements an allocator: what it hands out is in the heap, as large as was
\* asked for and disjoint from all that is handed out, and only that is taken back.
THEOREM HeapIsAnArena == MemSpec => LendsCells
<1>1. MemSpec => []MemInv
  BY MemStarts, MemStepKeeps, PTL DEF MemSpec
<1>2. MemInit => Lender!Init
  BY ArenaStarts DEF MemInit
<1>3. MemInv /\ [MemNext]_memVars => [Lender!Next]_{Payload(b) : b \in blocks}
  BY MemStepMeans, HeapLends DEF MemInv
<1> QED BY <1>1, <1>2, <1>3, PTL DEF MemSpec, LendsCells, Lender!Spec

----------------------------------------------------------------------------
(* The block cache and its driver *)

\* Min of the community modules is a member that no other is below.
LEMMA MinIsLeast ==
    ASSUME NEW S \in SUBSET Nat, S # {}
    PROVE  Min(S) \in S /\ \A y \in S : Min(S) <= y
<1>1. PICK x \in S : \A y \in S : <<y, x>> \notin NatOrder
  BY NatOrderWellFounded, WFMin
<1>2. ASSUME NEW y \in S, y < x
      PROVE  FALSE
  <2>1. <<y, x>> \in Nat \X Nat /\ <<y, x>>[1] < <<y, x>>[2]
    BY <1>2
  <2>2. QED
    BY <2>1, <1>1 DEF NatOrder
<1>3. \A y \in S : x <= y
  BY <1>2
<1>4. QED
  BY <1>3 DEF Min

----------------------------------------------------------------------------
(* What an operation does to the cache *)

Slots == 0 .. NSlot - 1

LEMMA SlotOfHand ==
    ASSUME BlkTypeOK, NEW k \in Nat
    PROVE  (hand + k) % NSlot \in Slots
BY BlkDevAssumption DEF BlkTypeOK, Slots

\* The hand stops at a slot, after one lap at most.
LEMMA VictimIsSlot ==
    ASSUME BlkTypeOK
    PROVE  Laps \in Nat /\ Victim \in Slots
<1> DEFINE K == {k \in 0 .. NSlot : k = NSlot \/ ~cache[Passed(k)].valid
                                               \/ ~cache[Passed(k)].referenced}
<1>1. K \in SUBSET Nat /\ NSlot \in K
  BY BlkDevAssumption
<1>2. Laps \in K
  BY <1>1, MinIsLeast DEF Laps
<1>3. Laps \in Nat
  BY <1>1, <1>2
<1>4. QED
  BY <1>3, SlotOfHand DEF Victim, Passed

SlotType == [lba : Sectors, valid : BOOLEAN, referenced : BOOLEAN, data : Versions]

\* One slot is the block's, and the others keep what they hold.
LEMMA InstallEffect ==
    ASSUME BlkTypeOK, NEW b \in Sectors, NEW v \in Versions, NEW flag \in BOOLEAN,
           Install(b, v, flag)
    PROVE  \E s \in Slots :
             /\ cache' \in [Slots -> SlotType] /\ hand' \in Slots
             /\ cache'[s].lba = b /\ cache'[s].valid /\ cache'[s].data = v
             /\ \A i \in Slots \ {s} : /\ cache'[i].lba = cache[i].lba
                                       /\ cache'[i].valid = cache[i].valid
                                       /\ cache'[i].data = cache[i].data
             /\ raced' = IF cache[s].valid /\ Fetching(cache[s].lba)
                         THEN raced \cup {cache[s].lba} ELSE raced
<1>1. Laps \in Nat /\ Victim \in Slots
  BY VictimIsSlot
<1>2. cache \in [Slots -> SlotType]
  BY DEF BlkTypeOK, Slots, SlotType
<1> DEFINE new == [lba |-> b, valid |-> TRUE, referenced |-> flag, data |-> v]
<1>3. new \in SlotType
  BY DEF SlotType
<1>4. /\ SweptCache \in [Slots -> SlotType]
      /\ \A i \in Slots : /\ SweptCache[i].lba = cache[i].lba
                          /\ SweptCache[i].valid = cache[i].valid
                          /\ SweptCache[i].data = cache[i].data
  BY <1>2 DEF SweptCache, SlotType
<1>5. cache' = [SweptCache EXCEPT ![Victim] = new]
  BY DEF Install
<1>6. /\ cache' \in [Slots -> SlotType] /\ cache'[Victim] = new
      /\ \A i \in Slots \ {Victim} : cache'[i] = SweptCache[i]
  BY <1>1, <1>3, <1>4, <1>5
<1>7. hand' \in Slots
  <2>1. hand' = (hand + (Laps + 1)) % NSlot
    BY <1>1 DEF Install, BlkTypeOK
  <2>2. QED
    BY <1>1, <2>1, SlotOfHand
<1>8. raced' = IF cache[Victim].valid /\ Fetching(cache[Victim].lba)
               THEN raced \cup {cache[Victim].lba} ELSE raced
  BY DEF Install
<1>9. \A i \in Slots \ {Victim} : /\ cache'[i].lba = cache[i].lba
                                  /\ cache'[i].valid = cache[i].valid
                                  /\ cache'[i].data = cache[i].data
  BY <1>4, <1>6
<1>10. cache'[Victim].lba = b /\ cache'[Victim].valid /\ cache'[Victim].data = v
  BY <1>6
<1>11. QED
  BY <1>1, <1>6, <1>7, <1>8, <1>9, <1>10

\* The slots that hold the block get the contents, and no slot changes its block.
LEMMA ReferEffect ==
    ASSUME BlkTypeOK, NEW b \in Sectors, NEW v \in Versions, Refer(b, v)
    PROVE  /\ cache' \in [Slots -> SlotType]
           /\ \A i \in Slots :
                /\ cache'[i].lba = cache[i].lba /\ cache'[i].valid = cache[i].valid
                /\ cache'[i].data = IF cache[i].valid /\ cache[i].lba = b THEN v ELSE cache[i].data
           /\ hand' = hand /\ raced' = raced
<1>1. cache \in [Slots -> SlotType]
  BY DEF BlkTypeOK, Slots, SlotType
<1>2. \A i \in Slots : i \in Holding(b) <=> cache[i].valid /\ cache[i].lba = b
  BY <1>1 DEF Holding
<1>3. cache' = [i \in Slots |-> IF i \in Holding(b)
                                THEN [cache[i] EXCEPT !.referenced = TRUE, !.data = v]
                                ELSE cache[i]]
  BY <1>1 DEF Refer
<1>4. ASSUME NEW i \in Slots
      PROVE  /\ cache'[i] \in SlotType
             /\ cache'[i].lba = cache[i].lba /\ cache'[i].valid = cache[i].valid
             /\ cache'[i].data = IF cache[i].valid /\ cache[i].lba = b THEN v ELSE cache[i].data
  <2>1. cache[i] \in SlotType
    BY <1>1
  <2>2. cache'[i] = IF cache[i].valid /\ cache[i].lba = b
                    THEN [cache[i] EXCEPT !.referenced = TRUE, !.data = v] ELSE cache[i]
    BY <1>2, <1>3
  <2>3. QED
    BY <2>1, <2>2 DEF SlotType
<1>5. cache' \in [Slots -> SlotType]
  BY <1>3, <1>4
<1>6. QED
  BY <1>4, <1>5 DEF Refer

\* What is read from the cache is in a slot that holds the block.
LEMMA DataIsHeld ==
    ASSUME BlkTypeOK, NEW b \in Sectors, Cached(b)
    PROVE  \E i \in Slots : /\ cache[i].valid /\ cache[i].lba = b
                            /\ Data(b) = cache[i].data /\ Data(b) \in Versions
<1>1. cache \in [Slots -> SlotType]
  BY DEF BlkTypeOK, Slots, SlotType
<1>2. Holding(b) \in SUBSET Slots /\ Holding(b) # {}
  BY <1>1 DEF Holding, Cached
<1>3. Holding(b) \in SUBSET Nat
  BY <1>2 DEF Slots
<1>4. Min(Holding(b)) \in Holding(b)
  BY <1>2, <1>3, MinIsLeast
<1>5. QED
  BY <1>1, <1>2, <1>4 DEF Holding, Data, SlotType

----------------------------------------------------------------------------
(* Types *)

LEMMA BlkTypeInit == BlkInit => BlkTypeOK
<1> SUFFICES ASSUME BlkInit PROVE BlkTypeOK
  OBVIOUS
<1>1. EmptySlot \in SlotType
  BY BlkDevAssumption DEF EmptySlot, SlotType, Sectors, Zeros, Versions
<1>2. 0 \in Versions /\ 0 \in Sectors /\ IsFiniteSet({})
  BY BlkDevAssumption, FS_EmptySet DEF Versions, Sectors
<1>3. cache \in [0 .. NSlot - 1 -> SlotType] /\ hand \in 0 .. NSlot - 1
  BY <1>1, BlkDevAssumption DEF BlkInit
<1>4. /\ drv \in BlkHarts \cup {NoHart} /\ dev \in [Sectors -> Versions]
      /\ buf \in Versions /\ stb \in {0, 255} /\ used \in Nat /\ last_used \in 0 .. used
      /\ pending \subseteq Requests /\ IsFiniteSet(pending) /\ irq \in BOOLEAN
  <2>1. drv \in BlkHarts \cup {NoHart} /\ dev \in [Sectors -> Versions] /\ buf \in Versions
    BY <1>2 DEF BlkInit, Zeros
  <2>2. stb \in {0, 255} /\ used \in Nat /\ last_used \in 0 .. used
    BY DEF BlkInit
  <2>5. irq \in BOOLEAN
    BY DEF BlkInit
  <2>3. pending \subseteq Requests /\ IsFiniteSet(pending)
    BY <1>2 DEF BlkInit
  <2>4. QED
    BY <2>1, <2>2, <2>3, <2>5
<1>5. /\ pc \in [BlkHarts -> Places] /\ op \in [BlkHarts -> {"read", "ahead", "write"}]
      /\ lba \in [BlkHarts -> Sectors] /\ val \in [BlkHarts -> Versions]
      /\ ok \in [BlkHarts -> BOOLEAN]
  BY <1>2 DEF BlkInit, Zeros, Places
<1>6. /\ timeouts \in 0 .. MaxTimeouts /\ blkCalls \in Versions
      /\ latest \in [Sectors -> Versions] /\ seen \in [BlkHarts -> SUBSET Versions]
      /\ raced \subseteq Sectors
  BY <1>2, BlkDevAssumption DEF BlkInit, Zeros
<1>7. QED
  BY <1>3, <1>4, <1>5, <1>6 DEF BlkTypeOK, SlotType

\* The cache of a state, typed as the lemmas on its operations say.
LEMMA CacheTyped ==
    ASSUME BlkTypeOK
    PROVE  cache \in [Slots -> SlotType]
BY DEF BlkTypeOK, Slots, SlotType

\* What an installation or a reference leaves of the types.
CacheTypeOK ==
    cache \in [Slots -> SlotType] /\ hand \in Slots /\ raced \subseteq Sectors

LEMMA InstallTypes ==
    ASSUME BlkTypeOK, NEW b \in Sectors, NEW v \in Versions, NEW flag \in BOOLEAN,
           Install(b, v, flag)
    PROVE  CacheTypeOK'
<1>1. PICK s \in Slots :
         /\ cache' \in [Slots -> SlotType] /\ hand' \in Slots
         /\ raced' = IF cache[s].valid /\ Fetching(cache[s].lba)
                     THEN raced \cup {cache[s].lba} ELSE raced
  BY InstallEffect
<1>2. cache[s] \in SlotType
  BY CacheTyped
<1>3. cache[s].lba \in Sectors
  BY <1>2 DEF SlotType
<1>4. QED
  BY <1>1, <1>3 DEF CacheTypeOK, BlkTypeOK

LEMMA ReferTypes ==
    ASSUME BlkTypeOK, NEW b \in Sectors, NEW v \in Versions, Refer(b, v)
    PROVE  CacheTypeOK'
BY ReferEffect DEF CacheTypeOK, BlkTypeOK, Slots

LEMMA KeptTypes ==
    ASSUME BlkTypeOK, UNCHANGED <<cacheVars, raced>>
    PROVE  CacheTypeOK'
BY CacheTyped DEF CacheTypeOK, BlkTypeOK, Slots, cacheVars

\* The rest of the types.
OtherTypeOK ==
    /\ drv \in BlkHarts \cup {NoHart}
    /\ dev \in [Sectors -> Versions]
    /\ buf \in Versions /\ stb \in {0, 255}
    /\ used \in Nat /\ last_used \in 0 .. used
    /\ pending \subseteq Requests /\ IsFiniteSet(pending)
    /\ irq \in BOOLEAN
    /\ pc \in [BlkHarts -> Places]
    /\ op \in [BlkHarts -> {"read", "ahead", "write"}]
    /\ lba \in [BlkHarts -> Sectors]
    /\ val \in [BlkHarts -> Versions]
    /\ ok \in [BlkHarts -> BOOLEAN]
    /\ timeouts \in 0 .. MaxTimeouts /\ blkCalls \in Versions
    /\ latest \in [Sectors -> Versions]
    /\ seen \in [BlkHarts -> SUBSET Versions]

LEMMA TypeParts == BlkTypeOK <=> CacheTypeOK /\ OtherTypeOK
BY DEF BlkTypeOK, CacheTypeOK, OtherTypeOK, Slots, SlotType

LEMMA CurrentTyped ==
    ASSUME BlkTypeOK, NEW b \in Sectors
    PROVE  Current(b) \subseteq Versions
BY DEF Current, Writing, BlkTypeOK

LEMMA BlkTypeStep == BlkTypeOK /\ [BlkNext]_blkVars => BlkTypeOK'
<1> SUFFICES ASSUME BlkTypeOK, [BlkNext]_blkVars PROVE CacheTypeOK' /\ OtherTypeOK'
  BY DEF BlkTypeOK, CacheTypeOK, OtherTypeOK, Slots, SlotType
<1> USE BlkDevAssumption
<1>0. OtherTypeOK
  BY TypeParts
<1>1. CASE UNCHANGED blkVars
  BY <1>0, <1>1, KeptTypes DEF OtherTypeOK, blkVars, cacheVars, driverVars, hartVars, history
<1>2. ASSUME NEW h \in BlkHarts, NEW b \in Sectors, BlkRead(h, b)
      PROVE  CacheTypeOK' /\ OtherTypeOK'
  <2>1. Cached(b) => Data(b) \in Versions
    BY DataIsHeld
  <2>2. CacheTypeOK'
    BY <1>2, <2>1, ReferTypes, KeptTypes DEF BlkRead
  <2>3. Current(b) \subseteq Versions
    BY CurrentTyped
  <2>4. (IF Cached(b) THEN Data(b) ELSE Zeros) \in Versions
    BY <2>1 DEF Zeros, Versions
  <2>5. /\ op' \in [BlkHarts -> {"read", "ahead", "write"}] /\ lba' \in [BlkHarts -> Sectors]
        /\ val' \in [BlkHarts -> Versions] /\ ok' \in [BlkHarts -> BOOLEAN]
        /\ blkCalls' \in Versions
    BY <1>0, <1>2, <2>4 DEF BlkRead, Begin, OtherTypeOK, Versions
  <2>6. pc' \in [BlkHarts -> Places] /\ seen' \in [BlkHarts -> SUBSET Versions]
    BY <1>0, <1>2, <2>3 DEF BlkRead, Goto, OtherTypeOK, Places
  <2>7. QED
    BY <1>0, <1>2, <2>2, <2>5, <2>6 DEF BlkRead, OtherTypeOK, driverVars
<1>3. ASSUME NEW h \in BlkHarts, NEW b \in Sectors, BlkWrite(h, b)
      PROVE  CacheTypeOK' /\ OtherTypeOK'
  <2>1. blkCalls + 1 \in Versions
    BY <1>0, <1>3 DEF BlkWrite, Begin, OtherTypeOK, Versions
  <2>2. CacheTypeOK'
    BY <1>3, CacheTyped DEF BlkWrite, CacheTypeOK, cacheVars, BlkTypeOK, Slots
  <2>3. /\ op' \in [BlkHarts -> {"read", "ahead", "write"}] /\ lba' \in [BlkHarts -> Sectors]
        /\ val' \in [BlkHarts -> Versions] /\ ok' \in [BlkHarts -> BOOLEAN]
        /\ blkCalls' \in Versions
    BY <1>0, <1>3, <2>1 DEF BlkWrite, Begin, OtherTypeOK
  <2>4. pc' \in [BlkHarts -> Places] /\ seen' \in [BlkHarts -> SUBSET Versions]
    BY <1>0, <1>3, <2>1 DEF BlkWrite, Goto, OtherTypeOK, Places
  <2>5. QED
    BY <1>0, <1>3, <2>2, <2>3, <2>4 DEF BlkWrite, OtherTypeOK, driverVars
<1>4. ASSUME NEW r \in pending, Answer(r)
      PROVE  CacheTypeOK' /\ OtherTypeOK'
  <2>1. r \in Requests /\ IsFiniteSet(pending \ {r})
    BY <1>0, FS_RemoveElement DEF OtherTypeOK
  <2>2. dev' \in [Sectors -> Versions] /\ buf' \in Versions
    BY <1>0, <1>4, <2>1 DEF Answer, OtherTypeOK, Requests
  <2>3. QED
    BY <1>0, <1>4, <2>1, <2>2, KeptTypes DEF Answer, OtherTypeOK, hartVars, history
<1>5. CASE OnIrq
  BY <1>0, <1>5, KeptTypes DEF OnIrq, OtherTypeOK, hartVars, history
<1>6. ASSUME NEW h \in BlkHarts, BlkStep(h)
      PROVE  CacheTypeOK' /\ OtherTypeOK'
  <2>0. lba[h] \in Sectors /\ val[h] \in Versions
    BY <1>0 DEF OtherTypeOK
  <2>1. CASE InstallRead(h)
    <3>1. Present(lba[h]) => Data(lba[h]) \in Versions
      BY <2>0, DataIsHeld DEF Present
    <3>2. CacheTypeOK'
      BY <2>0, <2>1, <3>1, ReferTypes, InstallTypes, KeptTypes DEF InstallRead
    <3>3. val' = val \/ (Present(lba[h]) /\ val' = [val EXCEPT ![h] = Data(lba[h])])
      BY <2>1 DEF InstallRead
    <3>4. val' \in [BlkHarts -> Versions]
      BY <1>0, <3>1, <3>3 DEF OtherTypeOK
    <3>7. Goto(h, "fetched", "return") \/ Goto(h, "fetched", "ahead")
      BY <2>1 DEF InstallRead
    <3>5. pc' \in [BlkHarts -> Places]
      BY <1>0, <3>7 DEF Goto, OtherTypeOK, Places
    <3>6. QED
      BY <1>0, <2>1, <3>2, <3>4, <3>5 DEF InstallRead, OtherTypeOK, driverVars
  <2>2. CASE Ahead(h)
    <3>1. ~PastEnd(lba[h] + 1) => lba[h] + 1 \in Sectors
      BY <2>0 DEF PastEnd, Sectors
    <3>2. pc' \in [BlkHarts -> Places]
      BY <1>0, <2>2 DEF Ahead, Goto, OtherTypeOK, Places
    <3>3. /\ op' \in [BlkHarts -> {"read", "ahead", "write"}]
          /\ lba' \in [BlkHarts -> Sectors] /\ val' \in [BlkHarts -> Versions]
          /\ ok' \in [BlkHarts -> BOOLEAN]
      <4>1. CASE PastEnd(lba[h] + 1) \/ Cached(lba[h] + 1)
        BY <1>0, <2>2, <4>1 DEF Ahead, OtherTypeOK
      <4>2. CASE ~(PastEnd(lba[h] + 1) \/ Cached(lba[h] + 1))
        <5>1. /\ op' = [op EXCEPT ![h] = "ahead"] /\ lba' = [lba EXCEPT ![h] = lba[h] + 1]
              /\ val' = [val EXCEPT ![h] = Zeros] /\ ok' = [ok EXCEPT ![h] = FALSE]
          BY <2>2, <4>2 DEF Ahead
        <5>2. QED
          BY <1>0, <3>1, <4>2, <5>1 DEF OtherTypeOK, Zeros, Versions
      <4>3. QED
        BY <4>1, <4>2
    <3>4. QED
      BY <1>0, <2>2, <3>2, <3>3, KeptTypes DEF Ahead, OtherTypeOK, driverVars, history
  <2>3. CASE InstallAhead(h)
    <3>1. CacheTypeOK'
      BY <2>0, <2>3, InstallTypes, KeptTypes DEF InstallAhead
    <3>2. QED
      BY <1>0, <2>3, <3>1 DEF InstallAhead, Goto, OtherTypeOK, driverVars, Places
  <2>4. CASE UpdateCache(h)
    <3>1. CacheTypeOK'
      BY <2>0, <2>4, ReferTypes, InstallTypes DEF UpdateCache
    <3>2. QED
      BY <1>0, <2>0, <2>4, <3>1 DEF UpdateCache, Goto, OtherTypeOK, driverVars, Places
  <2>5. CASE BlkReturn(h)
    BY <1>0, <2>5, KeptTypes DEF BlkReturn, Goto, OtherTypeOK, driverVars, history, Places
  <2>6. CASE Lock(h)
    BY <1>0, <2>6, KeptTypes DEF Lock, Goto, OtherTypeOK, history, Places
  <2>7. CASE Submit(h)
    <3> DEFINE r == [hart |-> h, call |-> blkCalls, write |-> op[h] = "write", lba |-> lba[h]]
    <3>1. r \in Requests
      BY <1>0, <2>0 DEF OtherTypeOK, Requests
    <3>2. pending' = pending \cup {r}
      BY <2>7 DEF Submit
    <3>3. pending' \subseteq Requests /\ IsFiniteSet(pending')
      <4>1. IsFiniteSet(pending) /\ pending \subseteq Requests
        BY <1>0 DEF OtherTypeOK
      <4>2. IsFiniteSet(pending \cup {r})
        BY <4>1, FS_AddElement
      <4>3. QED
        BY <3>1, <3>2, <4>1, <4>2
    <3>4. buf' \in Versions /\ pc' \in [BlkHarts -> Places]
      BY <1>0, <2>0, <2>7 DEF Submit, Goto, OtherTypeOK, Places
    <3>5. QED
      BY <1>0, <2>7, <3>3, <3>4, KeptTypes DEF Submit, OtherTypeOK, history
  <2>8. CASE Complete(h)
    <3>1. last_used' \in 0 .. used
      BY <1>0, <2>8 DEF Complete, OtherTypeOK
    <3>2. pc' \in [BlkHarts -> Places] /\ ok' \in [BlkHarts -> BOOLEAN]
      BY <1>0, <2>8 DEF Complete, Goto, OtherTypeOK, Places
    <3>3. QED
      BY <1>0, <2>8, <3>1, <3>2, KeptTypes DEF Complete, OtherTypeOK, history
  <2>9. CASE Timeout(h)
    BY <1>0, <2>9, KeptTypes DEF Timeout, GivesUp, Goto, OtherTypeOK, driverVars, Places
  <2>10. CASE Unlock(h)
    BY <1>0, <2>10, KeptTypes DEF Unlock, Goto, OtherTypeOK, history, Places
  <2>11. QED
    BY <1>6, <2>1, <2>2, <2>3, <2>4, <2>5, <2>6, <2>7, <2>8, <2>9, <2>10 DEF BlkStep
<1>7. QED
  BY <1>1, <1>2, <1>3, <1>4, <1>5, <1>6 DEF BlkNext

----------------------------------------------------------------------------
(* The inductive invariant *)

InDriver == {"submit", "poll", "copy"}

\* The driver's lock is held by the hart that is in the driver; only a read
\* returns what it fetched.
LockInv ==
    \A h \in BlkHarts : /\ drv = h <=> pc[h] \in InDriver
                        /\ pc[h] \in {"return", "ahead"} => op[h] = "read"

\* A request the device still has was made before the one that comes next: by
\* an earlier call, or for the sector before the one that is read ahead.
FreshRequests ==
    \A r \in pending :
      LET h == r.hart IN
      /\ r.call <= blkCalls
      /\ pc[h] \in {"lock", "submit"} /\ r.call = blkCalls => op[h] = "ahead" /\ r.lba # lba[h]
      /\ pc[h] \notin {"idle", "lock", "submit"} /\ op[h] = "read" /\ r.call = blkCalls
           => r.lba = lba[h]

\* OneFlight, with the number of pollers spelled out.
InFlight ==
    used + Cardinality(pending)
      = last_used + (IF \E h \in BlkHarts : pc[h] = "poll" THEN 1 ELSE 0) + timeouts

\* What the device has of the hart in the driver, and what that hart finds when
\* it was answered: the device, and DATA, hold its sector.
Answered(h) == pc[h] = "copy" \/ (pc[h] = "poll" /\ used # last_used)
DeviceInv ==
    timeouts = 0 =>
      \A h \in BlkHarts :
        /\ pc[h] = "poll" =>
             \A r \in pending : /\ r.write <=> op[h] = "write"
                                /\ r.lba = lba[h]
                                /\ r.write => buf = val[h]
        /\ pc[h] = "poll" /\ used # last_used => stb = 0
        /\ pc[h] \in {"copy", "fetched"} => ok[h]
        /\ Answered(h) => dev[lba[h]] = IF op[h] = "write" THEN val[h] ELSE buf

\* Two writes of a block at a time are a race.
RacesSeen ==
    \A b \in Sectors \ raced : \A g, h \in Writing(b) : g = h

\* A read's answer may be whatever its block has held since the call began.
SeenInv ==
    \A h \in BlkHarts : pc[h] # "idle" /\ op[h] = "read" => Current(lba[h]) \subseteq seen[h]

\* Of a block without a race, every copy is current: the device's, the cache's,
\* and the one a hart took from the device and has not yet installed - unless
\* the cache has one meanwhile.
DeviceCurrent ==
    timeouts = 0 => \A b \in Sectors \ raced : dev[b] \in Current(b)

CacheCurrent ==
    timeouts = 0 =>
      \A b \in Sectors \ raced : \A i \in Slots :
        cache[i].valid /\ cache[i].lba = b => cache[i].data \in Current(b)

FetchedCurrent ==
    timeouts = 0 =>
      \A h \in BlkHarts : lba[h] \notin raced =>
        /\ pc[h] = "fetched" /\ op[h] = "write" => dev[lba[h]] = val[h]
        /\ pc[h] = "fetched" /\ op[h] # "write"
             => val[h] \in Current(lba[h]) \/ Cached(lba[h])
        /\ pc[h] \in {"fetched", "return", "ahead"} /\ op[h] = "read" => val[h] \in seen[h]

\* A block is in one slot.
OneSlot ==
    \A i, j \in Slots :
      cache[i].valid /\ cache[j].valid /\ cache[i].lba = cache[j].lba => i = j

LEMMA LockInit == BlkInit => LockInv
BY NoHartAssumption DEF BlkInit, LockInv, InDriver

\* Nobody else is in the driver when the lock is taken, and who is in it has it.
LEMMA LockStep == BlkTypeOK /\ LockInv /\ [BlkNext]_blkVars => LockInv'
<1> SUFFICES ASSUME BlkTypeOK, LockInv, [BlkNext]_blkVars PROVE LockInv'
  OBVIOUS
<1>0. /\ pc \in [BlkHarts -> Places] /\ op \in [BlkHarts -> {"read", "ahead", "write"}]
      /\ drv \in BlkHarts \cup {NoHart}
  BY DEF BlkTypeOK
<1> USE NoHartAssumption DEF LockInv, InDriver
<1>1. CASE UNCHANGED <<drv, pc, op>>
  BY <1>1
<1>2. ASSUME NEW h \in BlkHarts, NEW b \in Sectors, BlkRead(h, b) \/ BlkWrite(h, b)
      PROVE  LockInv'
  <2>1. drv' = drv /\ pc[h] = "idle" /\ op' = [op EXCEPT ![h] = IF BlkRead(h, b) THEN "read" ELSE "write"]
    BY <1>2 DEF BlkRead, BlkWrite, Begin, Goto, driverVars
  <2>2. \/ pc' = [pc EXCEPT ![h] = "lock"]
        \/ pc' = [pc EXCEPT ![h] = "return"] /\ BlkRead(h, b)
    BY <1>2 DEF BlkRead, BlkWrite, Goto
  <2>3. QED
    BY <1>0, <2>1, <2>2
<1>3. ASSUME NEW h \in BlkHarts, BlkStep(h)
      PROVE  LockInv'
  <2>1. CASE InstallRead(h)
    <3>1. op[h] = "read" /\ op' = op /\ drv' = drv
      BY <2>1 DEF InstallRead, driverVars
    <3>2. pc[h] = "fetched" /\ (\/ pc' = [pc EXCEPT ![h] = "return"]
                                \/ pc' = [pc EXCEPT ![h] = "ahead"])
      BY <2>1 DEF InstallRead, Goto
    <3>3. QED
      BY <1>0, <3>1, <3>2
  <2>2. CASE Ahead(h)
    <3>1. drv' = drv /\ pc[h] = "ahead"
      BY <2>2 DEF Ahead, Goto, driverVars
    <3>2. \/ pc' = [pc EXCEPT ![h] = "idle"] /\ op' = op
          \/ pc' = [pc EXCEPT ![h] = "lock"] /\ op' = [op EXCEPT ![h] = "ahead"]
      BY <2>2 DEF Ahead, Goto
    <3>3. QED
      BY <1>0, <3>1, <3>2
  <2>3. CASE InstallAhead(h) \/ UpdateCache(h) \/ BlkReturn(h)
    <3>1. /\ op' = op /\ drv' = drv /\ pc[h] \in {"fetched", "return"}
          /\ pc' = [pc EXCEPT ![h] = "idle"]
      BY <2>3 DEF InstallAhead, UpdateCache, BlkReturn, Goto, driverVars
    <3>2. QED
      BY <1>0, <3>1
  <2>4. CASE Lock(h)
    BY <1>0, <2>4 DEF Lock, Free, Goto
  <2>5. CASE Submit(h) \/ Complete(h) \/ Timeout(h)
    <3>1. /\ op' = op /\ drv' = drv /\ pc[h] \in {"submit", "poll"}
          /\ pc' = [pc EXCEPT ![h] = "poll"] \/ pc' = [pc EXCEPT ![h] = "copy"]
      BY <2>5 DEF Submit, Complete, Timeout, Goto, driverVars
    <3>2. QED
      BY <1>0, <3>1
  <2>6. CASE Unlock(h)
    BY <1>0, <2>6 DEF Unlock, Goto
  <2>7. QED
    BY <1>3, <2>1, <2>2, <2>3, <2>4, <2>5, <2>6 DEF BlkStep
<1>4. ASSUME NEW r \in pending, Answer(r)
      PROVE  LockInv'
  BY <1>1, <1>4 DEF Answer, hartVars
<1>5. CASE OnIrq
  BY <1>1, <1>5 DEF OnIrq, hartVars
<1>6. QED
  BY <1>1, <1>2, <1>3, <1>4, <1>5 DEF BlkNext, blkVars, driverVars, hartVars

----------------------------------------------------------------------------
(* One request in flight *)

LEMMA FreshInit == BlkInit => FreshRequests
BY DEF BlkInit, FreshRequests

LEMMA FreshStep == BlkTypeOK /\ LockInv /\ FreshRequests /\ [BlkNext]_blkVars => FreshRequests'
<1> SUFFICES ASSUME BlkTypeOK, LockInv, FreshRequests, [BlkNext]_blkVars PROVE FreshRequests'
  OBVIOUS
<1> SUFFICES ASSUME NEW r \in pending', NEW h \in BlkHarts, r.hart = h
             PROVE  /\ r.call <= blkCalls'
                    /\ pc'[h] \in {"lock", "submit"} /\ r.call = blkCalls'
                         => op'[h] = "ahead" /\ r.lba # lba'[h]
                    /\ pc'[h] \notin {"idle", "lock", "submit"} /\ op'[h] = "read"
                       /\ r.call = blkCalls' => r.lba = lba'[h]
  <2>1. BlkTypeOK'
    BY BlkTypeStep
  <2>2. \A r \in pending' : r.hart \in BlkHarts
    BY <2>1 DEF BlkTypeOK, Requests
  <2>3. QED
    BY <2>2 DEF FreshRequests
<1>0. /\ pc \in [BlkHarts -> Places] /\ op \in [BlkHarts -> {"read", "ahead", "write"}]
      /\ lba \in [BlkHarts -> Sectors] /\ blkCalls \in Nat
      /\ \A q \in pending : q.call \in Nat
  BY DEF BlkTypeOK, Versions, Requests
<1>1. r \in pending => /\ r.call \in Nat /\ r.call <= blkCalls
                       /\ pc[h] \in {"lock", "submit"} /\ r.call = blkCalls
                            => op[h] = "ahead" /\ r.lba # lba[h]
                       /\ pc[h] \notin {"idle", "lock", "submit"} /\ op[h] = "read"
                          /\ r.call = blkCalls => r.lba = lba[h]
  BY <1>0 DEF FreshRequests
<1>2. CASE UNCHANGED <<pending, blkCalls, pc, op, lba>>
  BY <1>1, <1>2
<1>3. ASSUME NEW g \in BlkHarts, NEW b \in Sectors, BlkRead(g, b) \/ BlkWrite(g, b)
      PROVE  r \in pending /\ blkCalls' = blkCalls + 1
  BY <1>3 DEF BlkRead, BlkWrite, Begin, driverVars
<1>4. ASSUME NEW q \in pending, Answer(q)
      PROVE  r \in pending /\ UNCHANGED <<blkCalls, pc, op, lba>>
  BY <1>4 DEF Answer, hartVars, history
<1>5. CASE OnIrq
  BY <1>2, <1>5 DEF OnIrq, hartVars, history
<1>6. ASSUME NEW g \in BlkHarts, BlkStep(g)
      PROVE  /\ r.call <= blkCalls'
             /\ pc'[h] \in {"lock", "submit"} /\ r.call = blkCalls'
                  => op'[h] = "ahead" /\ r.lba # lba'[h]
             /\ pc'[h] \notin {"idle", "lock", "submit"} /\ op'[h] = "read"
                /\ r.call = blkCalls' => r.lba = lba'[h]
  <2>1. CASE InstallRead(g)
    <3>1. op[g] = "read" /\ op' = op /\ lba' = lba /\ blkCalls' = blkCalls /\ pending' = pending
      BY <2>1 DEF InstallRead, driverVars
    <3>2. pc[g] = "fetched" /\ (\/ pc' = [pc EXCEPT ![g] = "return"]
                                \/ pc' = [pc EXCEPT ![g] = "ahead"])
      BY <2>1 DEF InstallRead, Goto
    <3>3. QED
      BY <1>0, <1>1, <3>1, <3>2
  <2>2. CASE Ahead(g)
    <3>1. blkCalls' = blkCalls /\ pending' = pending /\ pc[g] = "ahead" /\ op[g] = "read"
      BY <2>2 DEF Ahead, Goto, driverVars, history, LockInv
    <3>2. \/ pc' = [pc EXCEPT ![g] = "idle"] /\ op' = op /\ lba' = lba
          \/ /\ pc' = [pc EXCEPT ![g] = "lock"] /\ op' = [op EXCEPT ![g] = "ahead"]
             /\ lba' = [lba EXCEPT ![g] = lba[g] + 1]
      BY <2>2 DEF Ahead, Goto
    <3>3. lba[g] + 1 # lba[g]
      BY <1>0 DEF Sectors
    <3>4. QED
      BY <1>0, <1>1, <3>1, <3>2, <3>3
  <2>3. CASE InstallAhead(g) \/ UpdateCache(g) \/ BlkReturn(g)
    <3>1. /\ op' = op /\ lba' = lba /\ pc' = [pc EXCEPT ![g] = "idle"]
          /\ blkCalls' = blkCalls /\ pending' = pending
      BY <2>3 DEF InstallAhead, UpdateCache, BlkReturn, Goto, driverVars, history
    <3>2. QED
      BY <1>0, <1>1, <3>1
  <2>4. CASE Submit(g)
    <3>1. /\ op' = op /\ lba' = lba /\ pc' = [pc EXCEPT ![g] = "poll"] /\ blkCalls' = blkCalls
          /\ pc[g] = "submit"
          /\ \/ r \in pending
             \/ r = [hart |-> g, call |-> blkCalls, write |-> op[g] = "write", lba |-> lba[g]]
      BY <2>4 DEF Submit, Goto, history
    <3>2. CASE r \in pending
      BY <1>0, <1>1, <3>1, <3>2
    <3>3. CASE r \notin pending
      BY <1>0, <3>1, <3>3
    <3>4. QED
      BY <3>2, <3>3
  <2>5. CASE Lock(g) \/ Complete(g) \/ Timeout(g) \/ Unlock(g)
    <3>1. /\ op' = op /\ lba' = lba /\ blkCalls' = blkCalls /\ pending' = pending
          /\ \/ pc[g] = "lock" /\ pc' = [pc EXCEPT ![g] = "submit"]
             \/ pc[g] = "poll" /\ pc' = [pc EXCEPT ![g] = "copy"]
             \/ pc[g] = "copy" /\ pc' = [pc EXCEPT ![g] = "fetched"]
      BY <2>5 DEF Lock, Complete, Timeout, Unlock, Goto, driverVars, history
    <3>2. QED
      BY <1>0, <1>1, <3>1
  <2>6. QED
    BY <1>6, <2>1, <2>2, <2>3, <2>4, <2>5 DEF BlkStep
<1>7. CASE \E g \in BlkHarts, b \in Sectors : BlkRead(g, b) \/ BlkWrite(g, b)
  BY <1>0, <1>1, <1>3, <1>7
<1>8. CASE \E q \in pending : Answer(q)
  BY <1>1, <1>4, <1>8
<1>9. QED
  BY <1>2, <1>5, <1>6, <1>7, <1>8 DEF BlkNext, blkVars, driverVars, hartVars, history

LEMMA InFlightInit == BlkInit => InFlight
BY FS_EmptySet DEF BlkInit, InFlight

\* A request is one more for the device; an answer, a time-out or a completion
\* moves it from one side of the balance to the other.
LEMMA InFlightStep ==
    BlkTypeOK /\ LockInv /\ FreshRequests /\ InFlight /\ [BlkNext]_blkVars => InFlight'
<1> SUFFICES ASSUME BlkTypeOK, LockInv, FreshRequests, InFlight, [BlkNext]_blkVars PROVE InFlight'
  OBVIOUS
<1>0. /\ pc \in [BlkHarts -> Places] /\ used \in Nat /\ last_used \in Nat /\ timeouts \in Nat
      /\ IsFiniteSet(pending) /\ Cardinality(pending) \in Nat
  BY BlkDevAssumption, FS_CardinalityType DEF BlkTypeOK
<1> DEFINE Polls == \E h \in BlkHarts : pc[h] = "poll"
<1>1. ASSUME UNCHANGED <<used, last_used, timeouts, pending>>, Polls' = Polls
      PROVE  InFlight'
  BY <1>1 DEF InFlight
<1>2. ASSUME NEW h \in BlkHarts, NEW p \in Places, pc[h] # "poll", p # "poll",
             pc' = [pc EXCEPT ![h] = p]
      PROVE  Polls' = Polls
  BY <1>0, <1>2
<1>3. ASSUME NEW h \in BlkHarts, NEW b \in Sectors, BlkRead(h, b) \/ BlkWrite(h, b)
      PROVE  InFlight'
  <2>1. /\ UNCHANGED <<used, last_used, timeouts, pending>> /\ pc[h] = "idle"
        /\ \E p \in {"lock", "return"} : pc' = [pc EXCEPT ![h] = p]
    BY <1>3 DEF BlkRead, BlkWrite, Goto, driverVars
  <2>2. Polls' = Polls
    BY <1>2, <2>1 DEF Places
  <2>3. QED
    BY <1>1, <2>1, <2>2
<1>4. ASSUME NEW r \in pending, Answer(r)
      PROVE  InFlight'
  <2>1. Cardinality(pending') = Cardinality(pending) - 1
    BY <1>0, <1>4, FS_RemoveElement DEF Answer
  <2>2. Polls' = Polls /\ used' = used + 1 /\ UNCHANGED <<last_used, timeouts>>
    BY <1>4 DEF Answer, hartVars, history
  <2>3. QED
    BY <1>0, <2>1, <2>2 DEF InFlight
<1>5. CASE OnIrq
  <2>1. UNCHANGED <<used, last_used, timeouts, pending, pc>>
    BY <1>5 DEF OnIrq, hartVars, history
  <2>2. QED
    BY <1>1, <2>1
<1>6. ASSUME NEW h \in BlkHarts, BlkStep(h)
      PROVE  InFlight'
  <2>1. CASE InstallRead(h) \/ Ahead(h) \/ InstallAhead(h) \/ UpdateCache(h) \/ BlkReturn(h) \/ Unlock(h)
    <3>1. UNCHANGED <<used, last_used, timeouts, pending>>
      BY <2>1 DEF InstallRead, Ahead, InstallAhead, UpdateCache, BlkReturn, Unlock, driverVars, history
    <3>2. pc[h] # "poll" /\ \E p \in {"idle", "lock", "return", "ahead", "fetched"} :
                              pc' = [pc EXCEPT ![h] = p]
      BY <2>1 DEF InstallRead, Ahead, InstallAhead, UpdateCache, BlkReturn, Unlock, Goto
    <3>3. Polls' = Polls
      BY <1>2, <3>2 DEF Places
    <3>4. QED
      BY <1>1, <3>1, <3>3
  <2>2. CASE Lock(h)
    <3>1. UNCHANGED <<used, last_used, timeouts, pending>>
      BY <2>2 DEF Lock, history
    <3>2. Polls' = Polls
      BY <1>2, <2>2 DEF Lock, Goto, Places
    <3>3. QED
      BY <1>1, <3>1, <3>2
  <2>3. CASE Submit(h)
    <3> DEFINE r == [hart |-> h, call |-> blkCalls, write |-> op[h] = "write", lba |-> lba[h]]
    <3>1. r \notin pending
      BY <2>3 DEF Submit, Goto, FreshRequests
    <3>2. Cardinality(pending') = Cardinality(pending) + 1
      BY <1>0, <2>3, <3>1, FS_AddElement DEF Submit
    <3>3. UNCHANGED <<used, last_used, timeouts>> /\ pc[h] = "submit" /\ pc' = [pc EXCEPT ![h] = "poll"]
      BY <2>3 DEF Submit, Goto, history
    <3>4. ~Polls
      BY <3>3 DEF LockInv, InDriver
    <3>5. Polls'
      BY <1>0, <3>3
    <3>6. QED
      BY <1>0, <3>2, <3>3, <3>4, <3>5 DEF InFlight
  <2>4. CASE Complete(h) \/ Timeout(h)
    <3>1. /\ pc[h] = "poll" /\ pc' = [pc EXCEPT ![h] = "copy"] /\ UNCHANGED <<used, pending>>
          /\ \/ last_used' = last_used + 1 /\ timeouts' = timeouts
             \/ last_used' = last_used /\ timeouts' = timeouts + 1
      BY <2>4 DEF Complete, Timeout, Goto, driverVars, history
    <3>2. used + Cardinality(pending) = last_used + 1 + timeouts
      BY <3>1 DEF InFlight
    <3>3. ~Polls'
      BY <1>0, <3>1 DEF LockInv, InDriver
    <3>4. used' = used /\ Cardinality(pending') = Cardinality(pending)
      BY <3>1
    <3>5. used' + Cardinality(pending') = last_used' + 0 + timeouts'
      BY <1>0, <3>1, <3>2, <3>4
    <3>6. QED
      BY <3>3, <3>5 DEF InFlight
  <2>5. QED
    BY <1>6, <2>1, <2>2, <2>3, <2>4 DEF BlkStep
<1>7. CASE UNCHANGED blkVars
  <2>1. UNCHANGED <<used, last_used, timeouts, pending, pc>>
    BY <1>7 DEF blkVars, driverVars, hartVars, history
  <2>2. QED
    BY <1>1, <2>1
<1>8. QED
  BY <1>3, <1>4, <1>5, <1>6, <1>7 DEF BlkNext

----------------------------------------------------------------------------
(* One slot for a block *)

LEMMA CachedMeans ==
    ASSUME BlkTypeOK, NEW b \in Sectors
    PROVE  Cached(b) <=> \E i \in Slots : cache[i].valid /\ cache[i].lba = b
BY CacheTyped DEF Cached, Holding

LEMMA OneSlotInit == BlkInit => OneSlot
BY DEF BlkInit, OneSlot, Slots, EmptySlot

LEMMA InstallOneSlot ==
    ASSUME BlkTypeOK, OneSlot, NEW b \in Sectors, NEW v \in Versions, NEW flag \in BOOLEAN,
           ~Cached(b), Install(b, v, flag)
    PROVE  OneSlot'
<1>1. PICK s \in Slots :
        /\ cache'[s].lba = b
        /\ \A i \in Slots \ {s} : cache'[i].lba = cache[i].lba /\ cache'[i].valid = cache[i].valid
  BY InstallEffect
<1>2. \A i \in Slots : cache[i].valid => cache[i].lba # b
  BY CachedMeans
<1>3. Slots' = Slots
  BY DEF Slots
<1>4. ASSUME NEW i \in Slots, NEW j \in Slots,
             cache'[i].valid, cache'[j].valid, cache'[i].lba = cache'[j].lba
      PROVE  i = j
  BY <1>1, <1>2, <1>4 DEF OneSlot
<1>5. QED
  BY <1>3, <1>4 DEF OneSlot

LEMMA ReferOneSlot ==
    ASSUME BlkTypeOK, OneSlot, NEW b \in Sectors, NEW v \in Versions, Refer(b, v)
    PROVE  OneSlot'
<1>1. \A i \in Slots : cache'[i].lba = cache[i].lba /\ cache'[i].valid = cache[i].valid
  BY ReferEffect
<1>2. QED
  BY <1>1 DEF OneSlot, Slots

\* Every installation has looked for the block under the lock.
LEMMA OneSlotStep == BlkTypeOK /\ OneSlot /\ [BlkNext]_blkVars => OneSlot'
<1> SUFFICES ASSUME BlkTypeOK, OneSlot, [BlkNext]_blkVars PROVE OneSlot'
  OBVIOUS
<1>1. ASSUME cache' = cache
      PROVE  OneSlot'
  BY <1>1 DEF OneSlot, Slots
<1>2. ASSUME NEW h \in BlkHarts, NEW b \in Sectors, BlkRead(h, b)
      PROVE  OneSlot'
  <2>1. (Cached(b) /\ Refer(b, Data(b))) \/ cache' = cache
    BY <1>2 DEF BlkRead, cacheVars
  <2>2. Cached(b) => Data(b) \in Versions
    BY DataIsHeld
  <2>3. QED
    BY <1>1, <2>1, <2>2, ReferOneSlot
<1>3. ASSUME NEW h \in BlkHarts, BlkStep(h)
      PROVE  OneSlot'
  <2>0. lba[h] \in Sectors /\ val[h] \in Versions
    BY DEF BlkTypeOK
  <2>1. CASE InstallRead(h)
    <3>1. \/ cache' = cache
          \/ Cached(lba[h]) /\ Refer(lba[h], Data(lba[h]))
          \/ ~Cached(lba[h]) /\ Install(lba[h], val[h], TRUE)
      BY <2>1 DEF InstallRead, Present, cacheVars
    <3>2. Cached(lba[h]) => Data(lba[h]) \in Versions
      BY <2>0, DataIsHeld
    <3>3. QED
      BY <1>1, <2>0, <3>1, <3>2, ReferOneSlot, InstallOneSlot
  <2>2. CASE InstallAhead(h)
    <3>1. cache' = cache \/ (~Cached(lba[h]) /\ Install(lba[h], val[h], FALSE))
      BY <2>2 DEF InstallAhead, cacheVars
    <3>2. QED
      BY <1>1, <2>0, <3>1, InstallOneSlot
  <2>3. CASE UpdateCache(h)
    <3>1. Refer(lba[h], val[h]) \/ (~Cached(lba[h]) /\ Install(lba[h], val[h], TRUE))
      BY <2>3 DEF UpdateCache
    <3>2. QED
      BY <2>0, <3>1, ReferOneSlot, InstallOneSlot
  <2>4. CASE Ahead(h) \/ BlkReturn(h) \/ Lock(h) \/ Submit(h) \/ Complete(h) \/ Timeout(h) \/ Unlock(h)
    BY <1>1, <2>4 DEF Ahead, BlkReturn, Lock, Submit, Complete, Timeout, Unlock, cacheVars
  <2>5. QED
    BY <1>3, <2>1, <2>2, <2>3, <2>4 DEF BlkStep
<1>4. CASE \/ \E h \in BlkHarts, b \in Sectors : BlkWrite(h, b)
           \/ \E r \in pending : Answer(r)
           \/ OnIrq
           \/ UNCHANGED blkVars
  BY <1>1, <1>4 DEF BlkWrite, Answer, OnIrq, blkVars, cacheVars
<1>5. QED
  BY <1>2, <1>3, <1>4 DEF BlkNext

----------------------------------------------------------------------------
(* Who writes a block, and what is current of it *)

\* A hart that is no writer, or goes on being one, leaves both as they are.
LEMMA CurrentKept ==
    ASSUME NEW h \in BlkHarts, UNCHANGED latest,
           \A g \in BlkHarts \ {h} : /\ pc'[g] = pc[g] /\ op'[g] = op[g]
                                     /\ lba'[g] = lba[g] /\ val'[g] = val[g],
           \/ (pc[h] = "idle" \/ op[h] # "write") /\ op'[h] # "write"
           \/ /\ pc[h] # "idle" /\ pc'[h] # "idle" /\ op'[h] = op[h]
              /\ lba'[h] = lba[h] /\ val'[h] = val[h]
    PROVE  \A b \in Sectors : Writing(b)' = Writing(b) /\ Current(b)' = Current(b)
<1> TAKE b \in Sectors
<1>1. \A g \in BlkHarts : /\ g \in Writing(b)' <=> g \in Writing(b)
                          /\ g \in Writing(b) => val'[g] = val[g]
  BY DEF Writing
<1>2. Writing(b)' = Writing(b)
  BY <1>1 DEF Writing
<1>3. QED
  BY <1>1, <1>2 DEF Current, Writing

\* The steps that neither begin nor end a write.
Quiet(h) == \/ InstallRead(h) \/ Ahead(h) \/ InstallAhead(h) \/ BlkReturn(h)
            \/ Lock(h) \/ Submit(h) \/ Complete(h) \/ Timeout(h) \/ Unlock(h)

LEMMA QuietKeepsCurrent ==
    ASSUME BlkTypeOK, LockInv, NEW h \in BlkHarts, Quiet(h)
    PROVE  \A b \in Sectors : Writing(b)' = Writing(b) /\ Current(b)' = Current(b)
<1>0. /\ pc \in [BlkHarts -> Places] /\ op \in [BlkHarts -> {"read", "ahead", "write"}]
      /\ lba \in [BlkHarts -> Sectors] /\ val \in [BlkHarts -> Versions]
  BY DEF BlkTypeOK
<1>1. CASE InstallRead(h)
  <2>1. /\ op[h] = "read" /\ op' = op /\ lba' = lba /\ latest' = latest
        /\ \A g \in BlkHarts \ {h} : pc'[g] = pc[g] /\ val'[g] = val[g]
    BY <1>0, <1>1 DEF InstallRead, Goto
  <2>2. QED
    BY <2>1, CurrentKept
<1>2. CASE Ahead(h)
  <2>1. op[h] = "read" /\ latest' = latest
    BY <1>2 DEF Ahead, Goto, LockInv, history
  <2>2. op'[h] # "write" /\ \A g \in BlkHarts \ {h} : /\ pc'[g] = pc[g] /\ op'[g] = op[g]
                                                      /\ lba'[g] = lba[g] /\ val'[g] = val[g]
    <3>1. CASE op' = op /\ lba' = lba /\ val' = val
      BY <1>0, <1>2, <2>1, <3>1 DEF Ahead, Goto
    <3>2. CASE ~(PastEnd(lba[h] + 1) \/ Cached(lba[h] + 1))
      BY <1>0, <1>2, <3>2 DEF Ahead, Goto
    <3>3. QED
      BY <1>2, <3>1, <3>2 DEF Ahead
  <2>3. QED
    BY <2>1, <2>2, CurrentKept
<1>3. CASE InstallAhead(h) \/ BlkReturn(h)
  <2>1. /\ op[h] # "write" /\ op' = op /\ lba' = lba /\ val' = val /\ latest' = latest
        /\ \A g \in BlkHarts \ {h} : pc'[g] = pc[g]
    BY <1>0, <1>3 DEF InstallAhead, BlkReturn, Goto, LockInv, history
  <2>2. QED
    BY <2>1, CurrentKept
<1>4. CASE Lock(h) \/ Submit(h) \/ Complete(h) \/ Timeout(h)
  <2>1. /\ op' = op /\ lba' = lba /\ val' = val /\ latest' = latest
        /\ pc[h] # "idle" /\ pc'[h] # "idle"
        /\ \A g \in BlkHarts \ {h} : pc'[g] = pc[g]
    BY <1>0, <1>4 DEF Lock, Submit, Complete, Timeout, Goto, history
  <2>2. QED
    BY <2>1, CurrentKept
<1>5. CASE Unlock(h)
  <2>1. /\ op' = op /\ lba' = lba /\ latest' = latest
        /\ pc[h] # "idle" /\ pc'[h] # "idle" /\ (op[h] = "write" => val'[h] = val[h])
        /\ \A g \in BlkHarts \ {h} : pc'[g] = pc[g] /\ val'[g] = val[g]
    BY <1>0, <1>5 DEF Unlock, Goto, history
  <2>2. QED
    BY <2>1, CurrentKept
<1>6. QED
  BY <1>1, <1>2, <1>3, <1>4, <1>5 DEF Quiet

LEMMA ReadKeepsCurrent ==
    ASSUME BlkTypeOK, NEW h \in BlkHarts, NEW d \in Sectors, BlkRead(h, d)
    PROVE  \A b \in Sectors : Writing(b)' = Writing(b) /\ Current(b)' = Current(b)
<1>0. /\ pc \in [BlkHarts -> Places] /\ op \in [BlkHarts -> {"read", "ahead", "write"}]
      /\ lba \in [BlkHarts -> Sectors] /\ val \in [BlkHarts -> Versions]
  BY DEF BlkTypeOK
<1>1. /\ pc[h] = "idle" /\ op'[h] = "read" /\ latest' = latest
      /\ \A g \in BlkHarts \ {h} : /\ pc'[g] = pc[g] /\ op'[g] = op[g]
                                   /\ lba'[g] = lba[g] /\ val'[g] = val[g]
  BY <1>0 DEF BlkRead, Begin, Goto
<1>2. QED
  BY <1>1, CurrentKept

\* A write that begins adds its contents.
LEMMA WriteAddsCurrent ==
    ASSUME BlkTypeOK, NEW h \in BlkHarts, NEW d \in Sectors, BlkWrite(h, d)
    PROVE  /\ Writing(d)' = Writing(d) \cup {h}
           /\ Current(d)' = Current(d) \cup {blkCalls + 1}
           /\ \A b \in Sectors \ {d} : Writing(b)' = Writing(b) /\ Current(b)' = Current(b)
<1>0. /\ pc \in [BlkHarts -> Places] /\ op \in [BlkHarts -> {"read", "ahead", "write"}]
      /\ lba \in [BlkHarts -> Sectors] /\ val \in [BlkHarts -> Versions]
  BY DEF BlkTypeOK
<1>1. /\ pc[h] = "idle" /\ pc'[h] = "lock" /\ op'[h] = "write" /\ lba'[h] = d
      /\ val'[h] = blkCalls + 1 /\ latest' = latest
      /\ \A g \in BlkHarts \ {h} : /\ pc'[g] = pc[g] /\ op'[g] = op[g]
                                   /\ lba'[g] = lba[g] /\ val'[g] = val[g]
  BY <1>0 DEF BlkWrite, Begin, Goto
<1>2. \A b \in Sectors : Writing(b)' = IF b = d THEN Writing(b) \cup {h} ELSE Writing(b)
  BY <1>1 DEF Writing
<1>3. \A b \in Sectors : h \notin Writing(b) /\ \A g \in Writing(b) : val'[g] = val[g]
  BY <1>1 DEF Writing
<1>4. QED
  BY <1>1, <1>2, <1>3 DEF Current

\* A write that ends makes its contents the latest.
LEMMA UpdateSetsCurrent ==
    ASSUME BlkTypeOK, NEW h \in BlkHarts, NEW d \in Sectors, d = lba[h], UpdateCache(h)
    PROVE  /\ h \in Writing(d) /\ val[h] \in Current(d)
           /\ Writing(d)' = Writing(d) \ {h}
           /\ Current(d)' \subseteq Current(d)
           /\ Writing(d) \subseteq {h} => Current(d)' = {val[h]}
           /\ \A b \in Sectors \ {d} : Writing(b)' = Writing(b) /\ Current(b)' = Current(b)
<1>0. /\ pc \in [BlkHarts -> Places] /\ op \in [BlkHarts -> {"read", "ahead", "write"}]
      /\ lba \in [BlkHarts -> Sectors] /\ latest \in [Sectors -> Versions]
  BY DEF BlkTypeOK
<1>1. /\ pc[h] = "fetched" /\ pc'[h] = "idle" /\ op[h] = "write"
      /\ op' = op /\ lba' = lba /\ lba[h] = d /\ val' = val /\ latest' = [latest EXCEPT ![d] = val[h]]
      /\ \A g \in BlkHarts \ {h} : pc'[g] = pc[g]
  BY <1>0 DEF UpdateCache, Goto
<1>2. d \in Sectors /\ h \in Writing(d)
  BY <1>0, <1>1 DEF Writing
<1>3. \A b \in Sectors : Writing(b)' = Writing(b) \ {h}
  BY <1>1 DEF Writing
<1>4. \A b \in Sectors \ {d} : h \notin Writing(b)
  BY DEF Writing
<1>5. \A b \in Sectors : latest'[b] = IF b = d THEN val[h] ELSE latest[b]
  BY <1>0, <1>1
<1>6. \A b \in Sectors : Current(b)' = {latest'[b]} \cup {val[w] : w \in Writing(b) \ {h}}
  BY <1>1, <1>3 DEF Current
<1>7. \A b \in Sectors \ {d} : Writing(b)' = Writing(b) /\ Current(b)' = Current(b)
  <2> TAKE b \in Sectors \ {d}
  <2>1. Writing(b) \ {h} = Writing(b)
    BY <1>4
  <2>2. QED
    BY <1>3, <1>5, <1>6, <2>1 DEF Current
<1>8. val[h] \in Current(d)
  BY <1>2 DEF Current
<1>9. Current(d)' = {val[h]} \cup {val[w] : w \in Writing(d) \ {h}}
  BY <1>2, <1>5, <1>6
<1>10. Current(d)' \subseteq Current(d)
  BY <1>8, <1>9 DEF Current
<1>11. Writing(d) \subseteq {h} => Current(d)' = {val[h]}
  BY <1>9
<1>12. QED
  BY <1>2, <1>3, <1>7, <1>8, <1>10, <1>11

----------------------------------------------------------------------------
(* Races, and what a read may return *)

LEMMA RacedGrows ==
    ASSUME BlkTypeOK, [BlkNext]_blkVars
    PROVE  raced \subseteq raced' /\ timeouts <= timeouts' /\ timeouts' \in Nat
<1>0. timeouts \in Nat
  BY BlkDevAssumption DEF BlkTypeOK
<1>1. CASE UNCHANGED <<raced, timeouts>>
  BY <1>0, <1>1
<1>2. ASSUME NEW h \in BlkHarts, NEW b \in Sectors, BlkRead(h, b) \/ BlkWrite(h, b)
      PROVE  raced \subseteq raced' /\ timeouts' = timeouts
  BY <1>2 DEF BlkRead, BlkWrite, Refer
<1>3. ASSUME NEW h \in BlkHarts, BlkStep(h)
      PROVE  raced \subseteq raced' /\ timeouts' \in {timeouts, timeouts + 1}
  <2>1. CASE InstallRead(h)
    <3>1. timeouts' = timeouts /\ (\/ raced' = raced
                                   \/ Refer(lba[h], Data(lba[h]))
                                   \/ Install(lba[h], val[h], TRUE))
      BY <2>1 DEF InstallRead
    <3>2. QED
      BY <3>1 DEF Refer, Install
  <2>2. CASE InstallAhead(h)
    BY <2>2 DEF InstallAhead, Install
  <2>3. CASE UpdateCache(h)
    BY <2>3 DEF UpdateCache, Refer, Install
  <2>4. CASE Ahead(h) \/ BlkReturn(h) \/ Lock(h) \/ Submit(h) \/ Complete(h) \/ Timeout(h) \/ Unlock(h)
    BY <2>4 DEF Ahead, BlkReturn, Lock, Submit, Complete, Timeout, Unlock, history
  <2>5. QED
    BY <1>3, <2>1, <2>2, <2>3, <2>4 DEF BlkStep
<1>4. CASE \/ \E r \in pending : Answer(r)
           \/ OnIrq
           \/ UNCHANGED blkVars
  BY <1>1, <1>4 DEF Answer, OnIrq, blkVars, history
<1>5. QED
  BY <1>0, <1>2, <1>3, <1>4 DEF BlkNext

\* The steps of the device, and no step, touch no hart.
LEMMA DeviceKeepsCurrent ==
    ASSUME UNCHANGED <<hartVars, latest>>
    PROVE  \A b \in Sectors : Writing(b)' = Writing(b) /\ Current(b)' = Current(b)
BY DEF hartVars, Writing, Current

LEMMA StepCases ==
    ASSUME [BlkNext]_blkVars
    PROVE  \/ \E h \in BlkHarts, b \in Sectors : BlkRead(h, b)
           \/ \E h \in BlkHarts, b \in Sectors : BlkWrite(h, b)
           \/ \E h \in BlkHarts : UpdateCache(h)
           \/ \E h \in BlkHarts : Quiet(h)
           \/ \E r \in pending : Answer(r)
           \/ OnIrq
           \/ UNCHANGED blkVars
BY DEF BlkNext, BlkStep, Quiet

LEMMA RacesInit == BlkInit => RacesSeen
BY DEF BlkInit, RacesSeen, Writing

LEMMA RacesStep == BlkTypeOK /\ LockInv /\ RacesSeen /\ [BlkNext]_blkVars => RacesSeen'
<1> SUFFICES ASSUME BlkTypeOK, LockInv, RacesSeen, [BlkNext]_blkVars PROVE RacesSeen'
  OBVIOUS
<1>0. raced \subseteq raced' /\ Sectors' = Sectors
  BY RacedGrows DEF Sectors
<1>1. ASSUME \A b \in Sectors : Writing(b)' \subseteq Writing(b)
      PROVE  RacesSeen'
  BY <1>0, <1>1 DEF RacesSeen
<1>2. ASSUME NEW h \in BlkHarts, NEW d \in Sectors, BlkWrite(h, d)
      PROVE  RacesSeen'
  <2>1. /\ Writing(d)' = Writing(d) \cup {h}
        /\ \A b \in Sectors \ {d} : Writing(b)' = Writing(b)
    BY <1>2, WriteAddsCurrent
  <2>2. d \notin raced' => Writing(d) = {}
    BY <1>2 DEF BlkWrite
  <2>3. QED
    BY <1>0, <2>1, <2>2 DEF RacesSeen
<1>3. ASSUME NEW h \in BlkHarts, UpdateCache(h)
      PROVE  RacesSeen'
  <2>1. lba[h] \in Sectors
    BY DEF BlkTypeOK
  <2>2. \A b \in Sectors : Writing(b)' \subseteq Writing(b)
    BY <1>3, <2>1, UpdateSetsCurrent
  <2>3. QED
    BY <1>1, <2>2
<1>4. ASSUME NEW h \in BlkHarts, Quiet(h)
      PROVE  RacesSeen'
  BY <1>1, <1>4, QuietKeepsCurrent
<1>5. ASSUME NEW h \in BlkHarts, NEW b \in Sectors, BlkRead(h, b)
      PROVE  RacesSeen'
  BY <1>1, <1>5, ReadKeepsCurrent
<1>6. CASE \/ \E r \in pending : Answer(r)
           \/ OnIrq
           \/ UNCHANGED blkVars
  <2>1. UNCHANGED <<hartVars, latest>>
    BY <1>6 DEF Answer, OnIrq, blkVars, history
  <2>2. QED
    BY <1>1, <2>1, DeviceKeepsCurrent
<1>7. QED
  BY <1>2, <1>3, <1>4, <1>5, <1>6, StepCases

LEMMA SeenInit == BlkInit => SeenInv
BY DEF BlkInit, SeenInv

LEMMA SeenStep == BlkTypeOK /\ LockInv /\ SeenInv /\ [BlkNext]_blkVars => SeenInv'
<1> SUFFICES ASSUME BlkTypeOK, LockInv, SeenInv, [BlkNext]_blkVars PROVE SeenInv'
  OBVIOUS
<1> SUFFICES ASSUME NEW g \in BlkHarts, pc'[g] # "idle", op'[g] = "read"
             PROVE  Current(lba[g])' \subseteq seen'[g]
  BY DEF SeenInv
<1>0. /\ pc \in [BlkHarts -> Places] /\ op \in [BlkHarts -> {"read", "ahead", "write"}]
      /\ lba \in [BlkHarts -> Sectors] /\ seen \in [BlkHarts -> SUBSET Versions]
  BY DEF BlkTypeOK
<1>1. ASSUME \A b \in Sectors : Current(b)' \subseteq Current(b),
             pc[g] # "idle", op[g] = "read", lba'[g] = lba[g], seen'[g] = seen[g]
      PROVE  Current(lba[g])' \subseteq seen'[g]
  <2>1. PICK b \in Sectors : b = lba[g]
    BY <1>0
  <2>2. Current(b) \subseteq seen[g]
    BY <1>1, <2>1 DEF SeenInv
  <2>3. Current(b)' \subseteq seen'[g]
    BY <1>1, <2>2
  <2>4. QED
    BY <1>1, <2>1, <2>3
<1>2. ASSUME NEW h \in BlkHarts, NEW d \in Sectors, BlkRead(h, d)
      PROVE  Current(lba[g])' \subseteq seen'[g]
  <2>0. \A b \in Sectors : Current(b)' = Current(b)
    BY <1>2, ReadKeepsCurrent
  <2>1. CASE g = h
    <3>1. seen'[g] = Current(d) /\ lba'[g] = d
      BY <1>0, <1>2, <2>1 DEF BlkRead, Begin
    <3>2. QED
      BY <2>0, <3>1
  <2>2. CASE g # h
    <3>1. pc'[g] = pc[g] /\ op'[g] = op[g] /\ lba'[g] = lba[g] /\ seen'[g] = seen[g]
      BY <1>0, <1>2, <2>2 DEF BlkRead, Begin, Goto
    <3>2. QED
      BY <1>1, <2>0, <3>1
  <2>3. QED
    BY <2>1, <2>2
<1>3. ASSUME NEW h \in BlkHarts, NEW d \in Sectors, BlkWrite(h, d)
      PROVE  Current(lba[g])' \subseteq seen'[g]
  <2>1. /\ Current(d)' = Current(d) \cup {blkCalls + 1}
        /\ \A b \in Sectors \ {d} : Current(b)' = Current(b)
    BY <1>3, WriteAddsCurrent
  <2>2. g # h
    BY <1>0, <1>3 DEF BlkWrite, Begin
  <2>3. pc[g] # "idle" /\ op[g] = "read" /\ lba'[g] = lba[g]
    BY <1>0, <1>3, <2>2 DEF BlkWrite, Begin, Goto
  <2>4. seen'[g] = IF lba[g] = d THEN seen[g] \cup {blkCalls + 1} ELSE seen[g]
    BY <1>3, <2>3 DEF BlkWrite
  <2>5. PICK b \in Sectors : b = lba[g]
    BY <1>0
  <2>6. Current(b) \subseteq seen[g]
    BY <2>3, <2>5 DEF SeenInv
  <2>7. Current(b)' \subseteq seen'[g]
    BY <2>1, <2>4, <2>5, <2>6
  <2>8. QED
    BY <2>3, <2>5, <2>7
<1>4. ASSUME NEW h \in BlkHarts, UpdateCache(h)
      PROVE  Current(lba[g])' \subseteq seen'[g]
  <2>1. \A b \in Sectors : Current(b)' \subseteq Current(b)
    BY <1>0, <1>4, UpdateSetsCurrent
  <2>2. pc[g] # "idle" /\ op[g] = "read" /\ lba'[g] = lba[g] /\ seen'[g] = seen[g]
    BY <1>0, <1>4 DEF UpdateCache, Goto
  <2>3. QED
    BY <1>1, <2>1, <2>2
<1>5. ASSUME NEW h \in BlkHarts, Quiet(h)
      PROVE  Current(lba[g])' \subseteq seen'[g]
  <2>1. \A b \in Sectors : Current(b)' = Current(b)
    BY <1>5, QuietKeepsCurrent
  <2>2. seen' = seen /\ pc[h] # "idle"
    BY <1>5 DEF Quiet, InstallRead, Ahead, InstallAhead, BlkReturn, Lock, Submit, Complete,
                Timeout, Unlock, Goto, history
  <2>3. pc[g] # "idle" /\ op[g] = "read" /\ lba'[g] = lba[g]
    <3>1. CASE Ahead(h)
      <4>1. \/ op' = op /\ lba' = lba
            \/ op' = [op EXCEPT ![h] = "ahead"] /\ lba' = [lba EXCEPT ![h] = lba[h] + 1]
        BY <3>1 DEF Ahead
      <4>2. g # h => pc'[g] = pc[g]
        BY <1>0, <3>1 DEF Ahead, Goto
      <4>3. QED
        BY <1>0, <2>2, <4>1, <4>2
    <3>2. CASE ~Ahead(h)
      <4>1. op' = op /\ lba' = lba
        BY <1>5, <3>2 DEF Quiet, InstallRead, InstallAhead, BlkReturn, Lock, Submit, Complete,
                          Timeout, Unlock
      <4>2. \E p : pc' = [pc EXCEPT ![h] = p]
        BY <1>5, <3>2 DEF Quiet, InstallRead, InstallAhead, BlkReturn, Lock, Submit, Complete,
                          Timeout, Unlock, Goto
      <4>3. QED
        BY <1>0, <2>2, <4>1, <4>2
    <3>3. QED
      BY <3>1, <3>2
  <2>4. QED
    BY <1>1, <2>1, <2>2, <2>3
<1>6. CASE \/ \E r \in pending : Answer(r)
           \/ OnIrq
           \/ UNCHANGED blkVars
  <2>1. UNCHANGED <<hartVars, latest, seen>>
    BY <1>6 DEF Answer, OnIrq, blkVars, history
  <2>2. QED
    BY <1>1, <2>1, DeviceKeepsCurrent DEF hartVars
<1>7. QED
  BY <1>2, <1>3, <1>4, <1>5, <1>6, StepCases

----------------------------------------------------------------------------
(* The driver's buffers *)

\* Without a time-out, the device has a request only while its hart polls, and
\* one only.
LEMMA NothingLeft ==
    ASSUME BlkTypeOK, LockInv, InFlight, timeouts = 0
    PROVE  /\ used = last_used \/ pending = {}
           /\ \A r \in pending : pending \ {r} = {}
           /\ (\A h \in BlkHarts : pc[h] # "poll") => pending = {} /\ used = last_used
<1>0. /\ used \in Nat /\ last_used \in 0 .. used
      /\ IsFiniteSet(pending) /\ Cardinality(pending) \in Nat
      /\ Cardinality(pending) = 0 <=> pending = {}
  BY FS_CardinalityType, FS_EmptySet DEF BlkTypeOK
<1>1. ASSUME NEW r \in pending
      PROVE  pending \ {r} = {}
  <2>1. Cardinality(pending \ {r}) = Cardinality(pending) - 1 /\ IsFiniteSet(pending \ {r})
    BY <1>0, FS_RemoveElement
  <2>2. Cardinality(pending) <= 1
    BY <1>0 DEF InFlight
  <2>3. Cardinality(pending \ {r}) \in Nat
    BY <2>1, FS_CardinalityType
  <2>4. Cardinality(pending \ {r}) = 0
    BY <1>0, <2>1, <2>2, <2>3
  <2>5. QED
    BY <2>1, <2>4, FS_EmptySet
<1>2. used = last_used \/ Cardinality(pending) = 0
  BY <1>0 DEF InFlight
<1>3. (\A h \in BlkHarts : pc[h] # "poll") => Cardinality(pending) = 0 /\ used = last_used
  BY <1>0 DEF InFlight
<1>4. QED
  BY <1>0, <1>1, <1>2, <1>3

LEMMA DeviceInit == BlkInit => DeviceInv
BY DEF BlkInit, DeviceInv, Answered

LEMMA DeviceStep ==
    BlkTypeOK /\ LockInv /\ InFlight /\ DeviceInv /\ [BlkNext]_blkVars => DeviceInv'
<1> SUFFICES ASSUME BlkTypeOK, LockInv, InFlight, DeviceInv, [BlkNext]_blkVars PROVE DeviceInv'
  OBVIOUS
<1> DEFINE ForHart(h) ==
      /\ pc[h] = "poll" =>
           \A r \in pending : /\ r.write <=> op[h] = "write"
                              /\ r.lba = lba[h]
                              /\ r.write => buf = val[h]
      /\ pc[h] = "poll" /\ used # last_used => stb = 0
      /\ pc[h] \in {"copy", "fetched"} => ok[h]
      /\ Answered(h) => dev[lba[h]] = IF op[h] = "write" THEN val[h] ELSE buf
<1> SUFFICES ASSUME timeouts' = 0, NEW h \in BlkHarts
             PROVE  ForHart(h)'
  BY DEF DeviceInv
<1>0. /\ pc \in [BlkHarts -> Places] /\ op \in [BlkHarts -> {"read", "ahead", "write"}]
      /\ lba \in [BlkHarts -> Sectors] /\ val \in [BlkHarts -> Versions]
      /\ ok \in [BlkHarts -> BOOLEAN] /\ dev \in [Sectors -> Versions]
      /\ used \in Nat /\ last_used \in Nat /\ timeouts \in Nat
  BY BlkDevAssumption DEF BlkTypeOK
<1>1. timeouts = 0
  BY <1>0, RacedGrows
<1>2. ForHart(h)
  BY <1>1 DEF DeviceInv
<1>3. ASSUME UNCHANGED driverVars, pc'[h] = pc[h], op'[h] = op[h], lba'[h] = lba[h],
             val'[h] = val[h], ok'[h] = ok[h]
      PROVE  ForHart(h)'
  BY <1>2, <1>3 DEF driverVars, Answered
<1>4. ASSUME NEW g \in BlkHarts, NEW b \in Sectors, BlkRead(g, b) \/ BlkWrite(g, b)
      PROVE  ForHart(h)'
  <2>1. CASE g = h
    <3>1. pc'[h] \in {"lock", "return"}
      BY <1>0, <1>4, <2>1 DEF BlkRead, BlkWrite, Goto
    <3>2. QED
      BY <3>1 DEF Answered
  <2>2. CASE g # h
    <3>1. /\ UNCHANGED driverVars /\ pc'[h] = pc[h] /\ op'[h] = op[h] /\ lba'[h] = lba[h]
          /\ val'[h] = val[h] /\ ok'[h] = ok[h]
      BY <1>0, <1>4, <2>2 DEF BlkRead, BlkWrite, Begin, Goto
    <3>2. QED
      BY <1>3, <3>1
  <2>3. QED
    BY <2>1, <2>2
<1>5. ASSUME NEW r \in pending, Answer(r)
      PROVE  ForHart(h)'
  <2>0. PICK p \in BlkHarts : pc[p] = "poll"
    BY <1>1, NothingLeft
  <2>1. pending' = {} /\ UNCHANGED hartVars /\ stb' = 0
    BY <1>1, <1>5, NothingLeft DEF Answer
  <2>2. drv = p
    BY <2>0 DEF LockInv, InDriver
  <2>3. CASE pc[h] \in InDriver
    <3>1. h = p
      BY <2>2, <2>3 DEF LockInv
    <3>2. /\ r.write <=> op[h] = "write"
          /\ r.lba = lba[h]
          /\ r.write => buf = val[h]
      BY <1>2, <2>0, <3>1
    <3>3. dev'[lba[h]] = IF op[h] = "write" THEN val[h] ELSE buf'
      BY <1>0, <1>5, <3>2 DEF Answer
    <3>4. pc'[h] = "poll" /\ op'[h] = op[h] /\ lba'[h] = lba[h] /\ val'[h] = val[h]
      BY <2>0, <2>1, <3>1 DEF hartVars
    <3>5. QED
      BY <2>1, <3>3, <3>4 DEF Answered
  <2>4. CASE pc[h] \notin InDriver
    <3>1. pc'[h] = pc[h] /\ ok'[h] = ok[h]
      BY <2>1 DEF hartVars
    <3>2. QED
      BY <1>2, <2>4, <3>1 DEF InDriver, Answered
  <2>5. QED
    BY <2>3, <2>4
<1>6. CASE OnIrq \/ UNCHANGED blkVars
  BY <1>2, <1>6 DEF OnIrq, blkVars, driverVars, hartVars, Answered
<1>7. ASSUME NEW g \in BlkHarts, BlkStep(g)
      PROVE  ForHart(h)'
  <2>1. CASE InstallRead(g) \/ Ahead(g) \/ InstallAhead(g) \/ UpdateCache(g) \/ BlkReturn(g)
    <3>1. CASE g = h
      <4>1. pc'[h] \in {"idle", "lock", "return", "ahead"}
        BY <1>0, <2>1, <3>1 DEF InstallRead, Ahead, InstallAhead, UpdateCache, BlkReturn, Goto
      <4>2. QED
        BY <4>1 DEF Answered
    <3>2. CASE g # h
      <4>1. UNCHANGED driverVars /\ pc'[h] = pc[h]
        BY <1>0, <2>1, <3>2 DEF InstallRead, Ahead, InstallAhead, UpdateCache, BlkReturn, Goto
      <4>2. op'[h] = op[h] /\ lba'[h] = lba[h] /\ val'[h] = val[h] /\ ok'[h] = ok[h]
        <5>1. CASE InstallRead(g)
          BY <1>0, <3>2, <5>1 DEF InstallRead
        <5>2. CASE Ahead(g)
          BY <1>0, <3>2, <5>2 DEF Ahead
        <5>3. CASE InstallAhead(g) \/ UpdateCache(g) \/ BlkReturn(g)
          BY <5>3 DEF InstallAhead, UpdateCache, BlkReturn
        <5>4. QED
          BY <2>1, <5>1, <5>2, <5>3
      <4>3. QED
        BY <1>3, <4>1, <4>2
    <3>3. QED
      BY <3>1, <3>2
  <2>2. CASE Lock(g)
    <3>1. CASE g = h
      <4>1. pc'[h] = "submit"
        BY <1>0, <2>2, <3>1 DEF Lock, Goto
      <4>2. QED
        BY <4>1 DEF Answered
    <3>2. CASE g # h
      <4>1. /\ pc'[h] = pc[h] /\ UNCHANGED <<op, lba, val, ok>>
            /\ UNCHANGED <<buf, stb, used, last_used, pending, dev>>
        BY <1>0, <2>2, <3>2 DEF Lock, Goto
      <4>2. QED
        BY <1>2, <4>1 DEF Answered
    <3>3. QED
      BY <3>1, <3>2
  <2>3. CASE Submit(g)
    <3>1. drv = g
      BY <2>3 DEF Submit, Goto, LockInv, InDriver
    <3>2. \A p \in BlkHarts : pc[p] # "poll"
      BY <2>3, <3>1 DEF Submit, Goto, LockInv, InDriver
    <3>3. pending = {} /\ used = last_used
      BY <1>1, <3>2, NothingLeft
    <3>4. UNCHANGED <<op, lba, val, ok, used, last_used, dev>>
      BY <2>3 DEF Submit
    <3>5. CASE g = h
      <4>1. pc'[h] = "poll"
        BY <1>0, <2>3, <3>5 DEF Submit, Goto
      <4>2. pending' = {[hart |-> h, call |-> blkCalls, write |-> op[h] = "write", lba |-> lba[h]]}
        BY <2>3, <3>3, <3>5 DEF Submit
      <4>3. op[h] = "write" => buf' = val[h]
        BY <2>3, <3>5 DEF Submit
      <4>4. ASSUME NEW r \in pending'
            PROVE  (r.write <=> op'[h] = "write") /\ r.lba = lba'[h] /\ (r.write => buf' = val'[h])
        <5>1. r.write = (op[h] = "write") /\ r.lba = lba[h]
          BY <4>2, <4>4
        <5>2. r.write <=> op[h] = "write"
          BY <5>1
        <5>3. op'[h] = op[h] /\ lba'[h] = lba[h] /\ val'[h] = val[h]
          BY <3>4
        <5>4. QED
          BY <4>3, <5>1, <5>2, <5>3
      <4>5. QED
        BY <3>3, <3>4, <4>1, <4>4 DEF Answered
    <3>6. CASE g # h
      <4>1. pc'[h] = pc[h] /\ pc[h] \notin InDriver
        BY <1>0, <2>3, <3>1, <3>6 DEF Submit, Goto, LockInv
      <4>2. QED
        BY <1>2, <3>4, <4>1 DEF InDriver, Answered
    <3>7. QED
      BY <3>5, <3>6
  <2>4. CASE Complete(g)
    <3>1. /\ drv = g /\ used # last_used /\ pc[g] = "poll"
          /\ UNCHANGED <<op, lba, val, dev, buf>>
      BY <2>4 DEF Complete, Goto, LockInv, InDriver
    <3>2. CASE g = h
      <4>1. pc'[h] = "copy" /\ ok'[h] = (stb = 0)
        BY <1>0, <2>4, <3>2 DEF Complete, Goto
      <4>2. stb = 0 /\ dev[lba[h]] = IF op[h] = "write" THEN val[h] ELSE buf
        BY <1>2, <3>1, <3>2 DEF Answered
      <4>3. QED
        BY <3>1, <4>1, <4>2
    <3>3. CASE g # h
      <4>1. pc'[h] = pc[h] /\ pc[h] \notin InDriver /\ ok'[h] = ok[h]
        BY <1>0, <2>4, <3>1, <3>3 DEF Complete, Goto, LockInv
      <4>2. QED
        BY <1>2, <4>1 DEF InDriver, Answered
    <3>4. QED
      BY <3>2, <3>3
  <2>5. CASE Timeout(g)
    BY <1>0, <1>1, <2>5 DEF Timeout
  <2>6. CASE Unlock(g)
    <3>1. drv = g /\ UNCHANGED ok
      BY <2>6 DEF Unlock, Goto, LockInv, InDriver
    <3>2. CASE g = h
      <4>1. pc[h] = "copy" /\ pc'[h] = "fetched"
        BY <1>0, <2>6, <3>2 DEF Unlock, Goto
      <4>2. QED
        BY <1>2, <3>1, <4>1 DEF Answered
    <3>3. CASE g # h
      <4>1. pc'[h] = pc[h] /\ pc[h] \notin InDriver
        BY <1>0, <2>6, <3>1, <3>3 DEF Unlock, Goto, LockInv
      <4>2. QED
        BY <1>2, <3>1, <4>1 DEF InDriver, Answered
    <3>4. QED
      BY <3>2, <3>3
  <2>7. QED
    BY <1>7, <2>1, <2>2, <2>3, <2>4, <2>5, <2>6 DEF BlkStep
<1>8. QED
  BY <1>4, <1>5, <1>6, <1>7 DEF BlkNext

----------------------------------------------------------------------------
(* Every copy is current *)

LEMMA CopiesInit == BlkInit => DeviceCurrent /\ CacheCurrent /\ FetchedCurrent
BY DEF BlkInit, DeviceCurrent, CacheCurrent, FetchedCurrent, Current, EmptySlot, Slots

\* The sector a request writes is being written by its hart, with what is in DATA.
LEMMA AnswerWrites ==
    ASSUME BlkTypeOK, LockInv, InFlight, DeviceInv, timeouts = 0, NEW r \in pending, Answer(r)
    PROVE  \E p \in BlkHarts :
             /\ pc[p] = "poll" /\ r.lba = lba[p] /\ r.lba \in Sectors
             /\ r.write => p \in Writing(r.lba) /\ dev' = [dev EXCEPT ![r.lba] = val[p]]
             /\ ~r.write => dev' = dev
<1>1. PICK p \in BlkHarts : pc[p] = "poll"
  BY NothingLeft
<1>2. /\ r.write => op[p] = "write" /\ buf = val[p]
      /\ r.lba = lba[p]
  BY <1>1 DEF DeviceInv
<1>3. r.lba \in Sectors
  BY DEF BlkTypeOK, Requests
<1>4. QED
  BY <1>1, <1>2, <1>3 DEF Answer, Writing

LEMMA DeviceCurrentStep ==
    /\ BlkTypeOK /\ LockInv /\ InFlight /\ DeviceInv /\ RacesSeen
    /\ DeviceCurrent /\ FetchedCurrent /\ [BlkNext]_blkVars
    => DeviceCurrent'
<1> SUFFICES ASSUME BlkTypeOK, LockInv, InFlight, DeviceInv, RacesSeen, DeviceCurrent,
                    FetchedCurrent, [BlkNext]_blkVars
             PROVE  DeviceCurrent'
  OBVIOUS
<1> SUFFICES ASSUME timeouts' = 0, NEW b \in Sectors, b \notin raced'
             PROVE  dev'[b] \in Current(b)'
  BY DEF DeviceCurrent, Sectors
<1>0. timeouts = 0 /\ b \notin raced
  BY BlkDevAssumption, RacedGrows DEF BlkTypeOK
<1>1. dev[b] \in Current(b)
  BY <1>0 DEF DeviceCurrent
<1>2. ASSUME NEW h \in BlkHarts, NEW d \in Sectors, BlkRead(h, d)
      PROVE  dev'[b] \in Current(b)'
  <2>1. dev' = dev
    BY <1>2 DEF BlkRead, driverVars
  <2>2. QED
    BY <1>1, <1>2, <2>1, ReadKeepsCurrent
<1>3. ASSUME NEW h \in BlkHarts, NEW d \in Sectors, BlkWrite(h, d)
      PROVE  dev'[b] \in Current(b)'
  <2>1. dev' = dev
    BY <1>3 DEF BlkWrite, driverVars
  <2>2. Current(b) \subseteq Current(b)'
    BY <1>3, WriteAddsCurrent
  <2>3. QED
    BY <1>1, <2>1, <2>2
<1>4. ASSUME NEW h \in BlkHarts, UpdateCache(h)
      PROVE  dev'[b] \in Current(b)'
  <2>1. dev' = dev /\ pc[h] = "fetched" /\ op[h] = "write"
    BY <1>4 DEF UpdateCache, Goto, driverVars
  <2>2. CASE b = lba[h]
    <3>1. dev[b] = val[h]
      BY <1>0, <2>1, <2>2 DEF FetchedCurrent
    <3>2. h \in Writing(b)
      BY <1>4, <2>2, UpdateSetsCurrent
    <3>3. Writing(b) \subseteq {h}
      BY <1>0, <3>2 DEF RacesSeen
    <3>4. Current(b)' = {val[h]}
      BY <1>4, <2>2, <3>3, UpdateSetsCurrent
    <3>5. QED
      BY <2>1, <3>1, <3>4
  <2>3. CASE b # lba[h]
    <3>1. lba[h] \in Sectors
      BY DEF BlkTypeOK
    <3>2. Current(b)' = Current(b)
      BY <1>4, <2>3, <3>1, UpdateSetsCurrent
    <3>3. QED
      BY <1>1, <2>1, <3>2
  <2>4. QED
    BY <2>2, <2>3
<1>5. ASSUME NEW h \in BlkHarts, Quiet(h)
      PROVE  dev'[b] \in Current(b)'
  <2>1. dev' = dev
    BY <1>5 DEF Quiet, InstallRead, Ahead, InstallAhead, BlkReturn, Lock, Submit, Complete,
                Timeout, Unlock, driverVars
  <2>2. QED
    BY <1>1, <1>5, <2>1, QuietKeepsCurrent
<1>6. ASSUME NEW r \in pending, Answer(r)
      PROVE  dev'[b] \in Current(b)'
  <2>1. Current(b)' = Current(b)
    BY <1>6, DeviceKeepsCurrent DEF Answer, history
  <2>2. PICK p \in BlkHarts :
             /\ r.write => p \in Writing(r.lba) /\ dev' = [dev EXCEPT ![r.lba] = val[p]]
             /\ ~r.write => dev' = dev
    BY <1>0, <1>6, AnswerWrites
  <2>3. dev' = dev \/ (dev' = [dev EXCEPT ![r.lba] = val[p]] /\ val[p] \in Current(r.lba))
    BY <2>2 DEF Current
  <2>4. dev'[b] = dev[b] \/ (b = r.lba /\ dev'[b] = val[p] /\ val[p] \in Current(b))
    BY <2>3 DEF BlkTypeOK
  <2>5. QED
    BY <1>1, <2>1, <2>4
<1>7. CASE OnIrq \/ UNCHANGED blkVars
  <2>1. dev' = dev /\ UNCHANGED <<hartVars, latest>>
    BY <1>7 DEF OnIrq, blkVars, driverVars, history
  <2>2. QED
    BY <1>1, <2>1, DeviceKeepsCurrent
<1>8. QED
  BY <1>2, <1>3, <1>4, <1>5, <1>6, <1>7, StepCases

\* An installation, or a reference, of current contents.
LEMMA InstallCurrent ==
    ASSUME BlkTypeOK, NEW b \in Sectors, NEW v \in Versions, NEW flag \in BOOLEAN,
           Install(b, v, flag), NEW c \in Sectors, b = c => v \in Current(c)',
           \A i \in Slots : cache[i].valid /\ cache[i].lba = c => b = c \/ cache[i].data \in Current(c)',
           ~Cached(b)
    PROVE  \A i \in Slots : cache'[i].valid /\ cache'[i].lba = c => cache'[i].data \in Current(c)'
<1>1. PICK s \in Slots :
        /\ cache'[s].lba = b /\ cache'[s].data = v
        /\ \A i \in Slots \ {s} : /\ cache'[i].lba = cache[i].lba
                                  /\ cache'[i].valid = cache[i].valid
                                  /\ cache'[i].data = cache[i].data
  BY InstallEffect
<1>2. \A i \in Slots : cache[i].valid => cache[i].lba # b
  BY CachedMeans
<1>3. QED
  BY <1>1, <1>2

LEMMA ReferCurrent ==
    ASSUME BlkTypeOK, NEW b \in Sectors, NEW v \in Versions, Refer(b, v),
           NEW c \in Sectors, b = c => v \in Current(c)',
           \A i \in Slots : cache[i].valid /\ cache[i].lba = c => b = c \/ cache[i].data \in Current(c)'
    PROVE  \A i \in Slots : cache'[i].valid /\ cache'[i].lba = c => cache'[i].data \in Current(c)'
BY ReferEffect

LEMMA CacheCurrentStep ==
    /\ BlkTypeOK /\ LockInv /\ RacesSeen /\ DeviceInv
    /\ CacheCurrent /\ FetchedCurrent /\ [BlkNext]_blkVars
    => CacheCurrent'
<1> SUFFICES ASSUME BlkTypeOK, LockInv, RacesSeen, DeviceInv, CacheCurrent,
                    FetchedCurrent, [BlkNext]_blkVars
             PROVE  CacheCurrent'
  OBVIOUS
<1> DEFINE Stands(c) ==
      \A i \in Slots : cache'[i].valid /\ cache'[i].lba = c => cache'[i].data \in Current(c)'
<1> SUFFICES ASSUME timeouts' = 0, NEW c \in Sectors, c \notin raced'
             PROVE  Stands(c)
  BY DEF CacheCurrent, Sectors, Slots
<1>0. timeouts = 0 /\ c \notin raced
  BY BlkDevAssumption, RacedGrows DEF BlkTypeOK
<1>1. \A i \in Slots : cache[i].valid /\ cache[i].lba = c => cache[i].data \in Current(c)
  BY <1>0 DEF CacheCurrent
<1>2. ASSUME cache' = cache, Current(c) \subseteq Current(c)'
      PROVE  Stands(c)
  BY <1>1, <1>2
<1>3. ASSUME NEW h \in BlkHarts, NEW d \in Sectors, BlkRead(h, d)
      PROVE  Stands(c)
  <2>1. Current(c)' = Current(c)
    BY <1>3, ReadKeepsCurrent
  <2>2. CASE Cached(d)
    <3>1. /\ Refer(d, Data(d)) /\ Data(d) \in Versions
          /\ \E i \in Slots : cache[i].valid /\ cache[i].lba = d /\ Data(d) = cache[i].data
      BY <1>3, <2>2, DataIsHeld DEF BlkRead
    <3>2. d = c => Data(d) \in Current(c)'
      BY <1>1, <2>1, <3>1
    <3>3. QED
      BY <1>1, <2>1, <3>1, <3>2, ReferCurrent
  <2>3. CASE ~Cached(d)
    BY <1>2, <1>3, <2>1, <2>3 DEF BlkRead, cacheVars
  <2>4. QED
    BY <2>2, <2>3
<1>4. ASSUME NEW h \in BlkHarts, NEW d \in Sectors, BlkWrite(h, d)
      PROVE  Stands(c)
  <2>1. Current(c) \subseteq Current(c)'
    BY <1>4, WriteAddsCurrent
  <2>2. QED
    BY <1>2, <1>4, <2>1 DEF BlkWrite, cacheVars
<1>5. ASSUME NEW h \in BlkHarts, UpdateCache(h)
      PROVE  Stands(c)
  <2>0. PICK d \in Sectors : d = lba[h] /\ val[h] \in Versions
    BY DEF BlkTypeOK
  <2>1. Refer(d, val[h]) \/ (~Cached(d) /\ Install(d, val[h], TRUE))
    BY <1>5, <2>0 DEF UpdateCache
  <2>2. d # c => Current(c)' = Current(c)
    BY <1>5, <2>0, UpdateSetsCurrent
  <2>3. d = c => val[h] \in Current(c)'
    <3>1. SUFFICES ASSUME d = c PROVE val[h] \in Current(c)'
      OBVIOUS
    <3>2. h \in Writing(c)
      BY <1>5, <2>0, <3>1, UpdateSetsCurrent
    <3>3. Writing(c) \subseteq {h}
      BY <1>0, <3>2 DEF RacesSeen
    <3>4. Current(c)' = {val[h]}
      BY <1>5, <2>0, <3>1, <3>3, UpdateSetsCurrent
    <3>5. QED
      BY <3>4
  <2>4. \A i \in Slots : cache[i].valid /\ cache[i].lba = c => d = c \/ cache[i].data \in Current(c)'
    BY <1>1, <2>2
  <2>5. CASE Refer(d, val[h])
    BY <2>0, <2>3, <2>4, <2>5, ReferCurrent
  <2>6. CASE ~Cached(d) /\ Install(d, val[h], TRUE)
    BY <2>0, <2>3, <2>4, <2>6, InstallCurrent
  <2>7. QED
    BY <2>1, <2>5, <2>6
<1>6. ASSUME NEW h \in BlkHarts, Quiet(h)
      PROVE  Stands(c)
  <2>0. PICK d \in Sectors : d = lba[h] /\ val[h] \in Versions
    BY DEF BlkTypeOK
  <2>1. Current(c)' = Current(c)
    BY <1>6, QuietKeepsCurrent
  <2>2. \A i \in Slots : cache[i].valid /\ cache[i].lba = c => d = c \/ cache[i].data \in Current(c)'
    BY <1>1, <2>1
  <2>3. ASSUME pc[h] = "fetched", op[h] # "write", ~Cached(d), d = c
        PROVE  val[h] \in Current(c)'
    BY <1>0, <2>0, <2>1, <2>3 DEF FetchedCurrent
  <2>4. CASE InstallRead(h)
    <3>1. /\ pc[h] = "fetched" /\ op[h] = "read"
          /\ \/ cache' = cache
             \/ Cached(d) /\ Refer(d, Data(d))
             \/ ~Cached(d) /\ Install(d, val[h], TRUE)
      BY <2>0, <2>4 DEF InstallRead, Present, Goto, cacheVars
    <3>2. CASE cache' = cache
      BY <1>2, <2>1, <3>2
    <3>3. CASE Cached(d) /\ Refer(d, Data(d))
      <4>1. /\ Data(d) \in Versions
            /\ \E i \in Slots : cache[i].valid /\ cache[i].lba = d /\ Data(d) = cache[i].data
        BY <3>3, DataIsHeld
      <4>2. d = c => Data(d) \in Current(c)'
        BY <1>1, <2>1, <4>1
      <4>3. QED
        BY <2>2, <3>3, <4>1, <4>2, ReferCurrent
    <3>4. CASE ~Cached(d) /\ Install(d, val[h], TRUE)
      BY <2>0, <2>2, <2>3, <3>1, <3>4, InstallCurrent
    <3>5. QED
      BY <3>1, <3>2, <3>3, <3>4
  <2>5. CASE InstallAhead(h)
    <3>1. /\ pc[h] = "fetched" /\ op[h] # "write"
          /\ cache' = cache \/ (~Cached(d) /\ Install(d, val[h], FALSE))
      BY <2>0, <2>5 DEF InstallAhead, Goto, cacheVars
    <3>2. CASE cache' = cache
      BY <1>2, <2>1, <3>2
    <3>3. CASE ~Cached(d) /\ Install(d, val[h], FALSE)
      BY <2>0, <2>2, <2>3, <3>1, <3>3, InstallCurrent
    <3>4. QED
      BY <3>1, <3>2, <3>3
  <2>6. CASE Ahead(h) \/ BlkReturn(h) \/ Lock(h) \/ Submit(h) \/ Complete(h) \/ Timeout(h) \/ Unlock(h)
    BY <1>2, <2>1, <2>6 DEF Ahead, BlkReturn, Lock, Submit, Complete, Timeout, Unlock, cacheVars
  <2>7. QED
    BY <1>6, <2>4, <2>5, <2>6 DEF Quiet
<1>7. CASE \/ \E r \in pending : Answer(r)
           \/ OnIrq
           \/ UNCHANGED blkVars
  <2>1. UNCHANGED <<hartVars, latest>> /\ cache' = cache
    BY <1>7 DEF Answer, OnIrq, blkVars, history, cacheVars
  <2>2. QED
    BY <1>2, <2>1, DeviceKeepsCurrent
<1>8. QED
  BY <1>3, <1>4, <1>5, <1>6, <1>7, StepCases

\* A block that is being fetched stays cached, or is marked as raced.
LEMMA CachedStays ==
    ASSUME BlkTypeOK, [BlkNext]_blkVars, NEW c \in Sectors, c \notin raced',
           Cached(c), Fetching(c)
    PROVE  Cached(c)'
<1>0. /\ \E i \in Slots : cache[i].valid /\ cache[i].lba = c
      /\ Cached(c)' <=> \E i \in Slots : cache'[i].valid /\ cache'[i].lba = c
  <2>1. cache' \in [Slots -> SlotType]
    BY BlkTypeStep DEF BlkTypeOK, Slots, SlotType
  <2>2. QED
    BY <2>1, CachedMeans DEF Cached, Holding
<1>1. ASSUME cache' = cache
      PROVE  Cached(c)'
  BY <1>0, <1>1
<1>2. ASSUME NEW b \in Sectors, NEW v \in Versions, Refer(b, v)
      PROVE  Cached(c)'
  BY <1>0, <1>2, ReferEffect
<1>3. ASSUME NEW b \in Sectors, NEW v \in Versions, NEW flag \in BOOLEAN, Install(b, v, flag)
      PROVE  Cached(c)'
  <2>1. PICK s \in Slots :
          /\ cache'[s].lba = b /\ cache'[s].valid
          /\ \A i \in Slots \ {s} : /\ cache'[i].lba = cache[i].lba
                                    /\ cache'[i].valid = cache[i].valid
          /\ raced' = IF cache[s].valid /\ Fetching(cache[s].lba)
                      THEN raced \cup {cache[s].lba} ELSE raced
    BY <1>3, InstallEffect
  <2>2. PICK i \in Slots : cache[i].valid /\ cache[i].lba = c
    BY <1>0
  <2>3. i # s
    BY <2>1, <2>2
  <2>4. QED
    BY <1>0, <2>1, <2>2, <2>3
<1>4. ASSUME NEW h \in BlkHarts, NEW b \in Sectors, BlkRead(h, b)
      PROVE  Cached(c)'
  <2>1. cache' = cache \/ (Refer(b, Data(b)) /\ Data(b) \in Versions)
    BY <1>4, DataIsHeld DEF BlkRead, cacheVars
  <2>2. QED
    BY <1>1, <1>2, <2>1
<1>5. ASSUME NEW h \in BlkHarts, BlkStep(h)
      PROVE  Cached(c)'
  <2>0. lba[h] \in Sectors /\ val[h] \in Versions
    BY DEF BlkTypeOK
  <2>1. CASE InstallRead(h)
    <3>1. \/ cache' = cache
          \/ Refer(lba[h], Data(lba[h])) /\ Data(lba[h]) \in Versions
          \/ Install(lba[h], val[h], TRUE)
      BY <2>0, <2>1, DataIsHeld DEF InstallRead, Present, cacheVars
    <3>2. QED
      BY <1>1, <1>2, <1>3, <2>0, <3>1
  <2>2. CASE InstallAhead(h)
    <3>1. cache' = cache \/ Install(lba[h], val[h], FALSE)
      BY <2>2 DEF InstallAhead, cacheVars
    <3>2. QED
      BY <1>1, <1>3, <2>0, <3>1
  <2>3. CASE UpdateCache(h)
    <3>1. Refer(lba[h], val[h]) \/ Install(lba[h], val[h], TRUE)
      BY <2>3 DEF UpdateCache
    <3>2. QED
      BY <1>2, <1>3, <2>0, <3>1
  <2>4. CASE Ahead(h) \/ BlkReturn(h) \/ Lock(h) \/ Submit(h) \/ Complete(h) \/ Timeout(h) \/ Unlock(h)
    BY <1>1, <2>4 DEF Ahead, BlkReturn, Lock, Submit, Complete, Timeout, Unlock, cacheVars
  <2>5. QED
    BY <1>5, <2>1, <2>2, <2>3, <2>4 DEF BlkStep
<1>6. CASE \/ \E h \in BlkHarts, b \in Sectors : BlkWrite(h, b)
           \/ \E r \in pending : Answer(r)
           \/ OnIrq
           \/ UNCHANGED blkVars
  BY <1>1, <1>6 DEF BlkWrite, Answer, OnIrq, blkVars, cacheVars
<1>7. QED
  BY <1>4, <1>5, <1>6 DEF BlkNext

LEMMA FetchedCurrentStep ==
    /\ BlkTypeOK /\ LockInv /\ InFlight /\ DeviceInv /\ RacesSeen /\ SeenInv
    /\ DeviceCurrent /\ CacheCurrent /\ FetchedCurrent /\ [BlkNext]_blkVars
    => FetchedCurrent'
<1> SUFFICES ASSUME BlkTypeOK, LockInv, InFlight, DeviceInv, RacesSeen, SeenInv, DeviceCurrent,
                    CacheCurrent, FetchedCurrent, [BlkNext]_blkVars
             PROVE  FetchedCurrent'
  OBVIOUS
<1> DEFINE ForHart(g) ==
      /\ pc[g] = "fetched" /\ op[g] = "write" => dev[lba[g]] = val[g]
      /\ pc[g] = "fetched" /\ op[g] # "write"
           => val[g] \in Current(lba[g]) \/ Cached(lba[g])
      /\ pc[g] \in {"fetched", "return", "ahead"} /\ op[g] = "read" => val[g] \in seen[g]
<1> SUFFICES ASSUME timeouts' = 0, NEW g \in BlkHarts, lba'[g] \notin raced'
             PROVE  ForHart(g)'
  BY DEF FetchedCurrent
<1>0. /\ pc \in [BlkHarts -> Places] /\ op \in [BlkHarts -> {"read", "ahead", "write"}]
      /\ lba \in [BlkHarts -> Sectors] /\ val \in [BlkHarts -> Versions]
      /\ ok \in [BlkHarts -> BOOLEAN] /\ dev \in [Sectors -> Versions]
      /\ seen \in [BlkHarts -> SUBSET Versions]
  BY DEF BlkTypeOK
<1>1. timeouts = 0 /\ raced \subseteq raced'
  BY BlkDevAssumption, RacedGrows DEF BlkTypeOK
<1>2. lba[g] \notin raced => ForHart(g)
  BY <1>1 DEF FetchedCurrent
\* A step that leaves the hart alone, and what is current of its block.
<1>3. ASSUME NEW b \in Sectors, b = lba[g], dev'[b] = dev[b], Current(b) \subseteq Current(b)',
             pc'[g] = pc[g], op'[g] = op[g], lba'[g] = lba[g], val'[g] = val[g],
             seen[g] \subseteq seen'[g]
      PROVE  ForHart(g)'
  <2>1. b \notin raced' /\ ForHart(g)
    BY <1>1, <1>2, <1>3
  <2>2. pc[g] = "fetched" /\ op[g] # "write" /\ Cached(b) => Cached(b)'
    BY <1>3, <2>1, CachedStays DEF Fetching
  <2>3. pc[g] = "fetched" /\ op[g] # "write" => val[g] \in Current(b)' \/ Cached(b)'
    BY <1>3, <2>1, <2>2
  <2>4. pc'[g] = "fetched" /\ op'[g] # "write" => val'[g] \in Current(lba[g])' \/ Cached(lba[g])'
    <3>1. lba'[g] = b
      BY <1>3
    <3>2. QED
      BY <1>3, <2>3, <3>1
  <2>5. QED
    BY <1>3, <2>1, <2>4
<1>4. ASSUME pc'[g] \notin {"fetched", "return", "ahead"}
      PROVE  ForHart(g)'
  BY <1>4
<1>5. ASSUME NEW h \in BlkHarts, NEW d \in Sectors, BlkRead(h, d)
      PROVE  ForHart(g)'
  <2>0. dev' = dev /\ \A b \in Sectors : Current(b)' = Current(b)
    BY <1>5, ReadKeepsCurrent DEF BlkRead, driverVars
  <2>1. CASE g = h
    <3>1. CASE Cached(d)
      <4>1. /\ lba'[g] = d /\ op'[g] = "read" /\ pc'[g] = "return" /\ val'[g] = Data(d)
            /\ seen'[g] = Current(d)
        BY <1>0, <1>5, <2>1, <3>1 DEF BlkRead, Begin, Goto
      <4>2. d \notin raced
        BY <1>1, <4>1
      <4>3. Data(d) \in Current(d)
        BY <1>1, <3>1, <4>2, DataIsHeld DEF CacheCurrent
      <4>4. QED
        BY <4>1, <4>3
    <3>2. CASE ~Cached(d)
      <4>1. pc'[g] = "lock"
        BY <1>0, <1>5, <2>1, <3>2 DEF BlkRead, Goto
      <4>2. QED
        BY <1>4, <4>1
    <3>3. QED
      BY <3>1, <3>2
  <2>2. CASE g # h
    <3>1. /\ pc'[g] = pc[g] /\ op'[g] = op[g] /\ lba'[g] = lba[g] /\ val'[g] = val[g]
          /\ seen'[g] = seen[g]
      BY <1>0, <1>5, <2>2 DEF BlkRead, Begin, Goto
    <3>2. PICK b \in Sectors : b = lba[g]
      BY <1>0
    <3>3. QED
      BY <1>3, <2>0, <3>1, <3>2
  <2>3. QED
    BY <2>1, <2>2
<1>6. ASSUME NEW h \in BlkHarts, NEW d \in Sectors, BlkWrite(h, d)
      PROVE  ForHart(g)'
  <2>0. /\ dev' = dev
        /\ Current(d)' = Current(d) \cup {blkCalls + 1}
        /\ \A b \in Sectors \ {d} : Current(b)' = Current(b)
    BY <1>6, WriteAddsCurrent DEF BlkWrite, driverVars
  <2>1. CASE g = h
    <3>1. pc'[g] = "lock"
      BY <1>0, <1>6, <2>1 DEF BlkWrite, Goto
    <3>2. QED
      BY <1>4, <3>1
  <2>2. CASE g # h
    <3>1. pc'[g] = pc[g] /\ op'[g] = op[g] /\ lba'[g] = lba[g] /\ val'[g] = val[g]
      BY <1>0, <1>6, <2>2 DEF BlkWrite, Begin, Goto
    <3>2. seen[g] \subseteq seen'[g]
      BY <1>6 DEF BlkWrite
    <3>3. PICK b \in Sectors : b = lba[g]
      BY <1>0
    <3>4. Current(b) \subseteq Current(b)'
      BY <2>0
    <3>5. QED
      BY <1>3, <2>0, <3>1, <3>2, <3>3, <3>4
  <2>3. QED
    BY <2>1, <2>2
<1>7. ASSUME NEW h \in BlkHarts, UpdateCache(h)
      PROVE  ForHart(g)'
  <2>0. /\ dev' = dev /\ op' = op /\ lba' = lba /\ val' = val /\ seen' = seen
        /\ pc[h] = "fetched" /\ op[h] = "write" /\ pc' = [pc EXCEPT ![h] = "idle"]
    BY <1>7 DEF UpdateCache, Goto, driverVars
  <2>1. CASE g = h
    BY <1>0, <1>4, <2>0, <2>1
  <2>2. CASE g # h /\ lba[g] # lba[h]
    <3>1. PICK b \in Sectors : b = lba[g] /\ b # lba[h]
      BY <1>0, <2>2
    <3>2. lba[h] \in Sectors
      BY <1>0
    <3>3. Current(b)' = Current(b)
      BY <1>7, <3>1, <3>2, UpdateSetsCurrent
    <3>4. pc'[g] = pc[g]
      BY <1>0, <2>0, <2>2
    <3>5. QED
      BY <1>3, <2>0, <3>1, <3>3, <3>4
  <2>3. CASE g # h /\ lba[g] = lba[h]
    <3>0. PICK b \in Sectors : b = lba[g] /\ b = lba[h] /\ val[h] \in Versions
      BY <1>0, <2>3
    <3>1. pc'[g] = pc[g] /\ lba'[g] = b /\ b \notin raced
      BY <1>0, <1>1, <2>0, <2>3, <3>0
    <3>2. ~(pc[g] = "fetched" /\ op[g] = "write")
      BY <2>0, <2>3, <3>0, <3>1 DEF RacesSeen, Writing
    <3>3. Cached(b)'
      <4>1. (Cached(b) /\ Refer(b, val[h])) \/ Install(b, val[h], TRUE)
        BY <1>7, <3>0 DEF UpdateCache
      <4>3. cache' \in [Slots -> SlotType] /\ \E i \in Slots : cache'[i].valid /\ cache'[i].lba = b
        <5>1. CASE Install(b, val[h], TRUE)
          BY <3>0, <5>1, InstallEffect
        <5>2. CASE Cached(b) /\ Refer(b, val[h])
          <6>1. PICK i \in Slots : cache[i].valid /\ cache[i].lba = b
            BY <5>2, CachedMeans
          <6>2. cache' \in [Slots -> SlotType] /\ cache'[i].lba = b /\ cache'[i].valid
            BY <3>0, <5>2, <6>1, ReferEffect
          <6>3. QED
            BY <6>2
        <5>3. QED
          BY <4>1, <5>1, <5>2
      <4>4. QED
        BY <4>3 DEF Cached, Holding
    <3>4. Cached(lba[g])'
      BY <3>1, <3>3
    <3>5. pc[g] \in {"fetched", "return", "ahead"} /\ op[g] = "read" => val[g] \in seen[g]
      BY <1>2, <3>0, <3>1
    <3>6. QED
      BY <2>0, <3>1, <3>2, <3>4, <3>5
  <2>4. QED
    BY <2>1, <2>2, <2>3
<1>8. ASSUME NEW h \in BlkHarts, Quiet(h)
      PROVE  ForHart(g)'
  <2>0. /\ dev' = dev /\ seen' = seen
        /\ \A b \in Sectors : Current(b)' = Current(b)
    BY <1>8, QuietKeepsCurrent DEF Quiet, InstallRead, Ahead, InstallAhead, BlkReturn, Lock,
       Submit, Complete, Timeout, Unlock, driverVars, history
  <2>1. CASE g # h
    <3>1. pc'[g] = pc[g]
      <4>1. \E p : pc' = [pc EXCEPT ![h] = p]
        BY <1>8 DEF Quiet, InstallRead, Ahead, InstallAhead, BlkReturn, Lock, Submit, Complete,
           Timeout, Unlock, Goto
      <4>2. QED
        BY <1>0, <2>1, <4>1
    <3>2. op'[g] = op[g] /\ lba'[g] = lba[g] /\ val'[g] = val[g]
      <4>1. CASE InstallRead(h) \/ Unlock(h)
        BY <1>0, <2>1, <4>1 DEF InstallRead, Unlock
      <4>2. CASE Ahead(h)
        BY <1>0, <2>1, <4>2 DEF Ahead
      <4>3. CASE ~(InstallRead(h) \/ Unlock(h) \/ Ahead(h))
        BY <1>8, <4>3 DEF Quiet, InstallAhead, BlkReturn, Lock, Submit, Complete, Timeout
      <4>4. QED
        BY <4>1, <4>2, <4>3
    <3>3. PICK b \in Sectors : b = lba[g]
      BY <1>0
    <3>4. QED
      BY <1>3, <2>0, <3>1, <3>2, <3>3
  <2>2. CASE g = h /\ InstallRead(h)
    <3>1. /\ pc[g] = "fetched" /\ op[g] = "read" /\ op' = op /\ lba' = lba
          /\ pc'[g] \in {"return", "ahead"}
          /\ val'[g] = val[g] \/ (Cached(lba[g]) /\ val'[g] = Data(lba[g]))
      BY <1>0, <2>2 DEF InstallRead, Goto, Present
    <3>2. PICK b \in Sectors : b = lba[g] /\ b \notin raced
      BY <1>0, <1>1, <3>1
    <3>3. val[g] \in seen[g]
      BY <1>2, <3>1, <3>2
    <3>4. Cached(b) => Data(b) \in Current(b)
      BY <1>1, <3>2, DataIsHeld DEF CacheCurrent
    <3>5. Current(b) \subseteq seen[g]
      BY <3>1, <3>2 DEF SeenInv
    <3>6. val'[g] \in seen'[g]
      BY <2>0, <3>1, <3>2, <3>3, <3>4, <3>5
    <3>7. QED
      BY <3>1, <3>6
  <2>3. CASE g = h /\ Unlock(h)
    <3>1. /\ pc[g] = "copy" /\ op' = op /\ lba' = lba
          /\ val'[g] = IF ok[g] /\ op[g] # "write" THEN buf ELSE val[g]
      BY <1>0, <2>3 DEF Unlock, Goto
    <3>2. PICK b \in Sectors : b = lba[g] /\ lba'[g] = b /\ b \notin raced
      BY <1>0, <1>1, <3>1
    <3>3. ok[g] /\ dev[b] = IF op[g] = "write" THEN val[g] ELSE buf
      BY <1>1, <3>1, <3>2 DEF DeviceInv, Answered
    <3>4. dev[b] \in Current(b)
      BY <1>1, <3>2 DEF DeviceCurrent
    <3>5. val'[g] = dev[b]
      BY <3>1, <3>3
    <3>6. op[g] = "read" => Current(b) \subseteq seen[g]
      BY <3>1, <3>2 DEF SeenInv
    <3>7. val'[g] \in Current(b)'
      BY <2>0, <3>4, <3>5
    <3>8. val'[g] \in Current(lba[g])'
      BY <3>2, <3>7
    <3>9. dev'[lba'[g]] = val'[g]
      BY <2>0, <3>2, <3>5
    <3>10. op'[g] = "read" => val'[g] \in seen'[g]
      BY <2>0, <3>1, <3>4, <3>5, <3>6
    <3>11. QED
      BY <3>8, <3>9, <3>10
  <2>4. CASE g = h /\ ~InstallRead(h) /\ ~Unlock(h)
    <3>1. pc'[g] \in {"idle", "lock", "submit", "poll", "copy"}
      <4>1. \E p \in {"idle", "lock", "submit", "poll", "copy"} : pc' = [pc EXCEPT ![h] = p]
        BY <1>8, <2>4 DEF Quiet, Ahead, InstallAhead, BlkReturn, Lock, Submit, Complete,
           Timeout, Goto
      <4>2. QED
        BY <1>0, <2>4, <4>1
    <3>2. QED
      BY <1>4, <3>1
  <2>5. QED
    BY <2>1, <2>2, <2>3, <2>4
<1>9. ASSUME NEW r \in pending, Answer(r)
      PROVE  ForHart(g)'
  <2>0. UNCHANGED <<hartVars, latest, seen>>
    BY <1>9 DEF Answer, history
  <2>1. PICK p \in BlkHarts :
             /\ pc[p] = "poll" /\ r.lba = lba[p] /\ r.lba \in Sectors
             /\ r.write => p \in Writing(r.lba) /\ dev' = [dev EXCEPT ![r.lba] = val[p]]
             /\ ~r.write => dev' = dev
    BY <1>1, <1>9, AnswerWrites
  <2>2. PICK b \in Sectors : b = lba[g] /\ lba'[g] = b /\ b \notin raced
    BY <1>0, <1>1, <2>0 DEF hartVars
  <2>3. \A c \in Sectors : Current(c)' = Current(c)
    BY <2>0, DeviceKeepsCurrent
  <2>4. CASE dev'[b] = dev[b]
    BY <1>3, <2>0, <2>2, <2>3, <2>4 DEF hartVars
  <2>5. CASE dev'[b] # dev[b]
    <3>1. r.lba = b /\ p \in Writing(b)
      BY <1>0, <2>1, <2>2, <2>5
    <3>2. ~(pc[g] = "fetched" /\ op[g] = "write")
      <4>1. pc[g] = "fetched" /\ op[g] = "write" => g \in Writing(b)
        BY <2>2 DEF Writing
      <4>2. QED
        BY <2>1, <2>2, <3>1, <4>1 DEF RacesSeen
    <3>3. ForHart(g)
      BY <1>2, <2>2
    <3>4. pc[g] = "fetched" /\ op[g] # "write" /\ Cached(b) => Cached(b)'
      BY <1>9 DEF Answer, cacheVars, Cached, Holding
    <3>5. pc[g] = "fetched" /\ op[g] # "write" => val[g] \in Current(b)' \/ Cached(b)'
      BY <2>2, <2>3, <3>3, <3>4
    <3>6. pc[g] = "fetched" /\ op[g] # "write" => val[g] \in Current(lba[g])' \/ Cached(lba[g])'
      BY <2>2, <3>5
    <3>7. QED
      BY <2>0, <3>2, <3>3, <3>6 DEF hartVars
  <2>6. QED
    BY <2>4, <2>5
<1>10. CASE OnIrq \/ UNCHANGED blkVars
  <2>1. dev' = dev /\ UNCHANGED <<hartVars, latest, seen>>
    BY <1>10 DEF OnIrq, blkVars, driverVars, history
  <2>2. PICK b \in Sectors : b = lba[g]
    BY <1>0
  <2>3. Current(b)' = Current(b)
    BY <2>1, DeviceKeepsCurrent
  <2>4. QED
    BY <1>3, <2>1, <2>2, <2>3 DEF hartVars
<1>11. QED
  BY <1>5, <1>6, <1>7, <1>8, <1>9, <1>10, StepCases

----------------------------------------------------------------------------
(* The theorems *)

BlkInv == /\ BlkTypeOK /\ LockInv /\ FreshRequests /\ InFlight /\ OneSlot
          /\ RacesSeen /\ SeenInv /\ DeviceInv
          /\ DeviceCurrent /\ CacheCurrent /\ FetchedCurrent

LEMMA BlkInvariance == BlkSpec => []BlkInv
<1>1. BlkInit => BlkInv
  BY BlkTypeInit, LockInit, FreshInit, InFlightInit, OneSlotInit, RacesInit, SeenInit,
     DeviceInit, CopiesInit DEF BlkInv
<1>2. BlkInv /\ [BlkNext]_blkVars => BlkInv'
  BY BlkTypeStep, LockStep, FreshStep, InFlightStep, OneSlotStep, RacesStep, SeenStep,
     DeviceStep, DeviceCurrentStep, CacheCurrentStep, FetchedCurrentStep DEF BlkInv
<1>3. QED
  BY <1>1, <1>2, PTL DEF BlkSpec

\* A block is cached once; and before the first time-out a cached copy of a block
\* that no race marked, and nobody is writing, is what the device holds: "both
\* copies identical" (blk.rs), with the cases it overlooks excepted by name.
THEOREM CacheTrue == BlkSpec => []CacheIsTrue
<1>1. BlkInv => CacheIsDevice
  <2> SUFFICES ASSUME BlkInv, timeouts = 0, NEW i \in DOMAIN cache, cache[i].valid,
                      cache[i].lba \notin raced, Writing(cache[i].lba) = {}
               PROVE  cache[i].data = dev[cache[i].lba]
    BY DEF CacheIsDevice
  <2>1. i \in Slots /\ cache[i] \in SlotType
    BY CacheTyped DEF BlkInv
  <2>2. PICK b \in Sectors : b = cache[i].lba
    BY <2>1 DEF SlotType
  <2>3. Current(b) = {latest[b]}
    BY <2>2 DEF Current
  <2>4. dev[b] \in Current(b) /\ cache[i].data \in Current(b)
    BY <2>1, <2>2 DEF BlkInv, DeviceCurrent, CacheCurrent
  <2>5. QED
    BY <2>2, <2>3, <2>4
<1>2. BlkInv => OneCopy
  <2> SUFFICES ASSUME BlkInv, NEW b \in Sectors
               PROVE  Cardinality(Holding(b)) <= 1
    BY DEF OneCopy
  <2>1. \A i, j \in Holding(b) : i = j
    BY CacheTyped DEF BlkInv, Holding, OneSlot
  <2>2. Holding(b) = {} \/ \E i : Holding(b) = {i}
    BY <2>1
  <2>3. CASE Holding(b) = {}
    <3>1. Cardinality(Holding(b)) = 0
      BY <2>3, FS_EmptySet
    <3>2. QED
      BY <3>1
  <2>4. CASE \E i : Holding(b) = {i}
    <3>1. Cardinality(Holding(b)) = 1
      BY <2>4, FS_Singleton
    <3>2. QED
      BY <3>1
  <2>5. QED
    BY <2>2, <2>3, <2>4
<1>3. QED
  BY <1>1, <1>2, BlkInvariance, PTL DEF CacheIsTrue

\* The driver has one request of its own in flight and is behind the device by
\* the requests it gave up on, and before the first of those a read returns
\* contents its block had during the call.
THEOREM DriverAnswersTruly == BlkSpec => []DriverAnswers
<1>1. BlkInv => ReadsAreCurrent
  BY DEF BlkInv, ReadsAreCurrent, FetchedCurrent
<1>2. BlkInv => OneFlight
  <2> SUFFICES ASSUME BlkInv
               PROVE  OneFlight
    OBVIOUS
  <2> DEFINE polls == {h \in BlkHarts : pc[h] = "poll"}
  <2>1. polls = IF \E h \in BlkHarts : pc[h] = "poll" THEN {drv} ELSE {}
    BY DEF BlkInv, LockInv, InDriver
  <2>2. Cardinality(polls) = IF \E h \in BlkHarts : pc[h] = "poll" THEN 1 ELSE 0
    BY <2>1, FS_EmptySet, FS_Singleton
  <2>3. QED
    BY <2>2 DEF BlkInv, InFlight, OneFlight
<1>3. QED
  BY <1>1, <1>2, BlkInvariance, PTL DEF DriverAnswers, BlkInv
============================================================================
