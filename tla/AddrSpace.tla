----------------------------- MODULE AddrSpace -----------------------------
(***************************************************************************)
(* Address spaces and the frames under them (kernel/src/mem/mod.rs,        *)
(* mem/pagetable.rs, mem/frame.rs), as fork, exec, sbrk, mmap, munmap,     *)
(* exit and waitpid use them on several harts, each with its own satp and  *)
(* TLB.  All address spaces have ASID 0.                                   *)
(*                                                                         *)
(* Frames are taken one by one by whoever builds a space, so that builders *)
(* on two harts compete.  An address is counted in halves of a page, so    *)
(* that a break need not be on a page boundary.  The copy of the kernel's  *)
(* tables is two tables, so that it can fail between them, and one more    *)
(* holds the trap frame.  Charging to a control group is CgSlots.tla's.    *)
(***************************************************************************)
EXTENDS Integers, FiniteSets

CONSTANTS
    Tasks, task0,  \* tasks; task0 runs first and reaps
    Harts,
    NFrames,       \* frames of memory
    NPages,        \* user pages: 0 is the image, NPages - 1 the stack
    TableSpan,     \* pages under one table
    MaxCalls       \* bound of the model: calls of sbrk, mmap, munmap, exec

ASSUME AddrSpaceAssumption ==
    /\ task0 \in Tasks /\ 0 \notin Tasks   \* 0 is Nobody
    /\ {NFrames, NPages, TableSpan, MaxCalls} \subseteq Nat \ {0}
    /\ NPages > TableSpan /\ NPages > 2 /\ NFrames >= 9

VARIABLES
    freeFrames, \* FrameAlloc: the recycled and the untouched frames
    st,         \* task -> "none", "ready", "running", "zombie"
    space,      \* task -> [root, tabs, regs, tf, leaf]
    brk,        \* task -> p.brk, in half pages
    mbase,      \* task -> p.mmap_base, in pages
    mode,       \* hart -> "user", "idle", "build", "flush", "reap", "leave"
    cur,        \* hart -> its task, or Nobody
    job,        \* hart -> what it builds or frees
    satp,       \* hart -> root frame, or KernelRoot
    tlb,        \* hart -> set of <<page, frame>>
    \* --- history ---
    leaked,     \* frames nothing will ever free
    calls       \* calls counted by MaxCalls

asVars == <<freeFrames, st, space, brk, mbase, mode, cur, job, satp, tlb, leaked, calls>>

Frames     == 1 .. NFrames
KernelRoot == 0
NoFrame    == 0
Nobody     == 0
UserPages  == 0 .. NPages - 1
Region(p)  == p \div TableSpan
ImagePage  == 0
StackPage  == NPages - 1
BrkMin     == 2       \* the end of the image: one page

EmptySpace == [root |-> NoFrame, tabs |-> {}, regs |-> {}, tf |-> NoFrame,
               leaf |-> [p \in UserPages |-> NoFrame]]
NoJob      == [op |-> "none", child |-> Nobody, space |-> EmptySpace, left |-> {}]

Mapped(s)  == {p \in UserPages : s.leaf[p] # NoFrame}
\* What free_user_space() finds under the root; the trap frame is freed apart.
UnderRoot(s) == ({s.root} \cup s.tabs \cup {s.leaf[p] : p \in UserPages}) \ {NoFrame}
OwnedBy(s)   == UnderRoot(s) \cup ({s.tf} \ {NoFrame})
First(S)     == CHOOSE i \in S : \A j \in S : i <= j

\* A task's first space, in the lowest frames.
FirstSpace ==
    [root |-> 1, tabs |-> {2, 4, 6, 8, 9}, regs |-> {Region(ImagePage), Region(StackPage)}, tf |-> 3,
     leaf |-> [p \in UserPages |-> IF p = ImagePage THEN 5 ELSE IF p = StackPage THEN 7 ELSE NoFrame]]

AsInit ==
    /\ freeFrames = Frames \ OwnedBy(FirstSpace)
    /\ st = [t \in Tasks |-> IF t = task0 THEN "ready" ELSE "none"]
    /\ space = [t \in Tasks |-> IF t = task0 THEN FirstSpace ELSE EmptySpace]
    /\ brk = [t \in Tasks |-> BrkMin]
    /\ mbase = [t \in Tasks |-> StackPage]
    /\ mode = [h \in Harts |-> "idle"]
    /\ cur = [h \in Harts |-> Nobody]
    /\ job = [h \in Harts |-> NoJob]
    /\ satp = [h \in Harts |-> KernelRoot]
    /\ tlb = [h \in Harts |-> {}]
    /\ leaked = {}
    /\ calls = 0

InUser(h, t) == mode[h] = "user" /\ cur[h] = t

----------------------------------------------------------------------------
(* Running *)

\* A translation is loaded into the TLB when the task uses the page.
Touch(h, p) ==
    LET s == space[cur[h]] IN
    /\ mode[h] = "user"
    /\ p \in Mapped(s)
    /\ ~ \E f \in Frames : <<p, f>> \in tlb[h]
    /\ tlb' = [tlb EXCEPT ![h] = @ \cup {<<p, s.leaf[p]>>}]
    /\ UNCHANGED <<freeFrames, st, space, brk, mbase, mode, cur, job, satp, leaked, calls>>

\* schedule_point(), switch_to(), run_on(): activate() the task's root; it flushes.
RunTask(h, t) ==
    /\ mode[h] = "idle" /\ st[t] = "ready"
    /\ st' = [st EXCEPT ![t] = "running"]
    /\ mode' = [mode EXCEPT ![h] = "user"]
    /\ cur' = [cur EXCEPT ![h] = t]
    /\ satp' = [satp EXCEPT ![h] = space[t].root]
    /\ tlb' = [tlb EXCEPT ![h] = {}]
    /\ UNCHANGED <<freeFrames, space, brk, mbase, job, leaked, calls>>

\* Mutant: an idle hart stays on the root it has.
Parked_Root(h) == satp[h]

\* idle_on_hart(): an idle hart is on the kernel's root.
Parked(h) == KernelRoot

Preempt(h) ==
    /\ mode[h] = "user"
    /\ st' = [st EXCEPT ![cur[h]] = "ready"]
    /\ mode' = [mode EXCEPT ![h] = "idle"]
    /\ cur' = [cur EXCEPT ![h] = Nobody]
    /\ satp' = [satp EXCEPT ![h] = Parked(h)]
    /\ tlb' = [tlb EXCEPT ![h] = {}]
    /\ UNCHANGED <<freeFrames, space, brk, mbase, job, leaked, calls>>

----------------------------------------------------------------------------
(* Building a space: fork() and exec() *)

\* What a space under construction still wants, in the order it is taken: a page by
\* its number, and before the pages
RootFrame    == -5
KernelTables == {-4, -3}
TrapFrame    == -2
TrapTable    == -1

\* new_proc() and clone_user(): the trap frame is the child's own.
StartFork(h, c) ==
    /\ mode[h] = "user"
    /\ st[c] = "none"
    /\ \A g \in Harts : job[g].child # c
    /\ job' = [job EXCEPT ![h] = [op |-> "fork", child |-> c, space |-> EmptySpace,
         left |-> {RootFrame, TrapFrame, TrapTable} \cup KernelTables
                  \cup Mapped(space[cur[h]])]]
    /\ mode' = [mode EXCEPT ![h] = "build"]
    /\ UNCHANGED <<freeFrames, st, space, brk, mbase, cur, satp, tlb, leaked, calls>>

\* exec(): the trap frame is kept.
StartExec(h) ==
    /\ mode[h] = "user"
    /\ job' = [job EXCEPT ![h] = [op |-> "exec", child |-> Nobody, space |-> EmptySpace,
         left |-> {RootFrame, TrapTable, ImagePage, StackPage} \cup KernelTables]]
    /\ mode' = [mode EXCEPT ![h] = "build"]
    /\ calls < MaxCalls /\ calls' = calls + 1
    /\ UNCHANGED <<freeFrames, st, space, brk, mbase, cur, satp, tlb, leaked>>

\* A page of a new region takes a table first.
NeedsTable(s, i) == i \in UserPages /\ Region(i) \notin s.regs

\* The space with frame f in place i of its plan.
WithFrame(s, i, f) ==
    CASE i = RootFrame -> [s EXCEPT !.root = f]
      [] i = TrapFrame -> [s EXCEPT !.tf = f]
      [] i \in KernelTables \cup {TrapTable} -> [s EXCEPT !.tabs = @ \cup {f}]
      [] NeedsTable(s, i) -> [s EXCEPT !.tabs = @ \cup {f}, !.regs = @ \cup {Region(i)}]
      [] OTHER -> [s EXCEPT !.leaf[i] = f]

BuildStep(h) ==
    LET j == job[h]
        i == First(j.left)
        f == First(freeFrames) IN
    /\ mode[h] = "build" /\ j.left # {}
    /\ freeFrames # {}
    /\ freeFrames' = freeFrames \ {f}
    /\ job' = [job EXCEPT ![h].space = WithFrame(j.space, i, f),
                          ![h].left = IF NeedsTable(j.space, i) THEN @ ELSE @ \ {i}]
    /\ UNCHANGED <<st, space, brk, mbase, mode, cur, satp, tlb, leaked, calls>>

\* Mutant: the trap frame of the child is forgotten.
GivenBack_Tf(j) == UnderRoot(j.space)

\* No frame left: new_user_space() gives back its root only, whoever called it
\* gives back everything.
CopyFails(j) == First(j.left) \in KernelTables
GivenBack(j) == IF CopyFails(j) THEN {j.space.root} ELSE OwnedBy(j.space)

BuildFails(h) ==
    LET j == job[h] IN
    /\ mode[h] = "build" /\ j.left # {}
    /\ freeFrames = {}
    /\ freeFrames' = GivenBack(j)
    /\ leaked' = IF CopyFails(j) THEN leaked \cup j.space.tabs ELSE leaked
    /\ job' = [job EXCEPT ![h] = NoJob]
    /\ mode' = [mode EXCEPT ![h] = "user"]
    /\ UNCHANGED <<st, space, brk, mbase, cur, satp, tlb, calls>>

ForkDone(h) ==
    LET j == job[h] IN
    /\ mode[h] = "build" /\ j.op = "fork" /\ j.left = {}
    /\ space' = [space EXCEPT ![j.child] = j.space]
    /\ brk' = [brk EXCEPT ![j.child] = brk[cur[h]]]
    /\ mbase' = [mbase EXCEPT ![j.child] = mbase[cur[h]]]
    /\ st' = [st EXCEPT ![j.child] = "ready"]
    /\ job' = [job EXCEPT ![h] = NoJob]
    /\ mode' = [mode EXCEPT ![h] = "user"]
    /\ UNCHANGED <<freeFrames, cur, satp, tlb, leaked, calls>>

\* Mutant: the TLB keeps what it has.
AfterExecTlb_Kept == tlb

\* exec() activates the new root and flushes every hart.
AfterExecTlb == [g \in Harts |-> {}]

\* The old space is given up, not back.
ExecDone(h) ==
    LET j == job[h] t == cur[h] IN
    /\ mode[h] = "build" /\ j.op = "exec" /\ j.left = {}
    /\ space' = [space EXCEPT ![t] = [j.space EXCEPT !.tf = space[t].tf]]
    /\ leaked' = leaked \cup UnderRoot(space[t])
    /\ brk' = [brk EXCEPT ![t] = BrkMin]
    /\ mbase' = [mbase EXCEPT ![t] = StackPage]
    /\ satp' = [satp EXCEPT ![h] = j.space.root]
    /\ tlb' = AfterExecTlb
    /\ job' = [job EXCEPT ![h] = NoJob]
    /\ mode' = [mode EXCEPT ![h] = "user"]
    /\ UNCHANGED <<freeFrames, st, cur, calls>>

----------------------------------------------------------------------------
(* sbrk(), mmap(), munmap() *)

\* alloc_map_user() of one page: a mapped page is skipped, a table may be needed.
CanMap(s, p) ==
    \/ p \in Mapped(s)
    \/ Cardinality(freeFrames) >= IF Region(p) \in s.regs THEN 1 ELSE 2

\* map_one() takes the page's frame first, the table's then.
MapPage(t, p) ==
    LET s == space[t]
        f == First(freeFrames)
        g == First(freeFrames \ {f}) IN
    IF p \in Mapped(s) THEN UNCHANGED <<space, freeFrames>>
    ELSE IF Region(p) \in s.regs
    THEN /\ space' = [space EXCEPT ![t].leaf[p] = f]
         /\ freeFrames' = freeFrames \ {f}
    ELSE /\ space' = [space EXCEPT ![t] = [s EXCEPT !.leaf[p] = f, !.tabs = @ \cup {g},
                                                    !.regs = @ \cup {Region(p)}]]
         /\ freeFrames' = freeFrames \ {f, g}

FirstPage(a)  == a \div 2
PageAfter(a)  == (a + 1) \div 2
PagesOf(a, b) == {p \in UserPages : FirstPage(a) <= p /\ p < PageAfter(b)}

\* sys_sbrk() upwards, by at most one page that is not mapped.  The mmap area is
\* not looked at.
Grow(h, inc) ==
    LET t == cur[h]
        new == PagesOf(brk[t], brk[t] + inc) \ Mapped(space[t]) IN
    /\ mode[h] = "user"
    /\ brk[t] + inc <= 2 * StackPage
    /\ Cardinality(new) <= 1
    /\ \A p \in new : CanMap(space[t], p)
    /\ IF new = {} THEN UNCHANGED <<space, freeFrames>> ELSE MapPage(t, CHOOSE p \in new : TRUE)
    /\ brk' = [brk EXCEPT ![t] = @ + inc]
    /\ calls < MaxCalls /\ calls' = calls + 1
    /\ UNCHANGED <<st, mbase, mode, cur, job, satp, tlb, leaked>>

\* unmap_free_user(): the frames are free before the other harts are flushed.
UnmapPages(t, S) ==
    /\ space' = [space EXCEPT ![t].leaf = [p \in UserPages |-> IF p \in S THEN NoFrame ELSE @[p]]]
    /\ freeFrames' = freeFrames \cup ({space[t].leaf[p] : p \in S} \ {NoFrame})

\* sys_sbrk() downwards: every page that [new, old) touches goes.
Shrink(h, dec) ==
    LET t == cur[h] IN
    /\ mode[h] = "user"
    /\ brk[t] >= BrkMin + dec
    /\ UnmapPages(t, PagesOf(brk[t] - dec, brk[t]))
    /\ brk' = [brk EXCEPT ![t] = @ - dec]
    /\ mode' = [mode EXCEPT ![h] = "flush"]
    /\ calls < MaxCalls /\ calls' = calls + 1
    /\ UNCHANGED <<st, mbase, cur, job, satp, tlb, leaked>>

\* sys_mmap(): top down, above the break.
Mmap(h) ==
    LET t == cur[h] p == mbase[t] - 1 IN
    /\ mode[h] = "user"
    /\ 2 * p >= brk[t]
    /\ CanMap(space[t], p)
    /\ MapPage(t, p)
    /\ mbase' = [mbase EXCEPT ![t] = p]
    /\ calls < MaxCalls /\ calls' = calls + 1
    /\ UNCHANGED <<st, brk, mode, cur, job, satp, tlb, leaked>>

\* sbrk() or mmap() of page p and the next, when no frame is left after p: it stays
\* mapped, and neither the break nor the mmap area moves.
MapsOnlyFirst(h, p) ==
    LET t == cur[h] IN
    /\ mode[h] = "user"
    /\ p = PageAfter(brk[t]) \/ (p = mbase[t] - 2 /\ 2 * p >= brk[t])
    /\ p + 1 < StackPage /\ p \notin Mapped(space[t])
    /\ CanMap(space[t], p)
    /\ MapPage(t, p)
    /\ calls < MaxCalls /\ calls' = calls + 1
    /\ UNCHANGED <<st, brk, mbase, mode, cur, job, satp, tlb, leaked>>
    /\ ~CanMap(space[t], p + 1)'

Munmap(h, p) ==
    /\ mode[h] = "user"
    /\ p \in Mapped(space[cur[h]])
    /\ UnmapPages(cur[h], {p})
    /\ mode' = [mode EXCEPT ![h] = "flush"]
    /\ calls < MaxCalls /\ calls' = calls + 1
    /\ UNCHANGED <<st, brk, mbase, cur, job, satp, tlb, leaked>>

\* remote_flush_all(): this hart and the others; then back to the program.
Flush(h) ==
    /\ mode[h] = "flush"
    /\ tlb' = [g \in Harts |-> {}]
    /\ mode' = [mode EXCEPT ![h] = "user"]
    /\ UNCHANGED <<freeFrames, st, space, brk, mbase, cur, job, satp, leaked, calls>>

----------------------------------------------------------------------------
(* exit(), waitpid() *)

\* exit(): the task is a zombie and its hart free, but on the root it had.
ExitTask(h) ==
    /\ mode[h] = "user" /\ cur[h] # task0
    /\ st' = [st EXCEPT ![cur[h]] = "zombie"]
    /\ cur' = [cur EXCEPT ![h] = Nobody]
    /\ mode' = [mode EXCEPT ![h] = "leave"]
    /\ UNCHANGED <<freeFrames, space, brk, mbase, job, satp, tlb, leaked, calls>>

\* switch_to(): the next task, or idle.
LeaveRoot(h) ==
    /\ mode[h] = "leave"
    /\ mode' = [mode EXCEPT ![h] = "idle"]
    /\ satp' = [satp EXCEPT ![h] = Parked(h)]
    /\ tlb' = [tlb EXCEPT ![h] = {}]
    /\ UNCHANGED <<freeFrames, st, space, brk, mbase, cur, job, leaked, calls>>

\* waitpid() takes the zombie's slot under the lock.
TakeZombie(h, t) ==
    /\ InUser(h, task0)
    /\ st[t] = "zombie"
    /\ st' = [st EXCEPT ![t] = "none"]
    /\ space' = [space EXCEPT ![t] = EmptySpace]
    /\ job' = [job EXCEPT ![h] = [NoJob EXCEPT !.op = "reap", !.space = space[t]]]
    /\ mode' = [mode EXCEPT ![h] = "reap"]
    /\ UNCHANGED <<freeFrames, brk, mbase, cur, satp, tlb, leaked, calls>>

\* Mutant: the tables stay.
Torn_Leaves(s) == {s.root, s.tf} \cup {s.leaf[p] : p \in Mapped(s)}

\* free_user_space() and the trap frame.
Torn(s) == OwnedBy(s)

FreeSpace(h) ==
    /\ mode[h] = "reap"
    /\ freeFrames' = freeFrames \cup Torn(job[h].space)
    /\ job' = [job EXCEPT ![h] = NoJob]
    /\ mode' = [mode EXCEPT ![h] = "flush"]
    /\ UNCHANGED <<st, space, brk, mbase, cur, satp, tlb, leaked, calls>>

----------------------------------------------------------------------------

AsNext ==
    \E h \in Harts :
      \/ \E p \in UserPages : Touch(h, p) \/ Munmap(h, p) \/ MapsOnlyFirst(h, p)
      \/ \E t \in Tasks : RunTask(h, t) \/ StartFork(h, t) \/ TakeZombie(h, t)
      \/ \E n \in 1 .. 2 : Grow(h, n) \/ Shrink(h, n)
      \/ Preempt(h) \/ StartExec(h) \/ BuildStep(h) \/ BuildFails(h) \/ ForkDone(h) \/ ExecDone(h)
      \/ Mmap(h) \/ Flush(h) \/ ExitTask(h) \/ LeaveRoot(h) \/ FreeSpace(h)

AsSpec == AsInit /\ [][AsNext]_asVars

----------------------------------------------------------------------------

Holders == {space[t] : t \in Tasks} \cup {job[h].space : h \in Harts}

\* How many holders and roles in them a frame has.
Uses(f) ==
    Cardinality({t \in Tasks : f \in OwnedBy(space[t])})
    + Cardinality({h \in Harts : f \in OwnedBy(job[h].space)})
    + (IF f \in freeFrames THEN 1 ELSE 0) + (IF f \in leaked THEN 1 ELSE 0)

\* Safety.  Every frame is free, lost for good, or belongs to one space, live, dead
\* or in the making, in one place: nothing is freed twice or used after it was
\* freed, and nothing is lost but what exec gives up and what new_user_space
\* leaves when it fails.
FramesAccountedFor ==
    /\ \A f \in Frames : Uses(f) = 1
    /\ \A s \in Holders : \A p, q \in Mapped(s) :
         /\ p # q => s.leaf[p] # s.leaf[q]
         /\ s.leaf[p] \notin {s.root, s.tf} \cup s.tabs

\* Safety.  What a program reads and writes is its own: a hart in user mode has no
\* translation of a page that was unmapped, or of another space's page, in its
\* TLB, though all spaces share one ASID (remote_flush_all, activate).
NoStaleTranslation ==
    \A h \in Harts : mode[h] = "user" =>
      \A e \in tlb[h] : space[cur[h]].leaf[e[1]] = e[2]

\* Safety.  A hart that is idle, or in a program, is on a root that is not free
\* (idle_on_hart parks on the kernel's root).
RootsAlive ==
    \A h \in Harts : mode[h] # "leave" => satp[h] \notin freeFrames

\* Safety: every frame has one owner, no program has a translation to a frame that
\* is not its own, and no hart parks on a root that is free (mem/mod.rs, frame.rs).
MemoryIsOwned == FramesAccountedFor /\ NoStaleTranslation /\ RootsAlive

\* Does not hold: exit lets go of the lock before the hart leaves the root, and
\* prints; a parent on another hart frees and zeroes it meanwhile
\* (task/mod.rs:1546, against the comment at task/mod.rs:2510).
NoHartOnFreedRoot ==
    \A h \in Harts : satp[h] \notin freeFrames

\* Does not hold: new_user_space leaves its tables behind, exec its old space.
NothingLeaks == leaked = {}

\* Does not hold: sbrk grows into the mmap area (syscall.rs:901).
HeapBelowMmap ==
    \A t \in Tasks : st[t] # "none" => brk[t] <= 2 * mbase[t]

\* Does not hold: the page the new break is in is unmapped too (syscall.rs:852).
ShrinkKeepsTheRest ==
    [][\A t \in Tasks : brk'[t] < brk[t] /\ st'[t] = "running" /\ space'[t].root = space[t].root =>
         \A p \in Mapped(space[t]) \ Mapped(space'[t]) : 2 * p >= brk'[t]]_asVars
============================================================================
