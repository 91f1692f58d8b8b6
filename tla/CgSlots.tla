------------------------------ MODULE CgSlots ------------------------------
(***************************************************************************)
(* Control-group slots of the kernel: creation with reuse of emptied slots *)
(* (cgcreate), entering, limits and frame charges                          *)
(* (kernel/src/task/mod.rs, kernel/src/mem/frame.rs).                      *)
(*                                                                         *)
(* cgcreate takes the scheduler lock, drops it, talks to the frame         *)
(* allocator under its own lock and takes the scheduler lock again: each   *)
(* critical section is a step.  fork builds the child, charging the        *)
(* parent's group, before it inserts it; waitpid removes a zombie before   *)
(* it frees its frames.  The CPU account of a slot (CG_CPU, CG_WIN,        *)
(* CG_WIN_USE) is clean or not.  The quotas anybody may store in a slot at *)
(* any time (cg_set_cpu, cg_set_share) are left out; the frame limit is    *)
(* not.                                                                    *)
(***************************************************************************)
EXTENDS Naturals, Sequences, FiniteSets, FiniteSetsExt

CONSTANTS
    Procs,      \* pids next_pid will hand out
    first,      \* the process that runs at the start
    MaxCg,      \* MAX_CG
    Limits,     \* frame limits a caller asks for; 0 = unlimited
    Busy,       \* processes inside the kernel at once: the harts
    MaxFrames,  \* bound of the model: frames of one process
    MaxCreates  \* bound of the model: calls of cgcreate

ASSUME CgAssumption ==
    /\ first \in Procs
    /\ MaxCg \in Nat \ {0}
    /\ Limits \subseteq Nat
    /\ {Busy, MaxFrames, MaxCreates} \subseteq Nat

VARIABLES
    \* --- struct Sched ---
    state,    \* "Unborn", "Live", "Zombie" or "Reaped"
    cg,       \* the group of a process
    groups,   \* the table: sequence of slots; slot 1 is the root group
    \* --- FrameAlloc ---
    held,     \* per process: frames it holds, by the group they are charged to
    lim,      \* lim
    \* --- atomics ---
    acct,     \* groups whose CPU account is not clean
    \* --- per process, inside a system call ---
    pc,
    id,       \* the slot cgcreate works on
    limit,    \* the limit it was asked for
    child,    \* the child fork is building
    \* --- history ---
    creates,  \* calls of cgcreate
    promised  \* slots given to a creator and entered by nobody since

vars == <<state, cg, groups, held, lim, acct, pc, id, limit, child,
          creates, promised>>

Ids    == 1 .. MaxCg
RootCg == 1
NoId   == 0
NoPid  == "nobody"
Slots  == DOMAIN groups

Init ==
    /\ state = [p \in Procs |-> IF p = first THEN "Live" ELSE "Unborn"]
    /\ cg = [p \in Procs |-> RootCg]
    /\ groups = <<[parent |-> RootCg, used |-> FALSE, reserved |-> FALSE]>>
    /\ held = [p \in Procs |-> [g \in Ids |-> 0]]
    /\ lim = [g \in Ids |-> 0]
    /\ acct = {}
    /\ pc = [p \in Procs |-> "user"]
    /\ id = [p \in Procs |-> NoId]
    /\ limit = [p \in Procs |-> 0]
    /\ child = [p \in Procs |-> NoPid]
    /\ creates = 0
    /\ promised = [p \in Procs |-> {}]

InTable    == {p \in Procs : state[p] \in {"Live", "Zombie"}}
Members(g) == {p \in InTable : cg[p] = g}
Use(g)     == MapThenSumSet(LAMBDA p : held[p][g], Procs)
Unused(g)  == \A p \in Procs : held[p][g] = 0     \* Use(g) = 0

Goto(p, from, to) == pc[p] = from /\ pc' = [pc EXCEPT ![p] = to]

\* A process starts a system call: it was not and a hart runs it.
Starts(p) ==
    /\ state[p] = "Live"
    /\ pc[p] = "user"
    /\ Cardinality({q \in Procs : pc[q] # "user"}) < Busy

TableKept  == UNCHANGED <<state, cg>>
FramesKept == UNCHANGED <<held, lim>>
LocalKept  == UNCHANGED <<id, limit, child, creates, promised>>

----------------------------------------------------------------------------
(* cgcreate *)

\* Mutant: v2.4's rule, any slot nobody is in.
Reusable_Empty(g) == ~groups[g].reserved /\ Members(g) = {}

\* A slot may be taken again after it was entered and left.
Reusable(g) == groups[g].used /\ ~groups[g].reserved /\ Members(g) = {}

Emptied == {g \in Slots \ {RootCg} : Reusable(g)}

\* Phase 1: reserve the first emptied slot, if there is one.
Reserve(p, l) ==
    /\ Starts(p)
    /\ creates < MaxCreates
    /\ creates' = creates + 1
    /\ limit' = [limit EXCEPT ![p] = l]
    /\ IF Emptied = {}
       THEN Goto(p, "user", "push") /\ UNCHANGED <<groups, id>>
       ELSE \E g \in Emptied :
              /\ \A other \in Emptied : g <= other
              /\ Goto(p, "user", "check")
              /\ id' = [id EXCEPT ![p] = g]
              /\ groups' = [groups EXCEPT ![g].reserved = TRUE]
    /\ TableKept /\ FramesKept /\ UNCHANGED <<acct, child, promised>>

\* Mutant: frames left behind by a member that moved away do not count.
Charged_Never(g) == FALSE

Charged(g) == ~Unused(g)

\* Phase 2: a slot that still owns frames is given back; a new one is pushed.
Check(p) ==
    /\ pc[p] = "check"
    /\ IF Charged(id[p])
       THEN Goto(p, "check", "giveBack")
       ELSE Goto(p, "check", "reset")
    /\ TableKept /\ FramesKept /\ LocalKept /\ UNCHANGED <<groups, acct>>

GiveBack(p) ==
    /\ Goto(p, "giveBack", "push")
    /\ groups' = [groups EXCEPT ![id[p]].reserved = FALSE]
    /\ TableKept /\ FramesKept /\ LocalKept /\ UNCHANGED acct

\* Mutant: cg_reset_acct is left out.
Cleaned_Not(g) == acct

Cleaned(g) == acct \ {g}

Reset(p) ==
    /\ Goto(p, "reset", "install")
    /\ acct' = Cleaned(id[p])
    /\ lim' = [lim EXCEPT ![id[p]] = 0]
    /\ TableKept /\ LocalKept /\ UNCHANGED <<groups, held>>

\* Phase 3: look again, then hand the slot over.
InstallGroup(p) ==
    LET g == id[p] IN
    /\ pc[p] = "install"
    /\ IF ~groups[g].reserved \/ Members(g) # {}
       THEN /\ Goto(p, "install", "push")
            /\ groups' = [groups EXCEPT ![g].reserved = FALSE]
            /\ UNCHANGED promised
       ELSE /\ Goto(p, "install", "limit")
            /\ groups' = [groups EXCEPT ![g] = [parent |-> cg[p], used |-> FALSE, reserved |-> FALSE]]
            /\ promised' = [promised EXCEPT ![p] = @ \cup {g}]
    /\ TableKept /\ FramesKept /\ UNCHANGED <<acct, id, limit, child, creates>>

\* Mutant: one slot too many.
Full_Late == Len(groups) > MaxCg

Full == Len(groups) >= MaxCg

\* cgcreate_push(): one more slot, or failure.
Push(p) ==
    /\ IF Full
       THEN Goto(p, "push", "user") /\ id' = [id EXCEPT ![p] = NoId] /\ UNCHANGED <<groups, promised>>
       ELSE /\ Goto(p, "push", "limit")
            /\ promised' = [promised EXCEPT ![p] = @ \cup {Len(groups) + 1}]
            /\ id' = [id EXCEPT ![p] = Len(groups) + 1]
            /\ groups' = Append(groups, [parent |-> cg[p], used |-> FALSE, reserved |-> FALSE])
    /\ TableKept /\ FramesKept
    /\ UNCHANGED <<acct, limit, child, creates>>

\* set_cg_limit() outside the lock, and the return of the id.
LimitAndReturn(p) ==
    /\ Goto(p, "limit", "user")
    /\ lim' = [lim EXCEPT ![id[p]] = limit[p]]
    /\ id' = [id EXCEPT ![p] = NoId]
    /\ limit' = [limit EXCEPT ![p] = 0]
    /\ TableKept /\ UNCHANGED <<groups, held, acct, child, creates, promised>>

----------------------------------------------------------------------------
(* cgenter, the limits, the CPU account *)

\* Mutant: a slot in the middle of its handover may be entered.
Enterable_Reserved(g) == g \in Slots

Enterable(g) == g \in Slots /\ ~groups[g].reserved

Enter(p, g) ==
    /\ Starts(p)
    /\ Enterable(g)
    /\ cg' = [cg EXCEPT ![p] = g]
    /\ groups' = [groups EXCEPT ![g].used = TRUE]
    /\ promised' = [q \in Procs |-> promised[q] \ {g}]
    /\ FramesKept
    /\ UNCHANGED <<state, acct, pc, id, limit, child, creates>>

SetLimit(p, g, l) ==
    /\ Starts(p)
    /\ g \in Slots
    /\ lim' = [lim EXCEPT ![g] = l]
    /\ TableKept /\ LocalKept /\ UNCHANGED <<groups, held, acct, pc>>

\* A tick of a running process.
Account(p, g) ==
    /\ Starts(p)
    /\ g = cg[p]
    /\ acct' = acct \cup {g}
    /\ TableKept /\ FramesKept /\ LocalKept /\ UNCHANGED <<groups, pc>>

----------------------------------------------------------------------------
(* Frames, fork, exit, waitpid *)

\* FrameAlloc::alloc: the limit of the group is checked where it is charged.
MayCharge(g) == lim[g] = 0 \/ Use(g) < lim[g]

Alloc(p) ==
    /\ Starts(p)
    /\ MayCharge(cg[p])
    /\ held[p][cg[p]] < MaxFrames
    /\ held' = [held EXCEPT ![p][cg[p]] = @ + 1]
    /\ TableKept /\ LocalKept /\ UNCHANGED <<groups, lim, acct, pc>>

\* munmap, or sbrk downwards: the recorded owner is uncharged.
Free(p, g) ==
    /\ Starts(p)
    /\ held[p][g] > 0
    /\ held' = [held EXCEPT ![p][g] = @ - 1]
    /\ TableKept /\ LocalKept /\ UNCHANGED <<groups, lim, acct, pc>>

\* fork() until it has the child's frames (new_proc, clone_user).
ForkBuild(p, c) ==
    /\ Starts(p)
    /\ state[c] = "Unborn"
    /\ \A q \in Procs : child[q] # c
    /\ MayCharge(cg[p])
    /\ Goto(p, "user", "fork")
    /\ child' = [child EXCEPT ![p] = c]
    /\ held' = [held EXCEPT ![c][cg[p]] = 1]
    /\ TableKept /\ UNCHANGED <<groups, lim, acct, id, limit, creates, promised>>

\* fork() inserts it, in the group of the parent.
ForkInsert(p) ==
    LET c == child[p] IN
    /\ Goto(p, "fork", "user")
    /\ state' = [state EXCEPT ![c] = "Live"]
    /\ cg' = [cg EXCEPT ![c] = cg[p]]
    /\ groups' = [groups EXCEPT ![cg[p]].used = TRUE]
    /\ child' = [child EXCEPT ![p] = NoPid]
    /\ FramesKept /\ UNCHANGED <<acct, id, limit, creates, promised>>

\* exit().
Exit(p) ==
    /\ state[p] = "Live"
    /\ pc[p] = "user"
    /\ p # first
    /\ state' = [state EXCEPT ![p] = "Zombie"]
    /\ promised' = [promised EXCEPT ![p] = {}]
    /\ FramesKept /\ UNCHANGED <<cg, groups, acct, pc, id, limit, child, creates>>

\* waitpid() removes the zombie, and frees its address space after the lock.
Reap(p) ==
    /\ state[p] = "Zombie"
    /\ state' = [state EXCEPT ![p] = "Reaped"]
    /\ FramesKept /\ LocalKept /\ UNCHANGED <<cg, groups, acct, pc>>

FreeSpace(p) ==
    /\ state[p] = "Reaped"
    /\ \E g \in Ids : held[p][g] # 0
    /\ held' = [held EXCEPT ![p] = [g \in Ids |-> 0]]
    /\ TableKept /\ LocalKept /\ UNCHANGED <<groups, lim, acct, pc>>

----------------------------------------------------------------------------

CgCreate(p) ==
    \/ \E l \in Limits : Reserve(p, l)
    \/ Check(p) \/ GiveBack(p) \/ Reset(p) \/ InstallGroup(p) \/ Push(p) \/ LimitAndReturn(p)

Next ==
    \E p \in Procs :
      \/ CgCreate(p)
      \/ \E g \in Ids : Enter(p, g) \/ Account(p, g) \/ Free(p, g)
      \/ \E g \in Ids, l \in Limits : SetLimit(p, g, l)
      \/ Alloc(p) \/ ForkInsert(p) \/ Exit(p) \/ Reap(p) \/ FreeSpace(p)
      \/ \E q \in Procs : ForkBuild(p, q)

Spec == Init /\ [][Next]_vars

----------------------------------------------------------------------------

TypeOK ==
    /\ state \in [Procs -> {"Unborn", "Live", "Zombie", "Reaped"}]
    /\ Len(groups) \in 1 .. MaxCg
    /\ \A g \in Slots : groups[g].parent \in Slots
    /\ \A p \in Procs : cg[p] \in Slots
    /\ acct \subseteq Slots
    /\ promised \in [Procs -> SUBSET Slots]

Creating(p) == pc[p] \in {"check", "giveBack", "reset", "install"}

\* Safety.  A slot in the middle of its handover belongs to one creator and to
\* nobody else: no process is in it, no second creator takes it, and it does not
\* stay reserved when its creator is done (cgcreate, cgenter, fork).
HandoverIsExclusive ==
    /\ \A g \in Slots : groups[g].reserved =>
         /\ Members(g) = {}
         /\ \E p \in Procs : Creating(p) /\ id[p] = g
    /\ \A p, q \in Procs : Creating(p) /\ Creating(q) /\ id[p] = id[q] => p = q

\* Safety.  Two creators never hold the same group before somebody entered it:
\* create-then-enter does not merge two containers (the v2.4 failure).
NotMerged ==
    \A p, q \in Procs : p # q => promised[p] \cap promised[q] = {}

\* Safety.  The slot a creator is about to get owns no frames and has no CPU
\* account, and nobody runs in it, whatever was charged to it before.
HandedOverClean ==
    \A p \in Procs : pc[p] = "install" =>
      Unused(id[p]) /\ id[p] \notin acct

\* Safety.  No slot but the root's is ever reused while its frames are charged:
\* what a group uses is what processes that were in it hold, so a group nobody
\* entered since it was returned uses nothing.
NewGroupUsesNothing ==
    \A p \in Procs : \A g \in promised[p] : Unused(g)

\* Safety.  A control group's slot is handed over whole: it has one owner, no two groups
\* are mistaken for one, and it comes with no frames, no account and no member of its last.
GroupsHold ==
    /\ TypeOK
    /\ HandoverIsExclusive /\ NotMerged /\ HandedOverClean /\ NewGroupUsesNothing
============================================================================
