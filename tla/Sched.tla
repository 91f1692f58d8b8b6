------------------------------- MODULE Sched -------------------------------
(***************************************************************************)
(* The SMP scheduler and the process life cycle of the kernel              *)
(* (kernel/src/task/mod.rs), driven by the trap handler (trap.rs).         *)
(*                                                                         *)
(* Every critical section under the scheduler lock is one step.  What a    *)
(* hart does between two sections (println, page-table activation, freeing *)
(* an address space) is a step of its own, so all the interleavings the    *)
(* lock permits are present.  Kernel code runs with interrupts off (SIE=0),*)
(* so a hart takes a trap only in user mode or in the idle loop.           *)
(*                                                                         *)
(* A run queue is kept as the number of copies of each pid it holds: which *)
(* live entry wins a pick depends on quotas and virtual run times, which   *)
(* RunQueue models; here any live entry may win.  A page-table root is     *)
(* named by the pid it was built for.                                      *)
(***************************************************************************)
EXTENDS Naturals, FiniteSets

CONSTANTS
    Harts,        \* the harts of the machine (MAX_HART of them)
    Pids,         \* the pids next_pid will hand out; none is used twice
    init,         \* pid 1
    NoPid,        \* 0 in current[], or the None of an Option<pid>
    KernelRoot,   \* the page-table root that is never freed
    WaitTargets,  \* what a waitpid target may match: sets of pids
    RxCap         \* input bytes waiting in the UART at most

ASSUME SchedAssumption ==
    /\ init \in Pids
    /\ NoPid \notin Pids
    /\ KernelRoot \notin Pids
    /\ WaitTargets \subseteq SUBSET Pids
    /\ RxCap \in Nat

VARIABLES
    \* --- struct Sched, under the scheduler lock ---
    state,       \* state of a pid; "Unborn" before fork, "Reaped" after waitpid
    blocked_on,  \* why a Blocked process sleeps
    wait_for,    \* the children a process Blocked in waitpid waits for
    killed,      \* the kill flag
    parent,      \* parent pid
    children,    \* the children a process lists
    queues,      \* per hart: copies of each pid in its run queue
    current,     \* per hart: the pid it runs
    idle,        \* per hart: sleeping in the idle loop
    yield_flag,  \* per hart: reschedule at the end of the trap
    \* --- private to a hart ---
    pc,          \* where the hart is
    next,        \* the pid exit() picked and has not switched to yet
    dead,        \* the reaped pid whose address space waitpid has still to free
    satp,        \* the root the hart translates through
    \* --- memory and the UART ---
    freed,       \* roots given back to the frame allocator
    rx,          \* bytes in the UART FIFO and the input ring
    uart_irq     \* the UART has an interrupt pending

procVars  == <<state, blocked_on, wait_for, killed>>
treeVars  == <<parent, children>>
hartVars  == <<current, idle, yield_flag>>
localVars == <<pc, next, dead, satp>>
uartVars  == <<rx, uart_irq>>
vars == <<procVars, treeVars, queues, hartVars, localVars, freed, uartVars>>

States  == {"Unborn", "Runnable", "Running", "Blocked", "Zombie", "Reaped"}
Reasons == {"None", "STDIN", "SLEEP", "WAIT"}
Places  == {"boot", "user", "idle", "irq", "uart", "ecall", "reading",
            "dying", "reap", "epilogue", "activate", "park", "exited"}
MaybePid == Pids \cup {NoPid}

Init ==
    /\ state = [p \in Pids |-> IF p = init THEN "Runnable" ELSE "Unborn"]
    /\ blocked_on = [p \in Pids |-> "None"]
    /\ wait_for = [p \in Pids |-> {}]
    /\ killed = [p \in Pids |-> FALSE]
    /\ parent = [p \in Pids |-> NoPid]
    /\ children = [p \in Pids |-> {}]
    /\ \E boot \in Harts :
         queues = [h \in Harts |->
                     [p \in Pids |-> IF h = boot /\ p = init THEN 1 ELSE 0]]
    /\ current = [h \in Harts |-> NoPid]
    /\ idle = [h \in Harts |-> FALSE]
    /\ yield_flag = [h \in Harts |-> FALSE]
    /\ pc = [h \in Harts |-> "boot"]
    /\ next = [h \in Harts |-> NoPid]
    /\ dead = [h \in Harts |-> NoPid]
    /\ satp = [h \in Harts |-> KernelRoot]
    /\ freed = {}
    /\ rx = 0
    /\ uart_irq = FALSE

----------------------------------------------------------------------------
(* Run queues *)

HasSlot(p) == state[p] \notin {"Unborn", "Reaped"}

Owned(p) == \E h \in Harts : current[h] = p

\* Mutant: enqueue_locked without its scan of current[].
EnqueueAll_OwnedToo(q, S, h) ==
    [q EXCEPT ![h] = [p \in Pids |-> IF p \in S THEN @[p] + 1 ELSE @[p]]]

\* enqueue_locked for every pid of S: a pid some hart still owns is not
\* pushed, because that hart's trap epilogue will push it.
EnqueueAll(q, S, h) ==
    [q EXCEPT ![h] = [p \in Pids |-> IF p \in S /\ ~Owned(p) THEN @[p] + 1 ELSE @[p]]]

\* pop_valid_locked's test of an entry: runnable and not owned by another hart.
Takeable(st, x, h) ==
    /\ st[x] \in {"Runnable", "Running"}
    /\ \A g \in Harts \ {h} : current[g] # x

\* Scanning the queues of S drops the entries that are not takeable.
Scanned(q, st, h, S) ==
    [v \in Harts |->
        [x \in Pids |-> IF v \in S /\ ~Takeable(st, x, h) THEN 0 ELSE q[v][x]]]

\* pick_locked and find_next: hart h leaves with the pid `got` (NoPid when no
\* queue holds a takeable entry) and the queues become q1.  The local queue is
\* always scanned; the queues scanned before the winner's are cleaned too.
Pick(q, st, h, got, q1) ==
    \/ /\ \A v \in Harts, x \in Pids : q[v][x] > 0 => ~Takeable(st, x, h)
       /\ got = NoPid
       /\ q1 = Scanned(q, st, h, Harts)
    \/ \E v \in Harts, S \in SUBSET Harts :
         /\ {h, v} \subseteq S
         /\ got \in Pids
         /\ q[v][got] > 0
         /\ Takeable(st, got, h)
         /\ q1 = [Scanned(q, st, h, S) EXCEPT ![v][got] = @ - 1]

\* wake_locked for every Blocked pid of S, by hart h.
WakeAll(S, h) ==
    /\ state' = [p \in Pids |-> IF p \in S THEN "Runnable" ELSE state[p]]
    /\ blocked_on' = [p \in Pids |-> IF p \in S THEN "None" ELSE blocked_on[p]]
    /\ queues' = EnqueueAll(queues, S, h)

Goto(h, from, to) ==
    /\ pc[h] = from
    /\ pc' = [pc EXCEPT ![h] = to]

\* A trap in user mode or in the idle loop.  A killed task that is Running
\* dies here, whatever the trap; a fault or SYS_EXIT dies as well.
TrapEntry(h) ==
    /\ \/ /\ pc[h] = "user"
          /\ IF killed[current[h]] /\ state[current[h]] = "Running"
             THEN pc' = [pc EXCEPT ![h] = "dying"]
             ELSE \E to \in {"irq", "ecall", "dying"} : pc' = [pc EXCEPT ![h] = to]
       \/ Goto(h, "idle", "irq")
    /\ UNCHANGED <<procVars, treeVars, queues, hartVars, next, dead, satp, freed, uartVars>>

----------------------------------------------------------------------------
(* Interrupts *)

\* A supervisor software interrupt (IPI from kick_idle).
SoftIrq(h) ==
    /\ Goto(h, "irq", "epilogue")
    /\ yield_flag' = [yield_flag EXCEPT ![h] = TRUE]
    /\ UNCHANGED <<procVars, treeVars, queues, current, idle, next, dead, satp, freed, uartVars>>

\* A timer tick: wake_sleepers wakes the sleepers whose time has come, then
\* should_preempt decides whether the hart reschedules.  (wake_virtio runs
\* too, but no path blocks on VIRTIO.)
TimerIrq(h) ==
    /\ Goto(h, "irq", "epilogue")
    /\ \E S \in SUBSET {p \in Pids : state[p] = "Blocked" /\ blocked_on[p] = "SLEEP"} :
         WakeAll(S, h)
    /\ \E preempt \in BOOLEAN :
         yield_flag' = [yield_flag EXCEPT ![h] = @ \/ preempt]
    /\ UNCHANGED <<wait_for, killed, treeVars, current, idle, next, dead, satp, freed, uartVars>>

\* Mutant: the input ring without its capacity check.
UartReceive_NoCap ==
    /\ rx' = rx + 1
    /\ uart_irq' = TRUE
    /\ UNCHANGED <<procVars, treeVars, queues, hartVars, localVars, freed>>

\* A byte, or a Ctrl-C that is not kept as input, reaches the UART.
UartReceive ==
    /\ \/ rx < RxCap /\ rx' = rx + 1
       \/ UNCHANGED rx
    /\ uart_irq' = TRUE
    /\ UNCHANGED <<procVars, treeVars, queues, hartVars, localVars, freed>>

UartIrq(h) ==
    /\ uart_irq
    /\ Goto(h, "irq", "uart")
    /\ uart_irq' = FALSE
    /\ UNCHANGED <<procVars, treeVars, queues, hartVars, next, dead, satp, freed, rx>>

\* wake_stdin at the end of the UART interrupt handler.
WakeStdin(h) ==
    /\ Goto(h, "uart", "epilogue")
    /\ WakeAll({p \in Pids : state[p] = "Blocked" /\ blocked_on[p] = "STDIN"}, h)
    /\ UNCHANGED <<wait_for, killed, treeVars, hartVars, next, dead, satp, freed, uartVars>>

\* Mutant: a kill interrupts waitpid but not a read.
Interrupted_NotStdin(p) == {q \in {p} : state[q] = "Blocked" /\ blocked_on[q] # "STDIN"}

\* The victim of a kill when it sleeps, whatever it sleeps for.
Interrupted(p) == {q \in {p} : state[q] = "Blocked"}

\* kill_with: flag the victim, and wake it when it is Blocked.
KillWith(h, p) ==
    /\ state[p] \notin {"Unborn", "Reaped", "Zombie"}
    /\ killed' = [killed EXCEPT ![p] = TRUE]
    /\ WakeAll(Interrupted(p), h)
    /\ UNCHANGED <<wait_for, treeVars, hartVars, next, dead, satp, freed, uartVars>>

\* Ctrl-C among the drained bytes kills the foreground process.
CtrlC(h, p) == pc[h] = "uart" /\ KillWith(h, p) /\ UNCHANGED pc

----------------------------------------------------------------------------
(* System calls of the current process *)

Kill(h, p) == Goto(h, "ecall", "epilogue") /\ KillWith(h, p)

\* A call that leaves the scheduler alone: waitpid without a child to wait
\* for or with WNOHANG, kill of a dead pid, file and memory calls.
OtherCall(h) ==
    /\ Goto(h, "ecall", "epilogue")
    /\ UNCHANGED <<procVars, treeVars, queues, hartVars, next, dead, satp, freed, uartVars>>

\* yield_now.
Yield(h) ==
    /\ Goto(h, "ecall", "epilogue")
    /\ yield_flag' = [yield_flag EXCEPT ![h] = TRUE]
    /\ UNCHANGED <<procVars, treeVars, queues, current, idle, next, dead, satp, freed, uartVars>>

\* Mutant: a slot that waitpid emptied is handed out again.
FreshPid_Recycled(c) == state[c] \in {"Unborn", "Reaped"}

\* next_pid only grows, so a new pid was never used before.
FreshPid(c) == state[c] = "Unborn"

\* fork: the child is inserted Runnable on this hart's queue.
Fork(h, c) ==
    LET p == current[h] IN
    /\ Goto(h, "ecall", "epilogue")
    /\ FreshPid(c)
    /\ state' = [state EXCEPT ![c] = "Runnable"]
    /\ parent' = [parent EXCEPT ![c] = p]
    /\ children' = [children EXCEPT ![p] = @ \cup {c}]
    /\ queues' = EnqueueAll(queues, {c}, h)
    /\ UNCHANGED <<blocked_on, wait_for, killed, hartVars, next, dead, satp, freed, uartVars>>

\* block_current(reason) followed by yield_now.
Block(h, reason, targets) ==
    LET p == current[h] IN
    /\ state' = [state EXCEPT ![p] = IF @ = "Running" THEN "Blocked" ELSE @]
    /\ blocked_on' = [blocked_on EXCEPT ![p] = IF state[p] = "Running" THEN reason ELSE @]
    /\ wait_for' = [wait_for EXCEPT ![p] = targets]
    /\ yield_flag' = [yield_flag EXCEPT ![h] = TRUE]
    /\ UNCHANGED <<killed, treeVars, queues, current, idle, next, dead, satp, freed, uartVars>>

Sleep(h) == Goto(h, "ecall", "epilogue") /\ Block(h, "SLEEP", {})

\* Mutant: the reader blocks without looking at the ring.
RingEmpty_Unread == TRUE

RingEmpty == rx = 0

\* sys_read of stdin: the ring is emptied first; only when it held nothing is
\* the caller blocked, in a second critical section.
ReadStdin(h) ==
    /\ \/ ~RingEmpty /\ Goto(h, "ecall", "epilogue") /\ rx' \in 0 .. (rx - 1)
       \/ RingEmpty /\ Goto(h, "ecall", "reading") /\ UNCHANGED rx
    /\ UNCHANGED <<procVars, treeVars, queues, hartVars, next, dead, satp, freed, uart_irq>>

BlockStdin(h) == Goto(h, "reading", "epilogue") /\ Block(h, "STDIN", {})

\* Mutant: the reaper leaves the Zombie in its slot while it frees the space.
SlotTaken_Later(c) == state

SlotTaken(c) == [state EXCEPT ![c] = "Reaped"]

\* waitpid finds a zombie child: its slot is taken, its queue entries purged.
WaitReap(h, T, c) ==
    LET p == current[h] IN
    /\ Goto(h, "ecall", "reap")
    /\ c \in children[p] \cap T
    /\ state[c] = "Zombie"
    /\ state' = SlotTaken(c)
    /\ queues' = [v \in Harts |-> [queues[v] EXCEPT ![c] = 0]]
    /\ children' = [children EXCEPT ![p] = @ \ {c}]
    /\ dead' = [dead EXCEPT ![h] = c]
    /\ UNCHANGED <<blocked_on, wait_for, killed, parent, hartVars, next, satp, freed, uartVars>>

\* The rest of the reap, without the lock: free_user_space and the trap frame.
FreeSpace(h) ==
    /\ Goto(h, "reap", "epilogue")
    /\ freed' = freed \cup {dead[h]}
    /\ dead' = [dead EXCEPT ![h] = NoPid]
    /\ UNCHANGED <<procVars, treeVars, queues, hartVars, next, satp, uartVars>>

\* waitpid finds children but no zombie: blocked in the section that looked.
WaitBlock(h, T) ==
    LET kids == children[current[h]] \cap T IN
    /\ Goto(h, "ecall", "epilogue")
    /\ \E c \in kids : HasSlot(c)
    /\ \A c \in kids : state[c] # "Zombie"
    /\ Block(h, "WAIT", T)

----------------------------------------------------------------------------
(* Leaving a process *)

\* Mutant: only the children that still live are moved to init.
Orphans_LiveOnly(p) == {c \in Pids : c \in children[p] /\ HasSlot(c) /\ state[c] # "Zombie"}

\* The children that go to init: live ones and zombies alike.
Orphans(p) == {c \in Pids : c \in children[p] /\ HasSlot(c)}

\* Mutant: a parent whose hart has not reached its epilogue yet is not woken.
WaitingParent_NotCurrent(p) ==
    {q \in Pids : q = parent[p] /\ state[q] = "Blocked" /\ blocked_on[q] = "WAIT" /\ ~Owned(q)}

\* The parent of p if it sleeps in waitpid, else nobody.
WaitingParent(p) ==
    {q \in Pids : q = parent[p] /\ state[q] = "Blocked" /\ blocked_on[q] = "WAIT"}

\* exit() up to the unlock: the process turns Zombie, its children go to
\* init, a parent asleep in waitpid is woken, and the next pid is picked.
\* Nothing but `next` of this hart remembers the picked pid until SwitchTo.
\* (The REEXIT arm, for a pid that is a Zombie already, is not a step here:
\* HartHoldsWhatItRuns says no hart calls exit() for a Zombie.)
Exit(h) ==
    LET p     == current[h]
        kids  == IF p = init THEN {} ELSE Orphans(p)
        woken == WaitingParent(p)
        st    == [q \in Pids |-> IF q = p THEN "Zombie"
                                 ELSE IF q \in woken THEN "Runnable" ELSE state[q]]
    IN
    /\ pc[h] = "dying"
    /\ pc' = [pc EXCEPT ![h] = "exited"]
    /\ state' = st
    /\ blocked_on' = [q \in Pids |-> IF q \in woken THEN "None" ELSE blocked_on[q]]
    /\ parent' = [q \in Pids |-> IF q \in kids THEN init ELSE parent[q]]
    /\ children' = IF p = init THEN children
                   ELSE [children EXCEPT ![init] = @ \cup kids, ![p] = {}]
    /\ \E got \in MaybePid :
         /\ next' = [next EXCEPT ![h] = got]
         /\ Pick(EnqueueAll(queues, woken, h), st, h, got, queues')
    /\ UNCHANGED <<wait_for, killed, hartVars, dead, satp, freed, uartVars>>

\* Mutant: the hart goes idle and keeps its claim on the task it left.
Vacated_Kept(h) == current

Vacated(h) == [current EXCEPT ![h] = NoPid]

\* switch_to: take the picked pid if it is still runnable and unowned,
\* otherwise go idle (the last arm leaves current[h] and idle[h] alone).
SwitchTo(h) ==
    LET n == next[h] IN
    /\ pc[h] = "exited"
    /\ next' = [next EXCEPT ![h] = NoPid]
    /\ IF n = NoPid
       THEN /\ idle' = [idle EXCEPT ![h] = TRUE]
            /\ current' = Vacated(h)
            /\ pc' = [pc EXCEPT ![h] = "park"]
            /\ UNCHANGED state
       ELSE IF Takeable(state, n, h)
       THEN /\ idle' = [idle EXCEPT ![h] = FALSE]
            /\ current' = [current EXCEPT ![h] = n]
            /\ state' = [state EXCEPT ![n] = "Running"]
            /\ pc' = [pc EXCEPT ![h] = "activate"]
       ELSE /\ pc' = [pc EXCEPT ![h] = "park"]
            /\ UNCHANGED <<state, current, idle>>
    /\ UNCHANGED <<blocked_on, wait_for, killed, treeVars, queues, yield_flag,
                   dead, satp, freed, uartVars>>

\* What run_on, schedule_point and switch_to share: hart h now runs `got`.
RunPicked(h, got, st) ==
    IF got = NoPid
    THEN /\ state' = st
         /\ current' = Vacated(h)
         /\ idle' = [idle EXCEPT ![h] = TRUE]
         /\ pc' = [pc EXCEPT ![h] = "park"]
    ELSE /\ state' = [st EXCEPT ![got] = "Running"]
         /\ current' = [current EXCEPT ![h] = got]
         /\ idle' = [idle EXCEPT ![h] = FALSE]
         /\ pc' = [pc EXCEPT ![h] = "activate"]

\* Mutant: only a task that is still Running is pushed back.
Requeued_RunningOnly(p) == p \in Pids /\ state[p] = "Running"

\* The interrupted task is pushed back when its time slice ended, and when it
\* was woken after it blocked but before it got here.
Requeued(p) == p \in Pids /\ state[p] \in {"Running", "Runnable"}

\* schedule_point, at the end of a trap that asked for it: the interrupted
\* task is pushed back unless it blocked, then the next one is picked.
SchedulePoint(h) ==
    LET p      == current[h]
        repush == Requeued(p)
        st     == [q \in Pids |-> IF repush /\ q = p THEN "Runnable" ELSE state[q]]
        q0     == IF repush THEN [queues EXCEPT ![h][p] = @ + 1] ELSE queues
    IN
    /\ pc[h] = "epilogue"
    /\ yield_flag[h]
    /\ yield_flag' = [yield_flag EXCEPT ![h] = FALSE]
    /\ \E got \in MaybePid :
         /\ Pick(q0, st, h, got, queues')
         /\ RunPicked(h, got, st)
    /\ UNCHANGED <<blocked_on, wait_for, killed, treeVars, next, dead, satp, freed, uartVars>>

\* A trap that did not ask to reschedule returns where it came from.
TrapReturn(h) ==
    /\ ~yield_flag[h]
    /\ Goto(h, "epilogue", IF current[h] = NoPid THEN "idle" ELSE "user")
    /\ UNCHANGED <<procVars, treeVars, queues, hartVars, next, dead, satp, freed, uartVars>>

\* run_on: a hart that has not yet entered user mode polls for its first task.
RunOn(h) ==
    /\ pc[h] = "boot"
    /\ \E got \in Pids :
         /\ Pick(queues, state, h, got, queues')
         /\ RunPicked(h, got, state)
    /\ UNCHANGED <<blocked_on, wait_for, killed, treeVars, yield_flag, next, dead,
                   satp, freed, uartVars>>

\* pt::activate of the picked task's root, after the lock was released.
Activate(h) ==
    /\ Goto(h, "activate", "user")
    /\ satp' = [satp EXCEPT ![h] = current[h]]
    /\ UNCHANGED <<procVars, treeVars, queues, hartVars, next, dead, freed, uartVars>>

\* Mutant: the idle loop stays on the root of the task that was left.
IdleRoot_Last(h) == satp[h]

IdleRoot(h) == KernelRoot

\* idle_on_hart: park on the kernel root, then wfi.
Park(h) ==
    /\ Goto(h, "park", "idle")
    /\ satp' = [satp EXCEPT ![h] = IdleRoot(h)]
    /\ UNCHANGED <<procVars, treeVars, queues, hartVars, next, dead, freed, uartVars>>

HartStep(h) ==
    \/ TrapEntry(h) \/ SoftIrq(h) \/ TimerIrq(h) \/ UartIrq(h) \/ WakeStdin(h)
    \/ OtherCall(h) \/ Yield(h) \/ Sleep(h) \/ ReadStdin(h) \/ BlockStdin(h)
    \/ FreeSpace(h) \/ Exit(h) \/ SwitchTo(h) \/ SchedulePoint(h)
    \/ TrapReturn(h) \/ RunOn(h) \/ Activate(h) \/ Park(h)
    \/ \E p \in Pids : CtrlC(h, p) \/ Kill(h, p) \/ Fork(h, p)
    \/ \E T \in WaitTargets : WaitBlock(h, T) \/ \E c \in Pids : WaitReap(h, T, c)

Next == UartReceive \/ \E h \in Harts : HartStep(h)

Spec == Init /\ [][Next]_vars

----------------------------------------------------------------------------
(* Properties *)

ProcTypeOK ==
    /\ state \in [Pids -> States]
    /\ blocked_on \in [Pids -> Reasons]
    /\ wait_for \in [Pids -> SUBSET Pids]
    /\ parent \in [Pids -> MaybePid]
    /\ children \in [Pids -> SUBSET Pids]

FlagTypeOK ==
    /\ killed \in [Pids -> BOOLEAN]
    /\ idle \in [Harts -> BOOLEAN]
    /\ yield_flag \in [Harts -> BOOLEAN]
    /\ uart_irq \in BOOLEAN

HartTypeOK ==
    /\ queues \in [Harts -> [Pids -> Nat]]
    /\ current \in [Harts -> MaybePid]
    /\ pc \in [Harts -> Places]
    /\ next \in [Harts -> MaybePid]
    /\ dead \in [Harts -> MaybePid]

MemTypeOK ==
    /\ satp \in [Harts -> Pids \cup {NoPid, KernelRoot}]
    /\ freed \subseteq MaybePid
    /\ rx \in 0 .. RxCap

\* The types of the scheduler's tables; rx never exceeds the ring, which the
\* interrupt handler's overrun check keeps.
TypeOK == ProcTypeOK /\ FlagTypeOK /\ HartTypeOK /\ MemTypeOK

Queued(p) == \E h \in Harts : queues[h][p] > 0
Held(p)   == \E h \in Harts : next[h] = p

\* The invariant schedule_point's comment states, with the pid exit() has
\* picked added: a task is current on one hart, or queued once, or in the
\* hands of one exiting hart, and never two of these.  Were it to fail, two
\* harts would run one trap frame.
ExclusiveOwnership ==
    /\ \A g, h \in Harts : g # h => current[g] # current[h] \/ current[g] = NoPid
    /\ \A g, h \in Harts : g # h => next[g] # next[h] \/ next[g] = NoPid
    /\ \A h \in Harts, p \in Pids :
         queues[h][p] > 0 =>
            /\ queues[h][p] = 1
            /\ \A g \in Harts \ {h} : queues[g][p] = 0
            /\ ~Owned(p) /\ ~Held(p)
            /\ state[p] = "Runnable"
    /\ \A p \in Pids : Held(p) => ~Owned(p) /\ state[p] = "Runnable"

\* No wakeup is dropped: a Runnable task is queued, picked by an exiting hart,
\* or still current on a hart whose epilogue will push it back (the case in
\* which enqueue_locked refuses to push), and a Running one is current.
NoTaskLost ==
    \A p \in Pids :
        /\ state[p] = "Running" => Owned(p)
        /\ state[p] = "Runnable" =>
              \/ Queued(p) \/ Held(p)
              \/ \E h \in Harts : current[h] = p /\ pc[h] = "epilogue" /\ yield_flag[h]

\* current[] holds no stale claim: the task it names is Running, or the hart
\* is on its way to schedule_point with a task that has just blocked, or the
\* hart is between the two halves of exit().
HoldsWhatItRuns(h) ==
    /\ pc[h] \in {"user", "ecall", "reading", "dying", "reap", "activate"} =>
          current[h] \in Pids /\ state[current[h]] = "Running"
    /\ pc[h] \in {"irq", "uart"} /\ current[h] # NoPid =>
          state[current[h]] = "Running"
    /\ pc[h] = "epilogue" /\ current[h] # NoPid =>
             \/ state[current[h]] = "Running"
             \/ state[current[h]] \in {"Runnable", "Blocked"} /\ yield_flag[h]
    /\ pc[h] = "exited" =>
          current[h] \in Pids /\ state[current[h]] \in {"Zombie", "Reaped"}
    /\ pc[h] \in {"boot", "idle", "park"} => current[h] = NoPid
    /\ pc[h] # "exited" => next[h] = NoPid

HartHoldsWhatItRuns == \A h \in Harts : HoldsWhatItRuns(h)

\* In user mode a hart translates through the address space of the process
\* it runs, and in the idle loop through the kernel's.
UserRunsOwnSpace ==
    \A h \in Harts :
        /\ pc[h] \in {"user", "ecall", "reading", "dying", "reap"} => satp[h] = current[h]
        /\ pc[h] = "idle" => satp[h] = KernelRoot

\* exit() reparents so that no process is forgotten: every process but init
\* that still has a slot is listed by a parent that has one too.
EveryProcessHasAParent ==
    \A p \in Pids \ {init} :
        HasSlot(p) => /\ parent[p] \in Pids
                      /\ HasSlot(parent[p])
                      /\ p \in children[parent[p]]
                      /\ \A q \in Pids \ {parent[p]} : p \notin children[q]

\* A child that is a Zombie and that p, Blocked in waitpid, waits for.
MissedChild(p, c) ==
    /\ state[p] = "Blocked" /\ blocked_on[p] = "WAIT"
    /\ c \in children[p] \cap wait_for[p]
    /\ state[c] = "Zombie"

\* The zombie check and the block in waitpid are one critical section, so no
\* process other than init sleeps in waitpid next to a zombie it waits for.
NoLostWaitWakeup == \A p \in Pids \ {init}, c \in Pids : ~MissedChild(p, c)

\* A dead address space is freed by one hart, once, and only after its slot
\* was taken: two reapers never free the same root.
FreedOnce ==
    /\ \A p \in freed : p \in Pids /\ state[p] = "Reaped"
    /\ \A h \in Harts : dead[h] # NoPid =>
         /\ dead[h] \notin freed
         /\ state[dead[h]] = "Reaped"
         /\ \A g \in Harts \ {h} : dead[g] # dead[h]

\* A Zombie never runs again: it stays one until it is reaped, and a reaped
\* pid is never used again.
DeadStayDead ==
    [][\A p \in Pids :
         /\ state[p] = "Zombie" => state'[p] \in {"Zombie", "Reaped"}
         /\ state[p] = "Reaped" => state'[p] = "Reaped"]_vars

(* Statements of the code's comments that the code does not keep *)

\* idle_on_hart: a hart never keeps translating through a root that was
\* reaped and recycled.
ActiveRootIsLive == \A h \in Harts : satp[h] \notin freed

\* exit(): "orphan zombies are reaped by init's wait loop instead of leaking".
InitSeesOrphanZombies == \A c \in Pids : ~MissedChild(init, c)

\* kill: the victim "exits on next trap entry.  Wakes if blocked."  A killed
\* task may finish a timed sleep, but is not left waiting for input or a child.
KilledTaskIsNotAsleep ==
    \A p \in Pids : killed[p] /\ state[p] = "Blocked" => blocked_on[p] = "SLEEP"

\* sys_read: a reader blocked on stdin is "woken by UART ISR" when input comes.
NoReaderSleepsOnInput ==
    rx > 0 /\ ~uart_irq /\ (\A h \in Harts : pc[h] # "uart")
        => \A p \in Pids : blocked_on[p] # "STDIN"
============================================================================
