------------------------------ MODULE RunQueue ------------------------------
(***************************************************************************)
(* Which task a hart runs next: the run queues, the two-pass picks with    *)
(* CPU caps and shares, and the timer that charges ticks and preempts      *)
(* (kernel/src/task/mod.rs, timer.rs, trap.rs).                            *)
(*                                                                         *)
(* Sched shows that a task is queued at most once and never while a hart   *)
(* owns it, for any choice of the next task; this module models the choice.*)
(* A task is here either live (Runnable or Running) or not.  The per-group *)
(* counters are atomics outside the scheduler lock, so a charge is split   *)
(* into its loads and stores; a pick, under the lock, reads them in one    *)
(* step.  TICKS is kept modulo the window, and the window a group was last *)
(* charged in as: is it the window of now or not.                          *)
(***************************************************************************)
EXTENDS Integers, Sequences, SequencesExt, FiniteSetsExt

CONSTANTS
    NHarts,     \* MAX_HART
    Tasks,
    NoTask,     \* current[] of a hart that idles
    Groups,     \* control groups
    NoGroup,
    GroupOf,    \* the group of each task
    Window,     \* ticks in an accounting window (100)
    StashCap,   \* entries a scan can put aside (32, 64 in find_next)
    Uncapped,   \* the 0 stored in CG_CAP by default
    Caps,       \* percentages cg_set_cpu is called with
    Shares,     \* weights cg_set_share is called with
    UseCap      \* bound of the model: the counters of use stop there

HartIds == 0 .. NHarts - 1

ASSUME RunQueueAssumption ==
    /\ NHarts \in Nat \ {0}
    /\ NoTask \notin Tasks /\ NoGroup \notin Groups
    /\ GroupOf \in [Tasks -> Groups]
    /\ Window \in Nat \ {0} /\ Window % 2 = 0
    /\ StashCap \in Nat
    /\ Caps \subseteq Nat /\ Uncapped \notin Caps
    /\ Shares \subseteq Nat
    /\ UseCap \in Nat /\ UseCap > Window

VARIABLES
    live,      \* tasks in state Runnable or Running
    queues,    \* per hart: its run queue
    current,   \* per hart: the task it owns, or has picked for switch_to
    pc,        \* per hart: user or idle ("run"), or where in the timer trap or exit()
    charge,    \* per hart: the group whose tick cg_tick is charging
    inTime,    \* per hart: the window cg_tick computed is still that of now
    now,       \* TICKS modulo Window
    fresh,     \* per group: CG_WIN is the window of now
    use,       \* per group: CG_WIN_USE
    cap,       \* per group: CG_CAP
    share      \* per group: CG_SHARE

taskVars  == <<live, queues, current>>
acctVars  == <<fresh, use>>
limitVars == <<cap, share>>
Places == {"run", "ticked", "open", "reset", "add", "check", "resched", "switch"}

trapVars  == <<pc, charge, inTime>>
vars == <<taskVars, trapVars, now, acctVars, limitVars>>

Init ==
    /\ \E p \in Tasks : /\ live = {p}
                        /\ queues = [h \in HartIds |-> IF h = 0 THEN <<p>> ELSE <<>>]
    /\ current = [h \in HartIds |-> NoTask]
    /\ pc = [h \in HartIds |-> "run"]
    /\ charge = [h \in HartIds |-> NoGroup]
    /\ inTime = [h \in HartIds |-> FALSE]
    /\ now = 0
    /\ fresh = [g \in Groups |-> TRUE]
    /\ use = [g \in Groups |-> 0]
    /\ cap = [g \in Groups |-> Uncapped]
    /\ share = [g \in Groups |-> 1]

----------------------------------------------------------------------------
(* Picking a task *)

\* cg_over_quota: more ticks used than the cap's share of the ticks elapsed.
OverQuota(g) ==
    /\ cap[g] # Uncapped
    /\ fresh[g]
    /\ use[g] * 100 > cap[g] * (now + 1)

\* cg_vruntime.
Vruntime(g) == IF fresh[g] THEN (use[g] * 1024) \div share[g] ELSE 0

\* An entry is stale when its task is not live or another hart owns it.
Alive(h, p) == p \in live /\ \A g \in HartIds \ {h} : current[g] # p

\* Mutant: a stash that is full loses the task.
Park_Overflow(acc, e) ==
    IF Len(acc.stash) < StashCap THEN [acc EXCEPT !.stash = Append(@, e)] ELSE acc

\* park!: put an entry aside, or straight back when the stash is full.
Park(acc, e) ==
    IF Len(acc.stash) < StashCap
    THEN [acc EXCEPT !.stash = Append(@, e)]
    ELSE [acc EXCEPT !.back = Append(@, e)]

\* Mutant: the task whose group used most for its weight wins.
Beats_MoreUsed(p, best) == Vruntime(GroupOf[p]) > Vruntime(GroupOf[best])

\* Mutant: an equal virtual run time displaces the task found first.
Beats_OrTies(p, best) == Vruntime(GroupOf[p]) <= Vruntime(GroupOf[best])

Beats(p, best) == Vruntime(GroupOf[p]) < Vruntime(GroupOf[best])

\* One entry <<queue, task>> of a first-pass scan: drop it when stale, park it
\* when its group is over quota, else the lesser virtual run time stays best.
Consider(h, acc, e) ==
    IF ~Alive(h, e[2]) THEN acc
    ELSE IF OverQuota(GroupOf[e[2]]) THEN Park(acc, e)
    ELSE IF acc.best = <<>> THEN [acc EXCEPT !.best = e]
    ELSE IF Beats(e[2], acc.best[2]) THEN [Park(acc, acc.best) EXCEPT !.best = e]
    ELSE Park(acc, e)

\* The entries of the queues vs of qs, in scanning order.
Entries(qs, vs) ==
    FlattenSeq([i \in DOMAIN vs |-> [k \in DOMAIN qs[vs[i]] |-> <<vs[i], qs[vs[i]][k]>>]])

\* The tasks of the entries that are of queue v, in their order.
TasksOf(v, es) ==
    LET mine[i \in 0 .. Len(es)] ==
            IF i = 0 THEN <<>>
            ELSE IF es[i][1] = v THEN Append(mine[i - 1], es[i][2]) ELSE mine[i - 1]
    IN mine[Len(es)]

\* The first pass over the queues vs: caps and virtual run times count.
ScanQuota(h, qs, vs) ==
    LET es  == Entries(qs, vs)
        acc[i \in 0 .. Len(es)] ==
            IF i = 0 THEN [best |-> <<>>, stash |-> <<>>, back |-> <<>>]
            ELSE Consider(h, acc[i - 1], es[i])
        end == acc[Len(es)]
        put == end.back \o end.stash
    IN [got    |-> IF end.best = <<>> THEN NoTask ELSE end.best[2],
        queues |-> [v \in HartIds |-> IF v \in ToSet(vs) THEN TasksOf(v, put) ELSE qs[v]]]

\* The second pass over the queues vs: the first entry that is not stale.
ScanAny(h, qs, vs) ==
    LET es   == Entries(qs, vs)
        hits == {i \in DOMAIN es : Alive(h, es[i][2])}
        at   == IF hits = {} THEN Len(es) ELSE Min(hits)
        rest == SubSeq(es, at + 1, Len(es))
    IN [got    |-> IF hits = {} THEN NoTask ELSE es[at][2],
        queues |-> [v \in HartIds |-> IF v \in ToSet(vs) THEN TasksOf(v, rest) ELSE qs[v]]]

\* A hart scans its own queue first, then the others round-robin.
Ring(h) == [i \in 1 .. NHarts |-> (h + i - 1) % NHarts]

\* pick_pass: one scan per queue, until one finds a task.
PickPass(Scan(_, _, _), h, qs) ==
    LET pass[i \in 0 .. NHarts] ==
            IF i = 0 THEN [got |-> NoTask, queues |-> qs]
            ELSE LET r == pass[i - 1]
                 IN IF r.got # NoTask THEN r ELSE Scan(h, r.queues, <<Ring(h)[i]>>)
    IN pass[NHarts]

\* Mutant: a pick takes the first live task, capped or not.
PickLocked_AnyFirst(h, qs) == PickPass(ScanAny, h, qs)

\* pick_locked.
PickLocked(h, qs) ==
    LET one == PickPass(ScanQuota, h, qs)
    IN IF one.got # NoTask THEN one ELSE PickPass(ScanAny, h, one.queues)

\* find_next: each pass is one scan over all the queues.
FindNext(h, qs) ==
    LET one == ScanQuota(h, qs, Ring(h))
    IN IF one.got # NoTask THEN one ELSE ScanAny(h, one.queues, Ring(h))

----------------------------------------------------------------------------
(* The timer trap *)

Goto(h, from, to) ==
    /\ pc[h] = from
    /\ pc' = [pc EXCEPT ![h] = to]

\* timer::tick.  With the first tick of a window every stored window is old.
Tick(h) ==
    /\ Goto(h, "run", "ticked")
    /\ now' = (now + 1) % Window
    /\ IF now' = 0
       THEN fresh' = [g \in Groups |-> FALSE] /\ inTime' = [k \in HartIds |-> FALSE]
       ELSE UNCHANGED <<fresh, inTime>>
    /\ UNCHANGED <<taskVars, charge, use, limitVars>>

\* cg_tick, the loads: the group of the task this hart runs, and its window.
LoadCharge(h) ==
    /\ IF current[h] = NoTask
       THEN Goto(h, "ticked", "check") /\ UNCHANGED <<charge, inTime>>
       ELSE LET g == GroupOf[current[h]] IN
            /\ Goto(h, "ticked", IF fresh[g] THEN "add" ELSE "open")
            /\ charge' = [charge EXCEPT ![h] = g]
            /\ inTime' = [inTime EXCEPT ![h] = TRUE]
    /\ UNCHANGED <<taskVars, now, acctVars, limitVars>>

Charged(h) ==
    /\ charge' = [charge EXCEPT ![h] = NoGroup]
    /\ inTime' = [inTime EXCEPT ![h] = FALSE]

\* cg_tick, the first tick of a window: store(CG_WIN), then store(CG_WIN_USE).
OpenWindow(h) ==
    /\ Goto(h, "open", "reset")
    /\ fresh' = [fresh EXCEPT ![charge[h]] = inTime[h]]
    /\ UNCHANGED <<taskVars, charge, inTime, now, use, limitVars>>

\* Mutant: the charge is added to what the last window left.
Opened_Kept(g) == use[g] + 1

\* The use of a group whose window has just been opened.
Opened(g) == 1

ResetUse(h) ==
    /\ Goto(h, "reset", "check")
    /\ use' = [use EXCEPT ![charge[h]] = Opened(charge[h])]
    /\ Charged(h)
    /\ UNCHANGED <<taskVars, now, fresh, limitVars>>

\* cg_tick, a later tick of the window: fetch_add(CG_WIN_USE).
AddUse(h) ==
    /\ Goto(h, "add", "check")
    /\ use' = [use EXCEPT ![charge[h]] = Min({@ + 1, UseCap})]
    /\ Charged(h)
    /\ UNCHANGED <<taskVars, now, fresh, limitVars>>

\* Mutant: the comparison is with a count that now never reaches.
Preempts_OffByOne == now = Window

\* should_preempt, on the TICKS every hart counts in.
Preempts == now % 2 = 0

CheckPreempt(h) ==
    /\ Goto(h, "check", IF Preempts THEN "resched" ELSE "run")
    /\ UNCHANGED <<taskVars, charge, inTime, now, acctVars, limitVars>>

----------------------------------------------------------------------------
(* Scheduling *)

\* schedule_point: push the interrupted task back if it is still live, pick.
SchedulePoint(h) ==
    LET p    == current[h]
        qs   == IF p \in live THEN [queues EXCEPT ![h] = Append(@, p)] ELSE queues
        pick == PickLocked(h, qs)
    IN /\ Goto(h, "resched", "run")
       /\ queues' = pick.queues
       /\ current' = [current EXCEPT ![h] = pick.got]
       /\ UNCHANGED <<live, charge, inTime, now, acctVars, limitVars>>

\* A software interrupt.  kick_idle sends one to every idle hart whose own
\* queue holds a task; a hart that finds nothing goes idle again.
SoftIrq(h) ==
    /\ current[h] = NoTask /\ queues[h] # <<>>
    /\ Goto(h, "run", "resched")
    /\ UNCHANGED <<taskVars, charge, inTime, now, acctVars, limitVars>>

\* yield_now.
Yield(h) ==
    /\ current[h] # NoTask
    /\ Goto(h, "run", "resched")
    /\ UNCHANGED <<taskVars, charge, inTime, now, acctVars, limitVars>>

\* The current task blocks; its hart owns it until schedule_point.
Block(h) ==
    /\ current[h] # NoTask
    /\ Goto(h, "run", "resched")
    /\ live' = live \ {current[h]}
    /\ UNCHANGED <<queues, current, charge, inTime, now, acctVars, limitVars>>

\* fork of a new task, or wake_locked of a blocked one, on hart h: the task
\* becomes live, and is queued unless a hart still owns it.
Enter(h, p) ==
    /\ pc[h] = "run"
    /\ p \notin live
    /\ live' = live \cup {p}
    /\ queues' = IF \E g \in HartIds : current[g] = p THEN queues
                 ELSE [queues EXCEPT ![h] = Append(@, p)]
    /\ UNCHANGED <<current, trapVars, now, acctVars, limitVars>>

\* exit(): the task is gone, find_next picks the next one, and the lock is dropped.
Exit(h) ==
    /\ current[h] # NoTask
    /\ Goto(h, "run", "switch")
    /\ live' = live \ {current[h]}
    /\ LET pick == FindNext(h, queues) IN
         /\ queues' = pick.queues
         /\ current' = [current EXCEPT ![h] = pick.got]
    /\ UNCHANGED <<charge, inTime, now, acctVars, limitVars>>

\* switch_to(), under the lock again: the hart enters what it picked, or idles.  That the
\* pick is still nobody else's, for any choice of it, is in Sched.
Switch(h) ==
    /\ Goto(h, "switch", "run")
    /\ UNCHANGED <<taskVars, charge, inTime, now, acctVars, limitVars>>

\* Mutant: a percentage is stored as it comes.
Percent_Raw(pct) == pct

Percent(pct) == Min({pct, 100})

\* cg_set_cpu and cg_set_share, called by the current task.
SetCpu(h, g, pct) ==
    /\ pc[h] = "run" /\ current[h] # NoTask
    /\ cap' = [cap EXCEPT ![g] = Percent(pct)]
    /\ UNCHANGED <<taskVars, trapVars, now, acctVars, share>>

SetShare(h, g, weight) ==
    /\ pc[h] = "run" /\ current[h] # NoTask
    /\ weight \in 1 .. 1000
    /\ share' = [share EXCEPT ![g] = weight]
    /\ UNCHANGED <<taskVars, trapVars, now, acctVars, cap>>

TrapStep(h) ==
    \/ LoadCharge(h) \/ OpenWindow(h) \/ ResetUse(h) \/ AddUse(h)
    \/ CheckPreempt(h) \/ SchedulePoint(h) \/ Switch(h)

Call(h) ==
    \/ Yield(h) \/ Block(h) \/ Exit(h)
    \/ \E p \in Tasks : Enter(h, p)
    \/ \E g \in Groups, pct \in Caps : SetCpu(h, g, pct)
    \/ \E g \in Groups, w \in Shares : SetShare(h, g, w)

Next == \E h \in HartIds : Tick(h) \/ SoftIrq(h) \/ TrapStep(h) \/ Call(h)

Spec == Init /\ [][Next]_vars

\* A step of TrapStep(h), which are the steps that move a hart inside the kernel.
TrapMoves(h) == pc[h] # "run" /\ \E to \in Places : Goto(h, pc[h], to)

\* The timer of every hart keeps firing (set_next re-arms it in every tick) and
\* stays pending until the hart can take it; an IPI is delivered; kernel code
\* runs to its end.
Fairness == \A h \in HartIds : /\ SF_vars(Tick(h))
                             /\ WF_vars(SoftIrq(h))
                             /\ WF_pc(TrapMoves(h))

FairSpec == Spec /\ Fairness

----------------------------------------------------------------------------
(* Properties *)

Queued(p) == \E h \in HartIds : Contains(queues[h], p)

\* Types; a cap is a percentage, whatever cg_set_cpu was asked for.
TypeOK ==
    /\ live \subseteq Tasks
    /\ queues \in [HartIds -> Seq(Tasks)]
    /\ current \in [HartIds -> Tasks \cup {NoTask}]
    /\ pc \in [HartIds -> Places]
    /\ charge \in [HartIds -> Groups \cup {NoGroup}]
    /\ inTime \in [HartIds -> BOOLEAN]
    /\ now \in 0 .. Window - 1
    /\ fresh \in [Groups -> BOOLEAN]
    /\ use \in [Groups -> 0 .. UseCap]
    /\ cap \in [Groups -> 0 .. 100 \cup {Uncapped}]
    /\ share \in [Groups -> 1 .. 1000]

\* pop_valid_locked: throttled and losing tasks "are never lost": a live task
\* is in one queue, once, unless a hart owns it, whatever overflowed the stash.
NoEntryLost ==
    /\ \A h \in HartIds : IsInjective(queues[h])
    /\ \A h, g \in HartIds : h # g => ToSet(queues[h]) \cap ToSet(queues[g]) = {}
    /\ \A p \in live : Queued(p) <=> \A h \in HartIds : current[h] # p

\* pick_locked and find_next are work-conserving ("idleness is worse than
\* over-quota execution"): a hart goes idle only when every queue is empty.
IdleOnlyWhenEmpty ==
    \A h \in HartIds :
      current[h] # NoTask /\ current'[h] = NoTask => \A v \in HartIds : queues'[v] = <<>>

IdleMeansNoWork == [][IdleOnlyWhenEmpty]_vars

Picked(h, p) == current[h] # p /\ current'[h] = p /\ p # NoTask

\* The first pass respects the caps on every queue a hart can steal from: a
\* task over its quota runs only when all that wait are over theirs.
CapsRespected ==
    \A h \in HartIds, p \in Tasks :
      Picked(h, p) /\ OverQuota(GroupOf[p]) =>
         \A q \in Tasks : Queued(q)' => OverQuota(GroupOf[q])

CapsComeFirst == [][CapsRespected]_vars

Ahead(h, q, p) ==
    \E i, k \in DOMAIN queues[h] : i < k /\ queues[h][i] = q /\ queues[h][k] = p

\* Shares: the task a hart takes from its own queue has used least for its
\* weight among those within quota, and ties keep their order of arrival.
LeastTaken ==
    \A h \in HartIds, p, q \in Tasks :
      /\ Picked(h, p) /\ Contains(queues[h], p) /\ ~OverQuota(GroupOf[p])
      /\ Contains(queues[h], q) /\ q # p /\ ~OverQuota(GroupOf[q])
      => \/ Vruntime(GroupOf[p]) < Vruntime(GroupOf[q])
         \/ Vruntime(GroupOf[p]) = Vruntime(GroupOf[q]) /\ Ahead(h, p, q)

LeastUsedFirst == [][LeastTaken]_vars

\* On one hart no race can make a group look busier than the window is old.
UseWithinElapsed ==
    (\A h \in HartIds : pc[h] # "reset") =>
        \A g \in Groups : fresh[g] => use[g] <= now + 1

\* should_preempt: "preempt on roughly half of ticks (checked per hart on its
\* own ticks)": a hart that keeps ticking keeps being preempted.
EveryHartPreempts == \A h \in HartIds : []<>(pc[h] = "resched")

\* cg_vruntime: "never starvation (a starved task's vruntime stays low, so it
\* becomes the minimum)": a waiting task runs unless it is killed.
NoStarvation ==
    \A p \in Tasks : (p \in live /\ Queued(p)) ~> (~Queued(p))
============================================================================
