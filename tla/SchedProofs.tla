---------------------------- MODULE SchedProofs ----------------------------
(***************************************************************************)
(* Sched for any number of harts and pids: a process is run by one hart or *)
(* queued once, the tree of parents has no gap, a space is freed once, and *)
(* on one hart no wakeup is missed.  MCSched's two instances of RunQueue   *)
(* are proved about here too, with the theorems of RunQueueProofs.         *)
(***************************************************************************)
EXTENDS MCSched, TLAPS

\* A pick takes one copy of a takeable pid off a queue, or nothing, and
\* leaves queues of the same shape.
LEMMA PickType ==
    ASSUME NEW q \in [Harts -> [Pids -> Nat]], NEW st, NEW h \in Harts,
           NEW got, NEW q1, Pick(q, st, h, got, q1)
    PROVE  q1 \in [Harts -> [Pids -> Nat]]
<1>1. ASSUME NEW S PROVE Scanned(q, st, h, S) \in [Harts -> [Pids -> Nat]]
  BY DEF Scanned
<1>2. CASE q1 = Scanned(q, st, h, Harts)
  BY <1>1, <1>2
<1>3. ASSUME NEW v \in Harts, NEW S \in SUBSET Harts, {h, v} \subseteq S, got \in Pids,
             q[v][got] > 0, Takeable(st, got, h),
             q1 = [Scanned(q, st, h, S) EXCEPT ![v][got] = @ - 1]
      PROVE  q1 \in [Harts -> [Pids -> Nat]]
  <2>1. Scanned(q, st, h, S)[v][got] = q[v][got]
    BY <1>3 DEF Scanned
  <2> QED BY <1>1, <1>3, <2>1
<1> QED BY <1>2, <1>3 DEF Pick

\* enqueue_locked leaves queues of the same shape.
LEMMA EnqueueType ==
    ASSUME NEW q \in [Harts -> [Pids -> Nat]], NEW S, NEW h \in Harts
    PROVE  EnqueueAll(q, S, h) \in [Harts -> [Pids -> Nat]]
BY DEF EnqueueAll

\* Every step of a hart, and of the UART, keeps the types.
LEMMA TypeStep == TypeOK /\ [Next]_vars => TypeOK'
<1> SUFFICES ASSUME TypeOK, [Next]_vars PROVE TypeOK'
  OBVIOUS
<1> USE SchedAssumption DEF TypeOK, States, Reasons, Places, MaybePid, procVars, treeVars, hartVars,
            localVars, uartVars
<1>1. CASE UNCHANGED vars
  BY <1>1 DEF vars, ProcTypeOK, FlagTypeOK, HartTypeOK, MemTypeOK
<1>2. CASE UartReceive
  BY <1>2 DEF UartReceive, ProcTypeOK, FlagTypeOK, HartTypeOK, MemTypeOK
<1>3. ASSUME NEW h \in Harts, HartStep(h) PROVE TypeOK'
  <2>1. CASE TrapEntry(h)
    <3>1. ProcTypeOK'
      BY <2>1 DEF ProcTypeOK, TrapEntry, Goto
    <3>2. FlagTypeOK'
      BY <2>1 DEF FlagTypeOK, TrapEntry, Goto
    <3>3. HartTypeOK'
      BY <2>1 DEF HartTypeOK, TrapEntry, Goto
    <3>4. MemTypeOK'
      BY <2>1 DEF MemTypeOK, TrapEntry, Goto
    <3> QED BY <3>1, <3>2, <3>3, <3>4
  <2>2. CASE SoftIrq(h)
    BY <2>2 DEF SoftIrq, Goto, ProcTypeOK, FlagTypeOK, HartTypeOK, MemTypeOK
  <2>3. CASE TimerIrq(h)
    <3>1. ProcTypeOK'
      BY <2>3, EnqueueType DEF ProcTypeOK, TimerIrq, Goto, WakeAll
    <3>2. FlagTypeOK'
      BY <2>3, EnqueueType DEF FlagTypeOK, TimerIrq, Goto, WakeAll
    <3>3. HartTypeOK'
      BY <2>3, EnqueueType DEF HartTypeOK, TimerIrq, Goto, WakeAll
    <3>4. MemTypeOK'
      BY <2>3, EnqueueType DEF MemTypeOK, TimerIrq, Goto, WakeAll
    <3> QED BY <3>1, <3>2, <3>3, <3>4
  <2>4. CASE UartIrq(h)
    BY <2>4 DEF UartIrq, Goto, ProcTypeOK, FlagTypeOK, HartTypeOK, MemTypeOK
  <2>5. CASE WakeStdin(h)
    BY <2>5, EnqueueType DEF WakeStdin, Goto, WakeAll, ProcTypeOK, FlagTypeOK, HartTypeOK, MemTypeOK
  <2>6. CASE OtherCall(h)
    BY <2>6 DEF OtherCall, Goto, ProcTypeOK, FlagTypeOK, HartTypeOK, MemTypeOK
  <2>7. CASE Yield(h)
    BY <2>7 DEF Yield, Goto, ProcTypeOK, FlagTypeOK, HartTypeOK, MemTypeOK
  <2>8. CASE Sleep(h)
    BY <2>8 DEF Sleep, Goto, Block, ProcTypeOK, FlagTypeOK, HartTypeOK, MemTypeOK
  <2>9. CASE ReadStdin(h)
    <3>1. ProcTypeOK'
      BY <2>9 DEF ProcTypeOK, ReadStdin, Goto
    <3>2. FlagTypeOK'
      BY <2>9 DEF FlagTypeOK, ReadStdin, Goto
    <3>3. HartTypeOK'
      BY <2>9 DEF HartTypeOK, ReadStdin, Goto
    <3>4. MemTypeOK'
      BY <2>9 DEF MemTypeOK, ReadStdin, RingEmpty, Goto
    <3> QED BY <3>1, <3>2, <3>3, <3>4
  <2>10. CASE BlockStdin(h)
    BY <2>10 DEF BlockStdin, Goto, Block, ProcTypeOK, FlagTypeOK, HartTypeOK, MemTypeOK
  <2>11. CASE FreeSpace(h)
    BY <2>11 DEF FreeSpace, Goto, ProcTypeOK, FlagTypeOK, HartTypeOK, MemTypeOK
  <2>12. CASE Exit(h)
    <3>0. queues' \in [Harts -> [Pids -> Nat]]
      <4>1. EnqueueAll(queues, WaitingParent(current[h]), h) \in [Harts -> [Pids -> Nat]]
        BY EnqueueType DEF HartTypeOK
      <4>2. PICK st, got : Pick(EnqueueAll(queues, WaitingParent(current[h]), h), st, h, got, queues')
        BY <2>12 DEF Exit
      <4> QED BY <4>1, <4>2, PickType
    <3>1. ProcTypeOK'
      <4>1. state' \in [Pids -> States] /\ blocked_on' \in [Pids -> Reasons]
        BY <2>12 DEF ProcTypeOK, Exit
      <4>2. parent' \in [Pids -> MaybePid]
        BY <2>12 DEF ProcTypeOK, Exit
      <4>3. children' \in [Pids -> SUBSET Pids]
        <5>1. Orphans(current[h]) \in SUBSET Pids
          BY DEF Orphans
        <5> QED BY <2>12, <5>1 DEF ProcTypeOK, Exit
      <4>4. wait_for' = wait_for
        BY <2>12 DEF Exit
      <4> QED BY <4>1, <4>2, <4>3, <4>4 DEF ProcTypeOK
    <3>2. FlagTypeOK'
      BY <2>12, <3>0 DEF FlagTypeOK, Exit, WaitingParent, Orphans
    <3>3. HartTypeOK'
      <4>1. next' \in [Harts -> MaybePid] /\ pc' \in [Harts -> Places]
        BY <2>12 DEF HartTypeOK, Exit
      <4> QED BY <2>12, <3>0, <4>1 DEF HartTypeOK, Exit
    <3>4. MemTypeOK'
      BY <2>12, <3>0 DEF MemTypeOK, Exit, WaitingParent, Orphans
    <3> QED BY <3>1, <3>2, <3>3, <3>4
  <2>13. CASE SwitchTo(h)
    <3>1. ProcTypeOK'
      BY <2>13 DEF ProcTypeOK, SwitchTo, Vacated
    <3>2. FlagTypeOK'
      BY <2>13 DEF FlagTypeOK, SwitchTo, Vacated
    <3>3. HartTypeOK'
      <4>1. current' \in [Harts -> MaybePid] /\ next' \in [Harts -> MaybePid]
        BY <2>13 DEF HartTypeOK, SwitchTo, Vacated
      <4>2. pc' \in [Harts -> Places]
        BY <2>13 DEF HartTypeOK, SwitchTo, Places
      <4> QED BY <2>13, <4>1, <4>2 DEF HartTypeOK, SwitchTo
    <3>4. MemTypeOK'
      BY <2>13 DEF MemTypeOK, SwitchTo, Vacated
    <3> QED BY <3>1, <3>2, <3>3, <3>4
  <2>14. CASE SchedulePoint(h)
    <3>0. queues' \in [Harts -> [Pids -> Nat]]
      <4> DEFINE q0 == IF Requeued(current[h]) THEN [queues EXCEPT ![h][current[h]] = @ + 1]
                       ELSE queues
      <4>1. q0 \in [Harts -> [Pids -> Nat]]
        BY DEF Requeued, HartTypeOK
      <4>2. PICK st, got : Pick(q0, st, h, got, queues')
        BY <2>14 DEF SchedulePoint
      <4> QED BY <4>1, <4>2, PickType
    <3>1. ProcTypeOK'
      BY SMTT(20), <2>14, <3>0 DEF ProcTypeOK, SchedulePoint, RunPicked, Vacated, Requeued
    <3>2. FlagTypeOK'
      BY <2>14, <3>0 DEF FlagTypeOK, SchedulePoint, RunPicked, Vacated, Requeued
    <3>3. HartTypeOK'
      <4>1. PICK got, st : got \in MaybePid /\ RunPicked(h, got, st)
        BY <2>14 DEF SchedulePoint
      <4>2. current' \in [Harts -> MaybePid] /\ pc' \in [Harts -> Places]
        <5>1. CASE got = NoPid
          <6>1. current' = [current EXCEPT ![h] = NoPid] /\ pc' = [pc EXCEPT ![h] = "park"]
            BY <4>1, <5>1 DEF RunPicked, Vacated
          <6> QED BY <6>1 DEF HartTypeOK
        <5>2. CASE got # NoPid
          <6>1. current' = [current EXCEPT ![h] = got] /\ pc' = [pc EXCEPT ![h] = "activate"]
            BY <4>1, <5>2 DEF RunPicked
          <6> QED BY <4>1, <6>1 DEF HartTypeOK
        <5> QED BY <5>1, <5>2
      <4> QED BY <2>14, <3>0, <4>2 DEF HartTypeOK, SchedulePoint
    <3>4. MemTypeOK'
      BY <2>14, <3>0 DEF MemTypeOK, SchedulePoint, RunPicked, Vacated, Requeued
    <3> QED BY <3>1, <3>2, <3>3, <3>4
  <2>15. CASE TrapReturn(h)
    BY <2>15 DEF TrapReturn, Goto, ProcTypeOK, FlagTypeOK, HartTypeOK, MemTypeOK
  <2>16. CASE RunOn(h)
    <3>0. queues' \in [Harts -> [Pids -> Nat]]
      BY <2>16, PickType DEF RunOn, HartTypeOK
    <3>1. ProcTypeOK'
      BY <2>16, <3>0 DEF ProcTypeOK, RunOn, RunPicked
    <3>2. FlagTypeOK'
      BY <2>16, <3>0 DEF FlagTypeOK, RunOn, RunPicked
    <3>3. HartTypeOK'
      <4>1. PICK got, st : got \in MaybePid /\ RunPicked(h, got, st)
        BY <2>16 DEF RunOn
      <4>2. current' \in [Harts -> MaybePid] /\ pc' \in [Harts -> Places]
        <5>1. CASE got = NoPid
          <6>1. current' = [current EXCEPT ![h] = NoPid] /\ pc' = [pc EXCEPT ![h] = "park"]
            BY <4>1, <5>1 DEF RunPicked, Vacated
          <6> QED BY <6>1 DEF HartTypeOK
        <5>2. CASE got # NoPid
          <6>1. current' = [current EXCEPT ![h] = got] /\ pc' = [pc EXCEPT ![h] = "activate"]
            BY <4>1, <5>2 DEF RunPicked
          <6> QED BY <4>1, <6>1 DEF HartTypeOK
        <5> QED BY <5>1, <5>2
      <4> QED BY <2>16, <3>0, <4>2 DEF HartTypeOK, RunOn
    <3>4. MemTypeOK'
      BY <2>16, <3>0 DEF MemTypeOK, RunOn, RunPicked
    <3> QED BY <3>1, <3>2, <3>3, <3>4
  <2>17. CASE Activate(h)
    <3>1. ProcTypeOK'
      BY <2>17 DEF ProcTypeOK, Activate, Goto
    <3>2. FlagTypeOK'
      BY <2>17 DEF FlagTypeOK, Activate, Goto
    <3>3. HartTypeOK'
      BY <2>17 DEF HartTypeOK, Activate, Goto
    <3>4. MemTypeOK'
      BY <2>17 DEF MemTypeOK, HartTypeOK, Activate, Goto
    <3> QED BY <3>1, <3>2, <3>3, <3>4
  <2>18. CASE Park(h)
    BY <2>18 DEF Park, Goto, IdleRoot, ProcTypeOK, FlagTypeOK, HartTypeOK, MemTypeOK
  <2>19. ASSUME NEW p \in Pids, CtrlC(h, p) PROVE TypeOK'
    BY <2>19, EnqueueType DEF CtrlC, KillWith, Interrupted, WakeAll,
       ProcTypeOK, FlagTypeOK, HartTypeOK, MemTypeOK
  <2>20. ASSUME NEW p \in Pids, Kill(h, p) PROVE TypeOK'
    BY <2>20, EnqueueType DEF Kill, Goto, KillWith, Interrupted, WakeAll,
       ProcTypeOK, FlagTypeOK, HartTypeOK, MemTypeOK
  <2>21. ASSUME NEW c \in Pids, Fork(h, c) PROVE TypeOK'
    <3>1. ProcTypeOK'
      <4>1. state' \in [Pids -> States]
        BY <2>21 DEF ProcTypeOK, Fork, States
      <4>2. parent' \in [Pids -> MaybePid]
        BY <2>21 DEF ProcTypeOK, HartTypeOK, Fork
      <4>3. children' \in [Pids -> SUBSET Pids]
        BY <2>21 DEF ProcTypeOK, Fork
      <4> QED BY <2>21, <4>1, <4>2, <4>3 DEF ProcTypeOK, Fork
    <3>2. FlagTypeOK'
      BY <2>21, EnqueueType DEF FlagTypeOK, Fork, Goto
    <3>3. HartTypeOK'
      BY <2>21, EnqueueType DEF HartTypeOK, Fork, Goto
    <3>4. MemTypeOK'
      BY <2>21, EnqueueType DEF MemTypeOK, Fork, Goto
    <3> QED BY <3>1, <3>2, <3>3, <3>4
  <2>22. ASSUME NEW T \in WaitTargets, WaitBlock(h, T) PROVE TypeOK'
    BY <2>22 DEF WaitBlock, Goto, Block,
       ProcTypeOK, FlagTypeOK, HartTypeOK, MemTypeOK
  <2>23. ASSUME NEW T \in WaitTargets, NEW c \in Pids, WaitReap(h, T, c) PROVE TypeOK'
    BY <2>23 DEF WaitReap, Goto, SlotTaken,
       ProcTypeOK, FlagTypeOK, HartTypeOK, MemTypeOK
  <2> QED
    BY <1>3, <2>1, <2>2, <2>3, <2>4, <2>5, <2>6, <2>7, <2>8, <2>9, <2>10, <2>11, <2>12, <2>13, <2>14, <2>15, <2>16, <2>17, <2>18, <2>19, <2>20, <2>21, <2>22, <2>23
    DEF HartStep
<1> QED
  BY <1>1, <1>2, <1>3 DEF Next

\* The boot state has the types.
LEMMA TypeInit == Init => TypeOK
<1> SUFFICES ASSUME Init PROVE TypeOK
  OBVIOUS
<1> USE SchedAssumption DEF Init, States, Reasons, Places, MaybePid
<1>1. ProcTypeOK
  BY DEF ProcTypeOK
<1>2. FlagTypeOK
  BY DEF FlagTypeOK
<1>3. HartTypeOK
  BY DEF HartTypeOK
<1>4. MemTypeOK
  BY DEF MemTypeOK
<1> QED BY <1>1, <1>2, <1>3, <1>4 DEF TypeOK

\* Type correctness, for any number of harts and pids.
THEOREM TypeCorrect == Spec => []TypeOK
BY TypeInit, TypeStep, PTL DEF Spec

----------------------------------------------------------------------------
(* Ownership.  The three parts are inductive only together: that a waker may
   leave a task to its hart's epilogue (NoTaskLost) rests on where that hart
   is (HartHoldsWhatItRuns), and that a pick cannot hand out a task twice rests
   on every queued entry being unowned and queued once (ExclusiveOwnership). *)

OwnInv == TypeOK /\ ExclusiveOwnership /\ NoTaskLost /\ HartHoldsWhatItRuns

QueuedOnce(q) ==
    \A v \in Harts, x \in Pids :
        q[v][x] > 0 => q[v][x] = 1 /\ \A g \in Harts \ {v} : q[g][x] = 0

NoStaleEntry(q, st, h) ==
    \A v \in Harts, x \in Pids : q[v][x] > 0 => Takeable(st, x, h)

PickOutcome(q, got, q1) ==
    \/ got = NoPid /\ q1 = q /\ \A v \in Harts, x \in Pids : q[v][x] = 0
    \/ got \in Pids /\ \E v \in Harts : q[v][got] = 1 /\ q1 = [q EXCEPT ![v][got] = 0]

\* With no stale and no double entry a pick drops nothing: it removes the one
\* entry of the pid it returns, and fails only on empty queues.
LEMMA PickClean ==
    ASSUME NEW q \in [Harts -> [Pids -> Nat]], NEW st, NEW h \in Harts,
           NEW got, NEW q1, Pick(q, st, h, got, q1), QueuedOnce(q),
           NoStaleEntry(q, st, h)
    PROVE  PickOutcome(q, got, q1)
<1> USE DEF NoStaleEntry, PickOutcome
<1>1. ASSUME NEW S PROVE Scanned(q, st, h, S) = q
  <2>1. \A v \in Harts : [x \in Pids |-> IF v \in S /\ ~Takeable(st, x, h) THEN 0 ELSE q[v][x]]
                         = q[v]
    <3> SUFFICES ASSUME NEW v \in Harts
                 PROVE  \A x \in Pids : (IF v \in S /\ ~Takeable(st, x, h) THEN 0 ELSE q[v][x])
                                        = q[v][x]
      OBVIOUS
    <3>1. \A x \in Pids : q[v][x] \in Nat
      OBVIOUS
    <3> QED BY <3>1
  <2> QED BY <2>1 DEF Scanned
<1>2. CASE /\ \A v \in Harts, x \in Pids : q[v][x] > 0 => ~Takeable(st, x, h)
           /\ got = NoPid
           /\ q1 = Scanned(q, st, h, Harts)
  <2>1. \A v \in Harts, x \in Pids : q[v][x] \in Nat /\ ~(q[v][x] > 0)
    BY <1>2
  <2> QED BY <1>1, <1>2, <2>1
<1>3. ASSUME NEW v \in Harts, NEW S \in SUBSET Harts, got \in Pids, q[v][got] > 0,
             q1 = [Scanned(q, st, h, S) EXCEPT ![v][got] = @ - 1]
      PROVE  got \in Pids /\ \E w \in Harts : q[w][got] = 1 /\ q1 = [q EXCEPT ![w][got] = 0]
  <2>1. q[v][got] = 1
    BY <1>3 DEF QueuedOnce
  <2>2. q1 = [q EXCEPT ![v][got] = @ - 1]
    BY <1>1, <1>3
  <2>3. q1 = [q EXCEPT ![v][got] = 0]
    BY <2>1, <2>2
  <2> QED BY <1>3, <2>1, <2>3
<1> QED BY <1>2, <1>3 DEF Pick

\* Waking Blocked tasks from a hart that is in a trap keeps the invariant.
LEMMA WakeKeeps ==
    ASSUME OwnInv, TypeOK', NEW h \in Harts, NEW S \in SUBSET Pids,
           \A p \in S : state[p] = "Blocked",
           WakeAll(S, h), UNCHANGED <<current, next>>,
           pc[h] \in {"irq", "uart", "ecall"},
           NEW to \in {"epilogue", "uart"}, pc' = [pc EXCEPT ![h] = to],
           pc[h] = "ecall" => to = "epilogue",
           \A g \in Harts : yield_flag[g] => yield_flag'[g]
    PROVE  OwnInv'
<1> USE DEF OwnInv
<1>0. /\ \A g \in Harts : pc[g] \in Places /\ current[g] \in MaybePid
      /\ \A g \in Harts, p \in Pids : queues[g][p] \in Nat
  BY DEF TypeOK, HartTypeOK
<1>1. ASSUME NEW p \in S, NEW g \in Harts, current[g] = p
      PROVE  g # h /\ pc[g] = "epilogue" /\ yield_flag[g]
  <2>1. current[g] # NoPid /\ state[current[g]] = "Blocked"
    BY <1>1, SchedAssumption
  <2>2. pc[g] = "epilogue"
    BY <1>0, <2>1 DEF HartHoldsWhatItRuns, HoldsWhatItRuns, Places
  <2>3. yield_flag[g]
    BY <2>1, <2>2 DEF HartHoldsWhatItRuns, HoldsWhatItRuns
  <2> QED BY <2>2, <2>3
<1>2. \A g \in Harts, p \in Pids :
        queues'[g][p] = IF g = h /\ p \in S /\ ~Owned(p) THEN queues[g][p] + 1 ELSE queues[g][p]
  BY DEF WakeAll, EnqueueAll, TypeOK, HartTypeOK
<1>3. ASSUME NEW p \in S, NEW g \in Harts PROVE queues[g][p] = 0 /\ next[g] # p
  <2>1. ~(queues[g][p] > 0)
    BY DEF ExclusiveOwnership
  <2>2. ~Held(p)
    BY DEF ExclusiveOwnership
  <2> QED BY <1>0, <2>1, <2>2 DEF Held
<1>4. \A p \in Pids : state'[p] = IF p \in S THEN "Runnable" ELSE state[p]
  BY DEF WakeAll
<1>5. \A p \in Pids : (Owned(p)' <=> Owned(p)) /\ (Held(p)' <=> Held(p))
  BY DEF Owned, Held
<1>6. ExclusiveOwnership'
  <2>1. ASSUME NEW g \in Harts, NEW p \in Pids, queues'[g][p] > 0
        PROVE  /\ queues'[g][p] = 1
               /\ \A k \in Harts \ {g} : queues'[k][p] = 0
               /\ ~Owned(p) /\ ~Held(p)
               /\ state'[p] = "Runnable"
    <3>1. CASE p \in S
      BY <1>2, <1>3, <1>4, <2>1, <3>1 DEF Held
    <3>2. CASE p \notin S
      BY <1>2, <1>4, <2>1, <3>2 DEF ExclusiveOwnership
    <3> QED BY <3>1, <3>2
  <2>2. \A p \in Pids : Held(p) => ~Owned(p) /\ state'[p] = "Runnable"
    BY <1>4 DEF ExclusiveOwnership
  <2> QED BY <1>5, <2>1, <2>2 DEF ExclusiveOwnership
<1>7. NoTaskLost'
  <2> SUFFICES ASSUME NEW p \in Pids
               PROVE  /\ state'[p] = "Running" => Owned(p)'
                      /\ state'[p] = "Runnable" =>
                            \/ Queued(p)' \/ Held(p)'
                            \/ \E g \in Harts : current'[g] = p /\ pc'[g] = "epilogue" /\ yield_flag'[g]
    BY DEF NoTaskLost
  <2>1. CASE p \in S /\ Owned(p)
    BY <1>1, <1>4, <2>1 DEF Owned
  <2>2. CASE p \in S /\ ~Owned(p)
    BY <1>0, <1>2, <1>4, <2>2 DEF Queued
  <2>3. CASE p \notin S
    <3>1. Queued(p) => Queued(p)'
      BY <1>0, <1>2, <2>3 DEF Queued
    <3>2. ASSUME NEW g \in Harts, current[g] = p, pc[g] = "epilogue", yield_flag[g]
          PROVE  current'[g] = p /\ pc'[g] = "epilogue" /\ yield_flag'[g]
      BY <3>2, <1>0 DEF TypeOK, HartTypeOK
    <3> QED BY <1>4, <1>5, <2>3, <3>1, <3>2 DEF NoTaskLost
  <2> QED BY <2>1, <2>2, <2>3
<1>8. HartHoldsWhatItRuns'
  <2> SUFFICES ASSUME NEW g \in Harts PROVE HoldsWhatItRuns(g)'
    BY DEF HartHoldsWhatItRuns
  <2>1. HoldsWhatItRuns(g)
    BY DEF HartHoldsWhatItRuns
  <2>2. CASE current[g] \in S
    <3>1. pc'[g] = "epilogue" /\ yield_flag'[g] /\ state'[current[g]] = "Runnable"
      BY <1>1, <1>4, <2>2 DEF TypeOK, HartTypeOK
    <3> QED BY <3>1, <2>1, <1>1, <2>2 DEF HoldsWhatItRuns
  <2>3. CASE current[g] \notin S
    <3>1. current[g] # NoPid => state'[current[g]] = state[current[g]]
      BY <1>0, <1>4, <2>3 DEF MaybePid
    <3>2. pc'[g] = IF g = h THEN to ELSE pc[g]
      BY DEF TypeOK, HartTypeOK
    <3> QED BY <1>0, <2>1, <3>1, <3>2, SchedAssumption DEF HoldsWhatItRuns, MaybePid
  <2> QED BY <2>2, <2>3
<1> QED BY <1>6, <1>7, <1>8

\* A step that only moves hart h, from a place where no task depends on it,
\* keeps the invariant if h holds what it runs afterwards.
LEMMA MoveKeeps ==
    ASSUME OwnInv, TypeOK', NEW h \in Harts, UNCHANGED <<state, queues, current, next>>,
           NEW to, pc' = [pc EXCEPT ![h] = to],
           pc[h] # "epilogue" \/ ~yield_flag[h],
           \A g \in Harts \ {h} : yield_flag'[g] = yield_flag[g],
           HoldsWhatItRuns(h)'
    PROVE  OwnInv'
<1> USE DEF OwnInv
<1>1. ExclusiveOwnership'
  BY DEF ExclusiveOwnership, Owned, Held
<1>2. \A g \in Harts \ {h} : pc'[g] = pc[g]
  BY DEF TypeOK, HartTypeOK
<1>3. NoTaskLost'
  BY <1>2 DEF NoTaskLost, Owned, Held, Queued
<1>4. ASSUME NEW g \in Harts, g # h PROVE HoldsWhatItRuns(g)'
  <2>1. HoldsWhatItRuns(g)
    BY DEF HartHoldsWhatItRuns
  <2> QED BY <1>2, <1>4, <2>1 DEF HoldsWhatItRuns
<1>5. HartHoldsWhatItRuns'
  BY <1>4 DEF HartHoldsWhatItRuns
<1> QED BY <1>1, <1>3, <1>5

\* block_current leaves the blocked task to its own hart's epilogue.
LEMMA BlockKeeps ==
    ASSUME OwnInv, TypeOK', NEW h \in Harts,
           NEW reason \in Reasons, NEW T \in SUBSET Pids, pc[h] \in {"ecall", "reading"}, pc' = [pc EXCEPT ![h] = "epilogue"],
           Block(h, reason, T)
    PROVE  OwnInv'
<1> USE DEF OwnInv
<1>0. /\ \A g \in Harts : pc'[g] = IF g = h THEN "epilogue" ELSE pc[g]
      /\ yield_flag'[h] = TRUE /\ \A g \in Harts \ {h} : yield_flag'[g] = yield_flag[g]
      /\ UNCHANGED <<queues, current, next>>
  BY DEF Block, TypeOK, HartTypeOK, FlagTypeOK, hartVars
<1>1. current[h] \in Pids /\ state[current[h]] = "Running" /\ next[h] = NoPid
  BY DEF HartHoldsWhatItRuns, HoldsWhatItRuns
<1>2. \A q \in Pids : state'[q] = IF q = current[h] THEN "Blocked" ELSE state[q]
  BY <1>1 DEF Block, TypeOK, ProcTypeOK
<1>3. \A g \in Harts \ {h} : current[g] # current[h]
  BY <1>1, SchedAssumption DEF ExclusiveOwnership
<1>4. ExclusiveOwnership'
  BY <1>0, <1>1, <1>2 DEF ExclusiveOwnership, Owned, Held
<1>5. NoTaskLost'
  BY <1>0, <1>1, <1>2 DEF NoTaskLost, Owned, Held, Queued
<1>6. ASSUME NEW g \in Harts PROVE HoldsWhatItRuns(g)'
  <2>1. HoldsWhatItRuns(g) /\ current[g] \in MaybePid
    BY DEF HartHoldsWhatItRuns, TypeOK, HartTypeOK
  <2>2. CASE g = h
    BY <1>0, <1>1, <1>2, <2>2 DEF HoldsWhatItRuns
  <2>3. CASE g # h
    BY <1>0, <1>2, <1>3, <2>1, <2>3 DEF HoldsWhatItRuns, MaybePid
  <2> QED BY <2>2, <2>3
<1> QED BY <1>4, <1>5, <1>6 DEF HartHoldsWhatItRuns

\* fork inserts a pid nobody holds, queued once.
LEMMA ForkKeeps ==
    ASSUME OwnInv, TypeOK', NEW h \in Harts, NEW c \in Pids, Fork(h, c)
    PROVE  OwnInv'
<1> USE DEF OwnInv
<1>0. /\ \A g \in Harts : pc'[g] = IF g = h THEN "epilogue" ELSE pc[g]
      /\ pc[h] = "ecall" /\ state[c] = "Unborn"
      /\ UNCHANGED <<yield_flag, current, next>>
  BY DEF Fork, Goto, FreshPid, TypeOK, HartTypeOK, hartVars
<1>1. \A q \in Pids : state'[q] = IF q = c THEN "Runnable" ELSE state[q]
  BY DEF Fork, TypeOK, ProcTypeOK
<1>2. ASSUME NEW g \in Harts PROVE current[g] # c /\ next[g] # c /\ queues[g][c] = 0
  <2>1. HoldsWhatItRuns(g) /\ pc[g] \in Places /\ queues[g][c] \in Nat
    BY DEF HartHoldsWhatItRuns, TypeOK, HartTypeOK
  <2>2. current[g] # c
    BY <1>0, <2>1, SchedAssumption DEF HoldsWhatItRuns, Places
  <2>3. next[g] # c
    BY <1>0 DEF ExclusiveOwnership, Held
  <2>4. ~(queues[g][c] > 0)
    BY <1>0 DEF ExclusiveOwnership
  <2> QED BY <2>1, <2>2, <2>3, <2>4
<1>3. \A g \in Harts, q \in Pids :
        queues'[g][q] = IF g = h /\ q = c THEN 1 ELSE queues[g][q]
  BY <1>2 DEF Fork, EnqueueAll, Owned, TypeOK, HartTypeOK
<1>4. ExclusiveOwnership'
  BY <1>0, <1>1, <1>2, <1>3 DEF ExclusiveOwnership, Owned, Held
<1>5. NoTaskLost'
  BY <1>0, <1>1, <1>2, <1>3 DEF NoTaskLost, Owned, Held, Queued
<1>6. ASSUME NEW g \in Harts PROVE HoldsWhatItRuns(g)'
  <2>1. HoldsWhatItRuns(g) /\ current[g] \in MaybePid
    BY DEF HartHoldsWhatItRuns, TypeOK, HartTypeOK
  <2> QED BY <1>0, <1>1, <1>2, <2>1 DEF HoldsWhatItRuns, MaybePid
<1> QED BY <1>4, <1>5, <1>6 DEF HartHoldsWhatItRuns

\* waitpid takes the slot of a Zombie, which is queued nowhere; a hart that
\* still names it is between the halves of exit().
LEMMA ReapKeeps ==
    ASSUME OwnInv, TypeOK', NEW h \in Harts, NEW T, NEW c \in Pids, WaitReap(h, T, c)
    PROVE  OwnInv'
<1> USE DEF OwnInv
<1>0. /\ \A g \in Harts : pc'[g] = IF g = h THEN "reap" ELSE pc[g]
      /\ pc[h] = "ecall" /\ state[c] = "Zombie"
      /\ UNCHANGED <<yield_flag, current, next>>
  BY DEF WaitReap, Goto, TypeOK, HartTypeOK, hartVars
<1>1. \A q \in Pids : state'[q] = IF q = c THEN "Reaped" ELSE state[q]
  BY DEF WaitReap, SlotTaken, TypeOK, ProcTypeOK
<1>2. \A g \in Harts, q \in Pids : queues'[g][q] = IF q = c THEN 0 ELSE queues[g][q]
  BY DEF WaitReap, TypeOK, HartTypeOK
<1>3. ExclusiveOwnership'
  BY <1>0, <1>1, <1>2 DEF ExclusiveOwnership, Owned, Held
<1>4. NoTaskLost'
  BY <1>0, <1>1, <1>2 DEF NoTaskLost, Owned, Held, Queued
<1>5. ASSUME NEW g \in Harts PROVE HoldsWhatItRuns(g)'
  <2>1. HoldsWhatItRuns(g) /\ current[g] \in MaybePid /\ pc[g] \in Places
    BY DEF HartHoldsWhatItRuns, TypeOK, HartTypeOK
  <2>2. CASE current[g] = c
    <3>1. pc[g] = "exited"
      BY <1>0, <2>1, <2>2, SchedAssumption DEF HoldsWhatItRuns, Places
    <3> QED BY <1>0, <1>1, <2>1, <2>2, <3>1 DEF HoldsWhatItRuns
  <2>3. CASE current[g] # c
    BY <1>0, <1>1, <2>1, <2>3 DEF HoldsWhatItRuns, MaybePid
  <2> QED BY <2>2, <2>3
<1> QED BY <1>3, <1>4, <1>5 DEF HartHoldsWhatItRuns

\* The heart of the scheduler: hart h gives up its task (pushed back exactly
\* when it is Runnable), picks, and takes what it picked.
LEMMA TakeKeeps ==
    ASSUME OwnInv, TypeOK', NEW h \in Harts, NEW q0 \in [Harts -> [Pids -> Nat]],
           NEW st \in [Pids -> States], NEW got \in MaybePid,
           Pick(q0, st, h, got, queues'), RunPicked(h, got, st),
           next' = next, next[h] = NoPid,
           \A g \in Harts \ {h} : yield_flag'[g] = yield_flag[g],
           \A x \in Pids : x # current[h] => st[x] = state[x],
           current[h] \in Pids => st[current[h]] \in {"Runnable", "Blocked"},
           \A g \in Harts, x \in Pids :
              q0[g][x] = IF g = h /\ x = current[h] /\ st[x] = "Runnable" THEN 1
                         ELSE queues[g][x]
    PROVE  OwnInv'
<1> USE DEF OwnInv
<1>0. /\ \A g \in Harts : pc[g] \in Places /\ current[g] \in MaybePid
      /\ \A g \in Harts, x \in Pids : queues[g][x] \in Nat
  BY DEF TypeOK, HartTypeOK
<1>1. ASSUME NEW v \in Harts, NEW x \in Pids, q0[v][x] > 0
      PROVE  /\ q0[v][x] = 1
             /\ \A g \in Harts \ {v} : q0[g][x] = 0
             /\ st[x] = "Runnable"
             /\ \A g \in Harts \ {h} : current[g] # x
             /\ ~Held(x)
             /\ x = current[h] => v = h
  <2>1. CASE x = current[h]
    <3>1. Owned(x) /\ \A g \in Harts : ~(queues[g][x] > 0)
      BY <2>1 DEF Owned, ExclusiveOwnership
    <3>2. v = h /\ st[x] = "Runnable"
      BY <1>1, <2>1, <3>1
    <3> QED BY <1>0, <2>1, <3>1, <3>2, SchedAssumption DEF ExclusiveOwnership
  <2>2. CASE x # current[h]
    <3>1. queues[v][x] > 0 /\ \A g \in Harts : q0[g][x] = queues[g][x]
      BY <1>1, <2>2
    <3> QED BY <2>2, <3>1 DEF ExclusiveOwnership, Owned
  <2> QED BY <2>1, <2>2
<1>2. QueuedOnce(q0)
  BY <1>1 DEF QueuedOnce
<1>3. NoStaleEntry(q0, st, h)
  BY <1>1 DEF NoStaleEntry, Takeable
<1>4. PickOutcome(q0, got, queues')
  BY <1>2, <1>3, PickClean
<1>5. \A x \in Pids : Held(x)' <=> Held(x)
  BY DEF Held
<1>6. CASE got = NoPid
  <2>0. /\ \A g \in Harts, x \in Pids : q0[g][x] = 0 /\ queues'[g][x] = 0
        /\ state' = st
        /\ \A g \in Harts : current'[g] = IF g = h THEN NoPid ELSE current[g]
        /\ \A g \in Harts : pc'[g] = IF g = h THEN "park" ELSE pc[g]
    BY <1>4, <1>6, SchedAssumption DEF PickOutcome, RunPicked, Vacated, TypeOK, HartTypeOK
  <2>1. current[h] \in Pids => st[current[h]] = "Blocked"
    BY <2>0
  <2>2. ExclusiveOwnership'
    <3>1. \A x \in Pids : Held(x) => ~Owned(x)' /\ st[x] = "Runnable"
      BY <2>0, SchedAssumption DEF ExclusiveOwnership, Owned
    <3> QED BY <1>5, <2>0, <3>1 DEF ExclusiveOwnership
  <2>3. NoTaskLost'
    <3> SUFFICES ASSUME NEW x \in Pids
                 PROVE  /\ st[x] = "Running" => Owned(x)'
                        /\ st[x] = "Runnable" =>
                              \/ Held(x)'
                              \/ \E g \in Harts : current'[g] = x /\ pc'[g] = "epilogue" /\ yield_flag'[g]
      BY <2>0 DEF NoTaskLost
    <3>1. CASE x = current[h]
      BY <2>1, <3>1
    <3>2. CASE x # current[h]
      <4>1. ~Queued(x)
        BY <2>0, <3>2 DEF Queued
      <4> QED BY <1>5, <2>0, <3>2, <4>1 DEF NoTaskLost, Owned
    <3> QED BY <3>1, <3>2
  <2>4. ASSUME NEW g \in Harts PROVE HoldsWhatItRuns(g)'
    <3>1. HoldsWhatItRuns(g)
      BY DEF HartHoldsWhatItRuns
    <3>2. CASE g = h
      BY <2>0, <3>2, SchedAssumption DEF HoldsWhatItRuns
    <3>3. CASE g # h
      <4>1. current[g] \in Pids => current[g] # current[h]
        BY <3>3, SchedAssumption DEF ExclusiveOwnership
      <4> QED BY <1>0, <2>0, <3>1, <3>3, <4>1 DEF HoldsWhatItRuns, MaybePid
    <3> QED BY <3>2, <3>3
  <2> QED BY <2>2, <2>3, <2>4 DEF HartHoldsWhatItRuns
<1>7. CASE got \in Pids
  <2>1. PICK v \in Harts : q0[v][got] = 1 /\ queues' = [q0 EXCEPT ![v][got] = 0]
    BY <1>4, <1>7, SchedAssumption DEF PickOutcome
  <2>2. /\ \A x \in Pids : state'[x] = IF x = got THEN "Running" ELSE st[x]
        /\ \A g \in Harts : current'[g] = IF g = h THEN got ELSE current[g]
        /\ \A g \in Harts : pc'[g] = IF g = h THEN "activate" ELSE pc[g]
    BY <1>7, SchedAssumption DEF RunPicked, TypeOK, HartTypeOK
  <2>3. \A g \in Harts : queues'[g][got] = 0
    BY <1>1, <1>7, <2>1
  <2>4. \A g \in Harts, x \in Pids : x # got => queues'[g][x] = q0[g][x]
    BY <2>1
  <2>5. ~Held(got) /\ \A g \in Harts \ {h} : current[g] # got
    BY <1>1, <1>7, <2>1
  <2>6. ExclusiveOwnership'
    <3>1. ASSUME NEW g \in Harts, NEW x \in Pids, queues'[g][x] > 0
          PROVE  /\ queues'[g][x] = 1
                 /\ \A k \in Harts \ {g} : queues'[k][x] = 0
                 /\ ~Owned(x)' /\ ~Held(x)'
                 /\ state'[x] = "Runnable"
      <4>1. x # got
        BY <2>3, <3>1
      <4> QED BY <1>1, <1>5, <2>2, <2>4, <3>1, <4>1 DEF Owned
    <3>2. \A x \in Pids : Held(x) => ~Owned(x)' /\ state'[x] = "Runnable"
      <4> SUFFICES ASSUME NEW x \in Pids, Held(x) PROVE ~Owned(x)' /\ state'[x] = "Runnable"
        OBVIOUS
      <4>1. x # got /\ ~Owned(x) /\ state[x] = "Runnable"
        BY <2>5 DEF ExclusiveOwnership
      <4> QED BY <2>2, <4>1 DEF Owned
    <3>3. \A g, k \in Harts : g # k => current'[g] # current'[k] \/ current'[g] = NoPid
      BY <2>2, <2>5 DEF ExclusiveOwnership
    <3> QED BY <1>5, <3>1, <3>2, <3>3 DEF ExclusiveOwnership
  <2>7. NoTaskLost'
    <3> SUFFICES ASSUME NEW x \in Pids
                 PROVE  /\ state'[x] = "Running" => Owned(x)'
                        /\ state'[x] = "Runnable" =>
                              \/ Queued(x)' \/ Held(x)'
                              \/ \E g \in Harts : current'[g] = x /\ pc'[g] = "epilogue" /\ yield_flag'[g]
      BY DEF NoTaskLost
    <3>1. CASE x = got
      BY <2>2, <3>1 DEF Owned
    <3>2. CASE x # got /\ x = current[h]
      <4>1. st[x] = "Runnable" => queues'[h][x] > 0
        BY <2>4, <3>2
      <4> QED BY <2>2, <3>2, <4>1 DEF Queued
    <3>3. CASE x # got /\ x # current[h]
      <4>1. Queued(x) => Queued(x)'
        BY <2>4, <3>3 DEF Queued
      <4>2. state'[x] = state[x]
        BY <2>2, <3>3
      <4>3. ASSUME NEW g \in Harts, current[g] = x
            PROVE  current'[g] = x /\ pc'[g] = pc[g] /\ yield_flag'[g] = yield_flag[g]
        BY <2>2, <3>3, <4>3
      <4> QED BY <1>5, <4>1, <4>2, <4>3 DEF NoTaskLost, Owned
    <3> QED BY <3>1, <3>2, <3>3
  <2>8. ASSUME NEW g \in Harts PROVE HoldsWhatItRuns(g)'
    <3>1. HoldsWhatItRuns(g)
      BY DEF HartHoldsWhatItRuns
    <3>2. CASE g = h
      BY <1>7, <2>2, <3>2 DEF HoldsWhatItRuns
    <3>3. CASE g # h
      <4>1. current[g] \in Pids => current[g] # current[h] /\ current[g] # got
        BY <2>5, <3>3, SchedAssumption DEF ExclusiveOwnership
      <4> QED BY <1>0, <2>2, <3>1, <3>3, <4>1 DEF HoldsWhatItRuns, MaybePid
    <3> QED BY <3>2, <3>3
  <2> QED BY <2>6, <2>7, <2>8 DEF HartHoldsWhatItRuns
<1> QED BY <1>6, <1>7 DEF MaybePid

\* exit() turns the running task into a Zombie and picks: the picked pid is
\* in the hands of this hart only, and a woken parent is queued once or left
\* to the epilogue of the hart it blocked on.
LEMMA ExitKeeps ==
    ASSUME OwnInv, TypeOK', NEW h \in Harts, Exit(h)
    PROVE  OwnInv'
<1> USE DEF OwnInv
<1> DEFINE p  == current[h]
           W  == WaitingParent(p)
           q0 == EnqueueAll(queues, W, h)
           st == [q \in Pids |-> IF q = p THEN "Zombie"
                                 ELSE IF q \in W THEN "Runnable" ELSE state[q]]
<1>0. /\ \A g \in Harts : pc[g] \in Places /\ current[g] \in MaybePid
      /\ \A g \in Harts, x \in Pids : queues[g][x] \in Nat
      /\ queues \in [Harts -> [Pids -> Nat]]
  BY DEF TypeOK, HartTypeOK
<1>1. /\ pc[h] = "dying" /\ \A g \in Harts : pc'[g] = IF g = h THEN "exited" ELSE pc[g]
      /\ UNCHANGED <<yield_flag, current>>
  BY DEF Exit, TypeOK, HartTypeOK, hartVars
<1>2. state' = st
  BY DEF Exit
<1>3. PICK got \in MaybePid : next' = [next EXCEPT ![h] = got] /\ Pick(q0, st, h, got, queues')
  BY DEF Exit
<1>4. p \in Pids /\ state[p] = "Running" /\ next[h] = NoPid
  BY <1>1 DEF HartHoldsWhatItRuns, HoldsWhatItRuns
<1>5. ASSUME NEW x \in W
      PROVE  /\ x \in Pids /\ state[x] = "Blocked" /\ x # p
             /\ ~Held(x) /\ \A g \in Harts : queues[g][x] = 0
  <2>1. x \in Pids /\ state[x] = "Blocked"
    BY DEF WaitingParent
  <2>2. ~Held(x) /\ \A g \in Harts : ~(queues[g][x] > 0)
    BY <2>1 DEF ExclusiveOwnership
  <2> QED BY <1>0, <1>4, <2>1, <2>2
<1>6. ASSUME NEW g \in Harts, current[g] \in W
      PROVE  pc[g] = "epilogue" /\ yield_flag[g]
  <2>1. current[g] # NoPid /\ state[current[g]] = "Blocked"
    BY <1>5, <1>6, SchedAssumption
  <2>2. HoldsWhatItRuns(g) /\ pc[g] \in Places
    BY <1>0 DEF HartHoldsWhatItRuns
  <2>3. pc[g] = "epilogue"
    BY <2>1, <2>2 DEF HoldsWhatItRuns, Places
  <2> QED BY <2>1, <2>2, <2>3 DEF HoldsWhatItRuns
<1>7. \A g \in Harts, x \in Pids :
        q0[g][x] = IF g = h /\ x \in W /\ ~Owned(x) THEN 1 ELSE queues[g][x]
  <2>1. \A g \in Harts, x \in Pids :
          q0[g][x] = IF g = h /\ x \in W /\ ~Owned(x) THEN queues[g][x] + 1 ELSE queues[g][x]
    BY <1>0 DEF EnqueueAll
  <2> HIDE DEF q0, W
  <2> QED BY <1>5, <2>1
<1>8. q0 \in [Harts -> [Pids -> Nat]]
  BY <1>0, EnqueueType
<1>9. \A x \in Pids : st[x] = IF x = p THEN "Zombie" ELSE IF x \in W THEN "Runnable" ELSE state[x]
  OBVIOUS
<1> HIDE DEF q0, W, st
<1>10. ASSUME NEW v \in Harts, NEW x \in Pids, q0[v][x] > 0
       PROVE  /\ q0[v][x] = 1
              /\ \A g \in Harts \ {v} : q0[g][x] = 0
              /\ ~Owned(x) /\ ~Held(x) /\ st[x] = "Runnable"
  <2>1. CASE x \in W
    BY <1>5, <1>7, <1>9, <1>10, <2>1
  <2>2. CASE x \notin W
    <3>1. queues[v][x] > 0 /\ \A g \in Harts : q0[g][x] = queues[g][x]
      BY <1>7, <1>10, <2>2
    <3>2. x # p
      BY <3>1 DEF ExclusiveOwnership, Owned
    <3> QED BY <1>9, <2>2, <3>1, <3>2 DEF ExclusiveOwnership
  <2> QED BY <2>1, <2>2
<1>11. QueuedOnce(q0) /\ NoStaleEntry(q0, st, h)
  BY <1>10 DEF QueuedOnce, NoStaleEntry, Takeable, Owned
<1>12. PickOutcome(q0, got, queues')
  BY <1>3, <1>8, <1>11, PickClean
<1>13. \A g \in Harts, x \in Pids : queues'[g][x] = IF x = got THEN 0 ELSE q0[g][x]
  <2>1. CASE got = NoPid
    BY <1>12, <2>1, SchedAssumption DEF PickOutcome
  <2>2. CASE got \in Pids
    <3>1. PICK v \in Harts : q0[v][got] = 1 /\ queues' = [q0 EXCEPT ![v][got] = 0]
      BY <1>12, <2>2, SchedAssumption DEF PickOutcome
    <3> QED BY <1>8, <1>10, <2>2, <3>1
  <2> QED BY <2>1, <2>2 DEF MaybePid
<1>14. got \in Pids => ~Owned(got) /\ ~Held(got) /\ st[got] = "Runnable"
  BY <1>10, <1>12, SchedAssumption DEF PickOutcome
<1>15. /\ \A g \in Harts : next'[g] = IF g = h THEN got ELSE next[g]
       /\ \A x \in Pids : (Held(x)' <=> Held(x) \/ x = got) /\ (Owned(x)' <=> Owned(x))
  <2>1. \A g \in Harts : next'[g] = IF g = h THEN got ELSE next[g]
    BY <1>3 DEF TypeOK, HartTypeOK
  <2> QED BY <1>1, <1>4, <2>1, SchedAssumption DEF Held, Owned
<1>16. ASSUME NEW x \in Pids, Held(x) PROVE ~Owned(x) /\ st[x] = "Runnable"
  <2>1. ~Owned(x) /\ state[x] = "Runnable"
    BY <1>16 DEF ExclusiveOwnership
  <2> QED BY <1>9, <2>1 DEF Owned
<1>17. ExclusiveOwnership'
  <2>1. \A g, k \in Harts : g # k => current'[g] # current'[k] \/ current'[g] = NoPid
    BY <1>1 DEF ExclusiveOwnership
  <2>2. \A g, k \in Harts : g # k => next'[g] # next'[k] \/ next'[g] = NoPid
    <3>1. \A g \in Harts : got \in Pids => next[g] # got
      BY <1>14 DEF Held
    <3> QED BY <1>15, <3>1 DEF ExclusiveOwnership, MaybePid
  <2>3. ASSUME NEW v \in Harts, NEW x \in Pids, queues'[v][x] > 0
        PROVE  /\ queues'[v][x] = 1
               /\ \A g \in Harts \ {v} : queues'[g][x] = 0
               /\ ~Owned(x)' /\ ~Held(x)' /\ state'[x] = "Runnable"
    <3>1. x # got /\ q0[v][x] > 0 /\ \A g \in Harts : queues'[g][x] = q0[g][x]
      BY <1>13, <2>3
    <3> QED BY <1>2, <1>10, <1>15, <3>1
  <2>4. \A x \in Pids : Held(x)' => ~Owned(x)' /\ state'[x] = "Runnable"
    BY <1>2, <1>14, <1>15, <1>16
  <2> QED BY <2>1, <2>2, <2>3, <2>4 DEF ExclusiveOwnership
<1>18. NoTaskLost'
  <2> SUFFICES ASSUME NEW x \in Pids
               PROVE  /\ st[x] = "Running" => Owned(x)'
                      /\ st[x] = "Runnable" =>
                            \/ Queued(x)' \/ Held(x)'
                            \/ \E g \in Harts : current'[g] = x /\ pc'[g] = "epilogue" /\ yield_flag'[g]
    BY <1>2 DEF NoTaskLost
  <2>1. st[x] = "Running" => Owned(x)'
    BY <1>9, <1>15 DEF NoTaskLost
  <2>2. ASSUME NEW g \in Harts, q0[g][x] > 0 PROVE Queued(x)' \/ Held(x)'
    BY <1>13, <1>15, <2>2 DEF Queued
  <2>3. ASSUME NEW g \in Harts, current[g] = x, pc[g] = "epilogue", yield_flag[g]
        PROVE  current'[g] = x /\ pc'[g] = "epilogue" /\ yield_flag'[g]
    BY <1>1, <2>3
  <2>4. CASE x \in W
    <3>1. CASE Owned(x)
      BY <1>6, <2>1, <2>3, <2>4, <3>1 DEF Owned
    <3>2. CASE ~Owned(x)
      BY <1>7, <2>1, <2>2, <2>4, <3>2
    <3> QED BY <3>1, <3>2
  <2>5. CASE x \notin W
    <3>1. SUFFICES ASSUME st[x] = "Runnable"
                   PROVE  \/ Queued(x)' \/ Held(x)'
                          \/ \E g \in Harts : current'[g] = x /\ pc'[g] = "epilogue" /\ yield_flag'[g]
      BY <2>1
    <3>2. state[x] = "Runnable"
      BY <1>9, <2>5, <3>1
    <3>3. CASE Queued(x)
      BY <1>7, <2>2, <2>5, <3>3 DEF Queued
    <3>4. CASE Held(x)
      BY <1>15, <3>4
    <3>5. CASE \E g \in Harts : current[g] = x /\ pc[g] = "epilogue" /\ yield_flag[g]
      BY <2>3, <3>5
    <3> QED BY <3>2, <3>3, <3>4, <3>5 DEF NoTaskLost
  <2> QED BY <2>4, <2>5
<1>19. ASSUME NEW g \in Harts PROVE HoldsWhatItRuns(g)'
  <2>1. HoldsWhatItRuns(g)
    BY DEF HartHoldsWhatItRuns
  <2>2. CASE g = h
    BY <1>1, <1>2, <1>4, <1>9, <2>2 DEF HoldsWhatItRuns
  <2>3. CASE g # h /\ current[g] \in W
    <3>1. pc'[g] = "epilogue" /\ yield_flag'[g] /\ state'[current'[g]] = "Runnable" /\ next'[g] = next[g]
      BY <1>1, <1>2, <1>5, <1>6, <1>9, <1>15, <2>3
    <3> QED BY <1>6, <2>1, <2>3, <3>1 DEF HoldsWhatItRuns
  <2>4. CASE g # h /\ current[g] \notin W
    <3>1. current[g] \in Pids => state'[current[g]] = state[current[g]]
      <4>1. current[g] \in Pids => current[g] # p
        BY <2>4, SchedAssumption DEF ExclusiveOwnership
      <4> QED BY <1>2, <1>9, <2>4, <4>1
    <3>2. current'[g] = current[g] /\ pc'[g] = pc[g] /\ yield_flag'[g] = yield_flag[g]
          /\ next'[g] = next[g]
      BY <1>1, <1>15, <2>4
    <3> QED BY <1>0, <2>1, <3>1, <3>2 DEF HoldsWhatItRuns, MaybePid
  <2> QED BY <2>2, <2>3, <2>4
<1> QED BY <1>17, <1>18, <1>19 DEF HartHoldsWhatItRuns

\* The second half of exit(): the pid in hand is still Runnable and unowned,
\* so switch_to's last arm (park with the old claim kept) is never taken.
LEMMA SwitchKeeps ==
    ASSUME OwnInv, TypeOK', NEW h \in Harts, SwitchTo(h)
    PROVE  OwnInv'
<1> USE DEF OwnInv
<1>0. /\ \A g \in Harts : pc[g] \in Places /\ current[g] \in MaybePid /\ next[g] \in MaybePid
      /\ \A g \in Harts, x \in Pids : queues[g][x] \in Nat
  BY DEF TypeOK, HartTypeOK
<1>1. /\ pc[h] = "exited" /\ UNCHANGED <<queues, yield_flag>>
      /\ \A g \in Harts : next'[g] = IF g = h THEN NoPid ELSE next[g]
  BY DEF SwitchTo, TypeOK, HartTypeOK
<1>2. current[h] \in Pids /\ state[current[h]] \in {"Zombie", "Reaped"}
  BY <1>1 DEF HartHoldsWhatItRuns, HoldsWhatItRuns
<1>3. \A g \in Harts \ {h} : current[g] \in Pids => current[g] # current[h]
  BY SchedAssumption DEF ExclusiveOwnership
<1>4. CASE next[h] = NoPid
  <2>1. /\ state' = state
        /\ \A g \in Harts : current'[g] = IF g = h THEN NoPid ELSE current[g]
        /\ \A g \in Harts : pc'[g] = IF g = h THEN "park" ELSE pc[g]
    BY <1>4 DEF SwitchTo, Vacated, TypeOK, HartTypeOK
  <2>2. \A x \in Pids : (Held(x)' <=> Held(x)) /\ (Owned(x)' <=> Owned(x) /\ x # current[h])
    BY <1>1, <1>3, <1>4, <2>1, SchedAssumption DEF Held, Owned
  <2>3. ExclusiveOwnership'
    BY <1>1, <1>4, <2>1, <2>2 DEF ExclusiveOwnership
  <2>4. NoTaskLost'
    <3>1. \A x \in Pids : state[x] = "Running" => Owned(x)'
      BY <1>2, <2>2 DEF NoTaskLost
    <3>2. \A g \in Harts : pc[g] = "epilogue" => current'[g] = current[g] /\ pc'[g] = pc[g]
      BY <1>1, <2>1
    <3> QED BY <1>1, <2>1, <2>2, <3>1, <3>2 DEF NoTaskLost, Queued
  <2>5. ASSUME NEW g \in Harts PROVE HoldsWhatItRuns(g)'
    <3>1. HoldsWhatItRuns(g)
      BY DEF HartHoldsWhatItRuns
    <3> QED BY <1>0, <1>1, <2>1, <3>1, SchedAssumption DEF HoldsWhatItRuns, MaybePid
  <2> QED BY <2>3, <2>4, <2>5 DEF HartHoldsWhatItRuns
<1>5. CASE next[h] \in Pids
  <2> DEFINE n == next[h]
  <2>1. Held(n) /\ ~Owned(n) /\ state[n] = "Runnable"
    <3>1. Held(n)
      BY DEF Held
    <3> QED BY <1>5, <3>1 DEF ExclusiveOwnership
  <2>2. Takeable(state, n, h)
    BY <2>1 DEF Takeable, Owned
  <2>3. /\ \A x \in Pids : state'[x] = IF x = n THEN "Running" ELSE state[x]
        /\ \A g \in Harts : current'[g] = IF g = h THEN n ELSE current[g]
        /\ \A g \in Harts : pc'[g] = IF g = h THEN "activate" ELSE pc[g]
    BY <1>5, <2>2, SchedAssumption DEF SwitchTo, TypeOK, HartTypeOK, ProcTypeOK
  <2>4. \A g \in Harts : queues[g][n] = 0
    <3>1. \A g \in Harts : ~(queues[g][n] > 0)
      BY <1>5, <2>1 DEF ExclusiveOwnership
    <3> QED BY <1>0, <1>5, <3>1
  <2>5. \A g \in Harts : current[g] # n
    BY <2>1 DEF Owned
  <2>6. \A g \in Harts \ {h} : next[g] # n
    BY <1>5, SchedAssumption DEF ExclusiveOwnership
  <2>7. \A x \in Pids : /\ Held(x)' <=> Held(x) /\ x # n
                        /\ Owned(x)' <=> (Owned(x) /\ x # current[h]) \/ x = n
    BY <1>1, <1>3, <2>3, <2>6, SchedAssumption DEF Held, Owned
  <2> HIDE DEF n
  <2>8. ExclusiveOwnership'
    <3>1. \A g, k \in Harts : g # k => current'[g] # current'[k] \/ current'[g] = NoPid
      BY <2>3, <2>5 DEF ExclusiveOwnership
    <3>2. \A g, k \in Harts : g # k => next'[g] # next'[k] \/ next'[g] = NoPid
      BY <1>1 DEF ExclusiveOwnership
    <3>3. ASSUME NEW v \in Harts, NEW x \in Pids, queues'[v][x] > 0
          PROVE  /\ queues'[v][x] = 1
                 /\ \A g \in Harts \ {v} : queues'[g][x] = 0
                 /\ ~Owned(x)' /\ ~Held(x)' /\ state'[x] = "Runnable"
      <4>1. x # n
        BY <1>1, <2>4, <3>3
      <4> QED BY <1>1, <2>3, <2>7, <3>3, <4>1 DEF ExclusiveOwnership
    <3>4. \A x \in Pids : Held(x)' => ~Owned(x)' /\ state'[x] = "Runnable"
      BY <2>3, <2>7 DEF ExclusiveOwnership
    <3> QED BY <3>1, <3>2, <3>3, <3>4 DEF ExclusiveOwnership
  <2>9. NoTaskLost'
    <3>1. \A x \in Pids : state'[x] = "Running" => Owned(x)'
      BY <1>2, <2>3, <2>7 DEF NoTaskLost
    <3>2. \A g \in Harts : pc[g] = "epilogue" => current'[g] = current[g] /\ pc'[g] = pc[g]
      BY <1>1, <2>3
    <3>3. \A x \in Pids : state'[x] = "Runnable" => x # n /\ state[x] = "Runnable"
      BY <2>3
    <3> QED BY <1>1, <2>7, <3>1, <3>2, <3>3 DEF NoTaskLost, Queued
  <2>10. ASSUME NEW g \in Harts PROVE HoldsWhatItRuns(g)'
    <3>1. HoldsWhatItRuns(g)
      BY DEF HartHoldsWhatItRuns
    <3>2. n \in Pids
      BY <1>5 DEF n
    <3>3. CASE g = h
      BY <1>1, <2>3, <3>2, <3>3 DEF HoldsWhatItRuns
    <3>4. CASE g # h
      BY <1>0, <1>1, <2>3, <2>5, <3>1, <3>4 DEF HoldsWhatItRuns, MaybePid
    <3> QED BY <3>3, <3>4
  <2> QED BY <2>8, <2>9, <2>10 DEF HartHoldsWhatItRuns
<1> QED BY <1>0, <1>4, <1>5 DEF MaybePid

\* schedule_point gives up the interrupted task as TakeKeeps asks: pushed back
\* exactly when it is still Runnable or Running.
LEMMA SchedulePointKeeps ==
    ASSUME OwnInv, TypeOK', NEW h \in Harts, SchedulePoint(h)
    PROVE  OwnInv'
<1> DEFINE p  == current[h]
           st == [q \in Pids |-> IF Requeued(p) /\ q = p THEN "Runnable" ELSE state[q]]
           q0 == IF Requeued(p) THEN [queues EXCEPT ![h][p] = @ + 1] ELSE queues
<1>0. /\ queues \in [Harts -> [Pids -> Nat]] /\ state \in [Pids -> States]
      /\ p \in MaybePid
  BY DEF OwnInv, TypeOK, HartTypeOK, ProcTypeOK
<1>1. PICK got \in MaybePid : Pick(q0, st, h, got, queues') /\ RunPicked(h, got, st)
  BY DEF SchedulePoint
<1>2. /\ pc[h] = "epilogue" /\ next' = next
      /\ \A g \in Harts \ {h} : yield_flag'[g] = yield_flag[g]
  BY DEF SchedulePoint, OwnInv, TypeOK, FlagTypeOK
<1>3. next[h] = NoPid
  BY <1>2 DEF OwnInv, HartHoldsWhatItRuns, HoldsWhatItRuns
<1>4. p \in Pids => state[p] \in {"Running", "Runnable", "Blocked"}
  BY <1>2, SchedAssumption DEF OwnInv, HartHoldsWhatItRuns, HoldsWhatItRuns
<1>5. p \in Pids => \A g \in Harts : queues[g][p] = 0
  <2>1. p \in Pids => \A g \in Harts : ~(queues[g][p] > 0)
    BY DEF OwnInv, ExclusiveOwnership, Owned
  <2> QED BY <1>0, <2>1
<1>6. q0 \in [Harts -> [Pids -> Nat]]
  BY <1>0 DEF Requeued
<1>7. st \in [Pids -> States]
  BY <1>0 DEF States
<1>8. \A x \in Pids : x # p => st[x] = state[x]
  OBVIOUS
<1>9. p \in Pids => st[p] = IF Requeued(p) THEN "Runnable" ELSE "Blocked"
  BY <1>4 DEF Requeued
<1>10. \A g \in Harts, x \in Pids :
          q0[g][x] = IF g = h /\ x = p /\ st[x] = "Runnable" THEN 1 ELSE queues[g][x]
  <2> HIDE DEF st
  <2>1. CASE Requeued(p)
    BY <1>0, <1>5, <1>9, <2>1 DEF Requeued
  <2>2. CASE ~Requeued(p)
    BY <1>9, <2>2
  <2> QED BY <2>1, <2>2
<1> HIDE DEF st, q0
<1> QED
  BY <1>1, <1>2, <1>3, <1>6, <1>7, <1>8, <1>9, <1>10, TakeKeeps

\* A booting hart has no task to give up, so its first pick is a plain take.
LEMMA RunOnKeeps ==
    ASSUME OwnInv, TypeOK', NEW h \in Harts, RunOn(h)
    PROVE  OwnInv'
<1>0. queues \in [Harts -> [Pids -> Nat]] /\ state \in [Pids -> States]
  BY DEF OwnInv, TypeOK, HartTypeOK, ProcTypeOK
<1>1. PICK got \in Pids : Pick(queues, state, h, got, queues') /\ RunPicked(h, got, state)
  BY DEF RunOn
<1>2. current[h] = NoPid /\ next[h] = NoPid
  BY DEF RunOn, OwnInv, HartHoldsWhatItRuns, HoldsWhatItRuns
<1>3. next' = next /\ yield_flag' = yield_flag /\ got \in MaybePid
  BY DEF RunOn, MaybePid
<1>4. \A g \in Harts, x \in Pids :
         queues[g][x] = IF g = h /\ x = current[h] /\ state[x] = "Runnable" THEN 1
                        ELSE queues[g][x]
  BY <1>2, SchedAssumption
<1> QED BY <1>0, <1>1, <1>2, <1>3, <1>4, SchedAssumption, TakeKeeps

\* Initially only the boot hart's queue holds anything: init, once.
LEMMA OwnInit == Init => OwnInv
<1> SUFFICES ASSUME Init PROVE OwnInv
  OBVIOUS
<1>1. TypeOK
  BY TypeInit
<1>2. PICK boot \in Harts :
        queues = [h \in Harts |-> [p \in Pids |-> IF h = boot /\ p = init THEN 1 ELSE 0]]
  BY DEF Init
<1>3. /\ \A h \in Harts : current[h] = NoPid /\ next[h] = NoPid /\ pc[h] = "boot"
      /\ \A p \in Pids : state[p] = IF p = init THEN "Runnable" ELSE "Unborn"
  BY DEF Init
<1>4. \A p \in Pids : ~Owned(p) /\ ~Held(p)
  BY <1>3, SchedAssumption DEF Owned, Held
<1>5. \A h \in Harts, p \in Pids : queues[h][p] = IF h = boot /\ p = init THEN 1 ELSE 0
  BY <1>2
<1>6. ExclusiveOwnership
  BY <1>3, <1>4, <1>5 DEF ExclusiveOwnership
<1>7. NoTaskLost
  BY <1>3, <1>5, SchedAssumption DEF NoTaskLost, Queued
<1>8. HartHoldsWhatItRuns
  BY <1>3 DEF HartHoldsWhatItRuns, HoldsWhatItRuns
<1> QED BY <1>1, <1>6, <1>7, <1>8 DEF OwnInv

\* Every step of every hart keeps the ownership invariant.
LEMMA OwnStep == OwnInv /\ [Next]_vars => OwnInv'
<1> SUFFICES ASSUME OwnInv, [Next]_vars PROVE OwnInv'
  OBVIOUS
<1>0. TypeOK'
  BY TypeStep DEF OwnInv
<1>1. CASE UNCHANGED vars
  BY <1>0, <1>1 DEF vars, procVars, treeVars, hartVars, localVars, OwnInv, ExclusiveOwnership, NoTaskLost,
     HartHoldsWhatItRuns, HoldsWhatItRuns, Owned, Held, Queued
<1>2. CASE UartReceive
  BY <1>0, <1>2 DEF UartReceive, procVars, treeVars, hartVars, localVars, OwnInv, ExclusiveOwnership,
     NoTaskLost, HartHoldsWhatItRuns, HoldsWhatItRuns, Owned, Held, Queued
<1>3. ASSUME NEW h \in Harts, HartStep(h) PROVE OwnInv'
  <2>0. /\ HoldsWhatItRuns(h)
        /\ pc \in [Harts -> Places] /\ yield_flag \in [Harts -> BOOLEAN] /\ current[h] \in MaybePid
    BY DEF OwnInv, HartHoldsWhatItRuns, TypeOK, HartTypeOK, FlagTypeOK
  <2> USE DEF procVars, hartVars
  <2>1. CASE TrapEntry(h)
    <3>1. PICK to \in {"irq", "ecall", "dying"} :
            /\ pc' = [pc EXCEPT ![h] = to] /\ pc[h] \in {"user", "idle"}
            /\ pc[h] = "idle" => to = "irq"
      BY <2>1 DEF TrapEntry, Goto
    <3>2. UNCHANGED <<state, queues, current, next, yield_flag>>
      BY <2>1 DEF TrapEntry
    <3>3. HoldsWhatItRuns(h)'
      BY <2>0, <3>1, <3>2 DEF HoldsWhatItRuns
    <3> QED BY <1>0, <3>1, <3>2, <3>3, MoveKeeps
  <2>2. CASE SoftIrq(h)
    <3>1. HoldsWhatItRuns(h)'
      BY <2>0, <2>2 DEF SoftIrq, Goto, HoldsWhatItRuns
    <3> QED BY <1>0, <2>0, <2>2, <3>1, MoveKeeps DEF SoftIrq, Goto
  <2>3. CASE TimerIrq(h)
    <3>1. PICK S \in SUBSET {p \in Pids : state[p] = "Blocked" /\ blocked_on[p] = "SLEEP"} :
            WakeAll(S, h)
      BY <2>3 DEF TimerIrq
    <3>2. \A g \in Harts : yield_flag[g] => yield_flag'[g]
      BY <2>0, <2>3 DEF TimerIrq
    <3> QED BY <1>0, <2>3, <3>1, <3>2, WakeKeeps DEF TimerIrq, Goto
  <2>4. CASE UartIrq(h)
    <3>1. HoldsWhatItRuns(h)'
      BY <2>0, <2>4 DEF UartIrq, Goto, HoldsWhatItRuns
    <3> QED BY <1>0, <2>4, <3>1, MoveKeeps DEF UartIrq, Goto
  <2>5. CASE WakeStdin(h)
    BY <1>0, <2>5, WakeKeeps DEF WakeStdin, Goto
  <2>6. CASE OtherCall(h)
    <3>1. HoldsWhatItRuns(h)'
      BY <2>0, <2>6 DEF OtherCall, Goto, HoldsWhatItRuns
    <3> QED BY <1>0, <2>6, <3>1, MoveKeeps DEF OtherCall, Goto
  <2>7. CASE Yield(h)
    <3>1. HoldsWhatItRuns(h)'
      BY <2>0, <2>7 DEF Yield, Goto, HoldsWhatItRuns
    <3> QED BY <1>0, <2>0, <2>7, <3>1, MoveKeeps DEF Yield, Goto
  <2>8. CASE Sleep(h)
    <3>1. pc[h] = "ecall" /\ pc' = [pc EXCEPT ![h] = "epilogue"] /\ Block(h, "SLEEP", {})
      BY <2>8 DEF Sleep, Goto
    <3>2. "SLEEP" \in Reasons /\ {} \in SUBSET Pids
      BY DEF Reasons
    <3> HIDE DEF procVars, hartVars
    <3> QED BY <1>0, <3>1, <3>2, BlockKeeps
  <2>9. CASE ReadStdin(h)
    <3>1. PICK to \in {"epilogue", "reading"} : pc[h] = "ecall" /\ pc' = [pc EXCEPT ![h] = to]
      BY <2>9 DEF ReadStdin, Goto
    <3>2. UNCHANGED <<state, queues, current, next, yield_flag>>
      BY <2>9 DEF ReadStdin
    <3>3. HoldsWhatItRuns(h)'
      BY <2>0, <3>1, <3>2 DEF HoldsWhatItRuns
    <3> QED BY <1>0, <3>1, <3>2, <3>3, MoveKeeps
  <2>10. CASE BlockStdin(h)
    <3>1. pc[h] = "reading" /\ pc' = [pc EXCEPT ![h] = "epilogue"] /\ Block(h, "STDIN", {})
      BY <2>10 DEF BlockStdin, Goto
    <3>2. "STDIN" \in Reasons /\ {} \in SUBSET Pids
      BY DEF Reasons
    <3> HIDE DEF procVars, hartVars
    <3> QED BY <1>0, <3>1, <3>2, BlockKeeps
  <2>11. CASE FreeSpace(h)
    <3>1. HoldsWhatItRuns(h)'
      BY <2>0, <2>11 DEF FreeSpace, Goto, HoldsWhatItRuns
    <3> QED BY <1>0, <2>11, <3>1, MoveKeeps DEF FreeSpace, Goto
  <2>12. CASE Exit(h)
    BY <1>0, <2>12, ExitKeeps
  <2>13. CASE SwitchTo(h)
    BY <1>0, <2>13, SwitchKeeps
  <2>14. CASE SchedulePoint(h)
    BY <1>0, <2>14, SchedulePointKeeps
  <2>15. CASE TrapReturn(h)
    <3>1. HoldsWhatItRuns(h)'
      BY <2>0, <2>15 DEF TrapReturn, Goto, HoldsWhatItRuns, MaybePid
    <3> QED BY <1>0, <2>15, <3>1, MoveKeeps DEF TrapReturn, Goto
  <2>16. CASE RunOn(h)
    BY <1>0, <2>16, RunOnKeeps
  <2>17. CASE Activate(h)
    <3>1. HoldsWhatItRuns(h)'
      BY <2>0, <2>17 DEF Activate, Goto, HoldsWhatItRuns
    <3> QED BY <1>0, <2>17, <3>1, MoveKeeps DEF Activate, Goto
  <2>18. CASE Park(h)
    <3>1. HoldsWhatItRuns(h)'
      BY <2>0, <2>18 DEF Park, Goto, HoldsWhatItRuns
    <3> QED BY <1>0, <2>18, <3>1, MoveKeeps DEF Park, Goto
  <2>19. ASSUME NEW p \in Pids, CtrlC(h, p) PROVE OwnInv'
    <3>1. pc' = [pc EXCEPT ![h] = "uart"] /\ pc[h] = "uart"
      BY <2>0, <2>19 DEF CtrlC
    <3>2. WakeAll(Interrupted(p), h) /\ UNCHANGED <<current, next, yield_flag>>
      BY <2>19 DEF CtrlC, KillWith
    <3>3. Interrupted(p) \in SUBSET Pids /\ \A q \in Interrupted(p) : state[q] = "Blocked"
      BY DEF Interrupted
    <3> QED BY <1>0, <3>1, <3>2, <3>3, WakeKeeps
  <2>20. ASSUME NEW p \in Pids, Kill(h, p) PROVE OwnInv'
    <3>1. pc' = [pc EXCEPT ![h] = "epilogue"] /\ pc[h] = "ecall"
      BY <2>20 DEF Kill, Goto
    <3>2. WakeAll(Interrupted(p), h) /\ UNCHANGED <<current, next, yield_flag>>
      BY <2>20 DEF Kill, KillWith
    <3>3. Interrupted(p) \in SUBSET Pids /\ \A q \in Interrupted(p) : state[q] = "Blocked"
      BY DEF Interrupted
    <3> QED BY <1>0, <3>1, <3>2, <3>3, WakeKeeps
  <2>21. ASSUME NEW c \in Pids, Fork(h, c) PROVE OwnInv'
    BY <1>0, <2>21, ForkKeeps
  <2>22. ASSUME NEW T \in WaitTargets, WaitBlock(h, T) PROVE OwnInv'
    <3>1. pc[h] = "ecall" /\ pc' = [pc EXCEPT ![h] = "epilogue"] /\ Block(h, "WAIT", T)
      BY <2>22 DEF WaitBlock, Goto
    <3> QED BY <1>0, <3>1, BlockKeeps, SchedAssumption DEF Reasons
  <2>23. ASSUME NEW T \in WaitTargets, NEW c \in Pids, WaitReap(h, T, c) PROVE OwnInv'
    BY <1>0, <2>23, ReapKeeps
  <2> QED
    BY <1>3, <2>1, <2>2, <2>3, <2>4, <2>5, <2>6, <2>7, <2>8, <2>9, <2>10, <2>11, <2>12, <2>13,
       <2>14, <2>15, <2>16, <2>17, <2>18, <2>19, <2>20, <2>21, <2>22, <2>23
    DEF HartStep
<1> QED BY <1>1, <1>2, <1>3 DEF Next

\* The inductive invariant holds in every reachable state.
LEMMA OwnInvariant == Spec => []OwnInv
BY OwnInit, OwnStep, PTL DEF Spec

\* Two harts never run one task, and no task is queued twice or queued while
\* a hart owns it: schedule_point's ownership rule, on any number of harts.
THEOREM OwnershipHolds == Spec => []ExclusiveOwnership
BY OwnInvariant, PTL DEF OwnInv

\* No runnable task is ever forgotten: the refusal of enqueue_locked to push
\* an owned task is always made good by the epilogue of the owning hart.
THEOREM NoTaskIsLost == Spec => []NoTaskLost
BY OwnInvariant, PTL DEF OwnInv

\* current[] never names a task its hart does not run.
THEOREM NoStaleClaim == Spec => []HartHoldsWhatItRuns
BY OwnInvariant, PTL DEF OwnInv

\* A Zombie is never revived and a reaped pid never reused: no waker, picker
\* or switch touches a dead task.
THEOREM DeadStayDeadHolds == Spec => DeadStayDead
<1> DEFINE Kept(p) == /\ state[p] = "Zombie" => state'[p] \in {"Zombie", "Reaped"}
                      /\ state[p] = "Reaped" => state'[p] = "Reaped"
<1>1. OwnInv /\ [Next]_vars => [\A p \in Pids : Kept(p)]_vars
  <2> SUFFICES ASSUME OwnInv, Next, NEW x \in Pids PROVE Kept(x)
    OBVIOUS
  <2> USE DEF procVars
  <2>0. state \in [Pids -> States]
    BY DEF OwnInv, TypeOK, ProcTypeOK
  <2>1. SUFFICES ASSUME state' # state, NEW h \in Harts, HartStep(h), state[x] \in {"Zombie", "Reaped"}
                 PROVE  Kept(x)
    BY DEF Next, UartReceive
  <2>2. HoldsWhatItRuns(h)
    BY DEF OwnInv, HartHoldsWhatItRuns
  <2>3. ASSUME NEW S, WakeAll(S, h), \A p \in S : state[p] = "Blocked" PROVE Kept(x)
    BY <2>1, <2>3 DEF WakeAll
  <2>4. CASE TimerIrq(h) \/ WakeStdin(h)
    BY <2>3, <2>4 DEF TimerIrq, WakeStdin
  <2>5. ASSUME NEW p \in Pids, CtrlC(h, p) \/ Kill(h, p) PROVE Kept(x)
    BY <2>3, <2>5 DEF CtrlC, Kill, KillWith, Interrupted
  <2>6. ASSUME NEW reason, NEW T, Block(h, reason, T) PROVE Kept(x)
    BY <2>0, <2>1, <2>6 DEF Block
  <2>7. CASE Sleep(h) \/ BlockStdin(h) \/ \E T \in WaitTargets : WaitBlock(h, T)
    BY <2>6, <2>7 DEF Sleep, BlockStdin, WaitBlock
  <2>8. ASSUME NEW c \in Pids, Fork(h, c) PROVE Kept(x)
    BY <2>0, <2>1, <2>8 DEF Fork, FreshPid
  <2>9. ASSUME NEW T, NEW c \in Pids, WaitReap(h, T, c) PROVE Kept(x)
    BY <2>0, <2>1, <2>9 DEF WaitReap, SlotTaken
  <2>10. CASE Exit(h)
    <3>1. current[h] \in Pids /\ state[current[h]] = "Running" /\ x \notin WaitingParent(current[h])
      BY <2>1, <2>2, <2>10 DEF Exit, HoldsWhatItRuns, WaitingParent
    <3>2. state'[x] = state[x]
      BY <2>1, <2>10, <3>1 DEF Exit
    <3> QED BY <2>1, <3>2
  <2>11. CASE SwitchTo(h)
    BY <2>0, <2>1, <2>11 DEF SwitchTo, Takeable
  <2>12. ASSUME NEW got, NEW q, NEW st \in [Pids -> States], Pick(q, st, h, got, queues'), RunPicked(h, got, st),
                st[x] = state[x]
         PROVE  Kept(x)
    <3>1. got = NoPid \/ (got \in Pids /\ st[got] \in {"Runnable", "Running"})
      BY <2>12 DEF Pick, Takeable
    <3>2. state'[x] = st[x]
      BY <2>1, <2>12, <3>1 DEF RunPicked
    <3> QED BY <2>1, <2>12, <3>2
  <2>13. CASE SchedulePoint(h)
    <3> DEFINE st == [p \in Pids |-> IF Requeued(current[h]) /\ p = current[h] THEN "Runnable" ELSE state[p]]
    <3>1. st \in [Pids -> States] /\ st[x] = state[x]
      BY <2>0, <2>1 DEF Requeued, States
    <3>2. PICK got, q : Pick(q, st, h, got, queues') /\ RunPicked(h, got, st)
      BY <2>13 DEF SchedulePoint
    <3> HIDE DEF st
    <3> QED BY <2>12, <3>1, <3>2
  <2>14. CASE RunOn(h)
    BY <2>0, <2>12, <2>14 DEF RunOn
  <2>15. CASE \/ TrapEntry(h) \/ SoftIrq(h) \/ UartIrq(h) \/ OtherCall(h) \/ Yield(h)
              \/ ReadStdin(h) \/ FreeSpace(h) \/ TrapReturn(h) \/ Activate(h) \/ Park(h)
    BY <2>1, <2>15 DEF TrapEntry, SoftIrq, UartIrq, OtherCall, Yield, ReadStdin, FreeSpace,
       TrapReturn, Activate, Park
  <2> QED
    BY <2>1, <2>4, <2>5, <2>7, <2>8, <2>9, <2>10, <2>11, <2>13, <2>14, <2>15 DEF HartStep
<1> QED BY <1>1, OwnInvariant, PTL DEF Spec, DeadStayDead

----------------------------------------------------------------------------
(* The process tree, waitpid and address spaces.  The ownership invariant   *)
(* says that a hart in a system call or in exit() runs a live process; what *)
(* is left to say is what each step does to the tree and to who sleeps in   *)
(* waitpid.                                                                 *)

Alive(st, x) == st[x] \in {"Runnable", "Running", "Blocked"}

\* A step that neither makes nor ends a process.
Quiet ==
    /\ UNCHANGED <<parent, children>>
    /\ \A x \in Pids : state'[x] = state[x] \/ (Alive(state, x) /\ Alive(state', x))

\* A step that sends nobody to sleep in waitpid.
NoNewWaiter ==
    \A x \in Pids : state'[x] = "Blocked" /\ blocked_on'[x] = "WAIT" =>
        state[x] = "Blocked" /\ blocked_on[x] = "WAIT" /\ wait_for'[x] = wait_for[x]

\* Only fork, exit and a reap change the tree, and only waitpid sends a
\* process to sleep there: every other step is quiet.
LEMMA StepKinds ==
    OwnInv /\ [Next]_vars =>
        \/ Quiet /\ NoNewWaiter
        \/ \E h \in Harts :
             \/ \E c \in Pids : Fork(h, c)
             \/ \E T \in WaitTargets, c \in Pids : WaitReap(h, T, c)
             \/ \E T \in WaitTargets : Quiet /\ WaitBlock(h, T)
             \/ Exit(h)
<1> SUFFICES ASSUME OwnInv, [Next]_vars
             PROVE  \/ Quiet /\ NoNewWaiter
                    \/ \E h \in Harts :
                         \/ \E c \in Pids : Fork(h, c)
                         \/ \E T \in WaitTargets, c \in Pids : WaitReap(h, T, c)
                         \/ \E T \in WaitTargets : Quiet /\ WaitBlock(h, T)
                         \/ Exit(h)
  OBVIOUS
<1> USE DEF procVars, treeVars
<1>0. state \in [Pids -> States] /\ blocked_on \in [Pids -> Reasons]
  BY DEF OwnInv, TypeOK, ProcTypeOK
<1>1. ASSUME UNCHANGED <<procVars, treeVars>> PROVE Quiet /\ NoNewWaiter
  BY <1>1 DEF Quiet, NoNewWaiter
<1>2. CASE UNCHANGED vars \/ UartReceive
  BY <1>1, <1>2 DEF vars, UartReceive
<1>3. ASSUME NEW h \in Harts, HartStep(h)
      PROVE  \/ Quiet /\ NoNewWaiter
             \/ \E c \in Pids : Fork(h, c)
             \/ \E T \in WaitTargets, c \in Pids : WaitReap(h, T, c)
             \/ \E T \in WaitTargets : Quiet /\ WaitBlock(h, T)
             \/ Exit(h)
  <2>1. HoldsWhatItRuns(h)
    BY <1>3 DEF OwnInv, HartHoldsWhatItRuns
  <2>2. ASSUME NEW S, WakeAll(S, h), \A p \in S : state[p] = "Blocked",
               UNCHANGED <<parent, children, wait_for>>
        PROVE  Quiet /\ NoNewWaiter
    BY <1>0, <2>2 DEF WakeAll, Quiet, NoNewWaiter, Alive
  <2>3. CASE TimerIrq(h)
    BY <2>2, <2>3 DEF TimerIrq
  <2>4. CASE WakeStdin(h)
    BY <2>2, <2>4 DEF WakeStdin
  <2>5. ASSUME NEW p \in Pids, CtrlC(h, p) \/ Kill(h, p) PROVE Quiet /\ NoNewWaiter
    BY <2>2, <2>5 DEF CtrlC, Kill, KillWith, Interrupted
  <2>6. ASSUME NEW reason, NEW T, Block(h, reason, T), current[h] \in Pids, state[current[h]] = "Running"
        PROVE  Quiet /\ (reason # "WAIT" => NoNewWaiter)
    <3>1. /\ state' = [state EXCEPT ![current[h]] = "Blocked"]
          /\ blocked_on' = [blocked_on EXCEPT ![current[h]] = reason]
          /\ wait_for' = [wait_for EXCEPT ![current[h]] = T]
          /\ UNCHANGED <<parent, children>>
      BY <1>0, <2>6 DEF Block
    <3>2. Quiet
      BY <1>0, <2>6, <3>1 DEF Quiet, Alive
    <3>3. wait_for \in [Pids -> SUBSET Pids]
      BY DEF OwnInv, TypeOK, ProcTypeOK
    <3>4. reason # "WAIT" => NoNewWaiter
      BY <1>0, <3>1, <3>3, <2>6 DEF NoNewWaiter
    <3> QED BY <3>2, <3>4
  <2>7. CASE Sleep(h) \/ BlockStdin(h)
    BY <2>1, <2>6, <2>7 DEF Sleep, BlockStdin, Goto, HoldsWhatItRuns
  <2>8. ASSUME NEW T \in WaitTargets, WaitBlock(h, T) PROVE Quiet /\ WaitBlock(h, T)
    BY <2>1, <2>6, <2>8 DEF WaitBlock, Goto, HoldsWhatItRuns
  <2>9. CASE SwitchTo(h)
    BY <1>0, <2>9 DEF SwitchTo, Takeable, Quiet, NoNewWaiter, Alive
  <2>10. ASSUME NEW got, NEW q, NEW st \in [Pids -> States],
                Pick(q, st, h, got, queues'), RunPicked(h, got, st),
                \A x \in Pids : st[x] = state[x] \/ (Alive(state, x) /\ st[x] = "Runnable"),
                UNCHANGED <<blocked_on, wait_for, parent, children>>
         PROVE  Quiet /\ NoNewWaiter
    <3>1. got = NoPid \/ (got \in Pids /\ st[got] \in {"Runnable", "Running"})
      BY <2>10 DEF Pick, Takeable
    <3>2. \A x \in Pids : state'[x] = st[x] \/ (Alive(st, x) /\ state'[x] = "Running")
      BY <2>10, <3>1 DEF RunPicked, Alive
    <3> QED BY <2>10, <3>2 DEF Quiet, NoNewWaiter, Alive
  <2>11. CASE SchedulePoint(h)
    <3> DEFINE st == [p \in Pids |-> IF Requeued(current[h]) /\ p = current[h] THEN "Runnable" ELSE state[p]]
    <3>1. st \in [Pids -> States]
      BY <1>0 DEF Requeued, States
    <3>2. \A x \in Pids : st[x] = state[x] \/ (Alive(state, x) /\ st[x] = "Runnable")
      BY <1>0 DEF Requeued, Alive
    <3>3. PICK got, q : Pick(q, st, h, got, queues') /\ RunPicked(h, got, st)
      BY <2>11 DEF SchedulePoint
    <3>4. UNCHANGED <<blocked_on, wait_for, parent, children>>
      BY <2>11 DEF SchedulePoint
    <3> HIDE DEF st
    <3> QED BY <2>10, <3>1, <3>2, <3>3, <3>4
  <2>12. CASE RunOn(h)
    BY <1>0, <2>10, <2>12 DEF RunOn
  <2>13. CASE \/ TrapEntry(h) \/ SoftIrq(h) \/ UartIrq(h) \/ OtherCall(h) \/ Yield(h)
              \/ ReadStdin(h) \/ FreeSpace(h) \/ TrapReturn(h) \/ Activate(h) \/ Park(h)
    <3>1. UNCHANGED <<procVars, treeVars>>
      BY <2>13 DEF TrapEntry, SoftIrq, UartIrq, OtherCall, Yield, ReadStdin, FreeSpace,
         TrapReturn, Activate, Park
    <3> QED BY <1>1, <3>1
  <2> QED
    BY <1>3, <2>3, <2>4, <2>5, <2>7, <2>8, <2>9, <2>11, <2>12, <2>13 DEF HartStep
<1> QED BY <1>2, <1>3 DEF Next

----------------------------------------------------------------------------
(* The process tree *)

\* The tree is doubly linked and rooted in init: a listed child has a slot
\* and names its lister as parent, and a parent is never a Zombie whose slot
\* waitpid could take (init, which nobody lists, excepted).
TreeInv ==
    /\ HasSlot(init)
    /\ \A q \in Pids : \A p \in children[q] : HasSlot(p) /\ parent[p] = q /\ p # init
    /\ \A p \in Pids \ {init} : HasSlot(p) =>
         /\ parent[p] \in Pids
         /\ p \in children[parent[p]]
         /\ HasSlot(parent[p])
         /\ parent[p] # init => state[parent[p]] # "Zombie"

\* At boot the tree is init alone.
LEMMA TreeInit == Init => TreeInv
BY SchedAssumption DEF Init, TreeInv, HasSlot

\* A quiet step keeps the tree: no link, no birth, no death.
LEMMA QuietKeepsTree == OwnInv /\ TreeInv /\ Quiet => TreeInv'
<1> SUFFICES ASSUME OwnInv, TreeInv, Quiet PROVE TreeInv'
  OBVIOUS
<1>1. \A x \in Pids : /\ HasSlot(x)' <=> HasSlot(x)
                      /\ state'[x] = "Zombie" => state[x] = "Zombie"
  BY DEF Quiet, Alive, HasSlot
<1>2. parent' = parent /\ children' = children /\ children \in [Pids -> SUBSET Pids]
  BY DEF Quiet, OwnInv, TypeOK, ProcTypeOK
<1>3. HasSlot(init)'
  BY <1>1, SchedAssumption DEF TreeInv
<1>4. \A q \in Pids : \A p \in children'[q] : HasSlot(p)' /\ parent'[p] = q /\ p # init
  BY <1>1, <1>2 DEF TreeInv
<1>5. ASSUME NEW p \in Pids \ {init}, HasSlot(p)'
      PROVE  /\ parent'[p] \in Pids
             /\ p \in children'[parent'[p]]
             /\ HasSlot(parent[p])'
             /\ parent'[p] # init => state'[parent'[p]] # "Zombie"
  BY <1>1, <1>2, <1>5 DEF TreeInv, HasSlot
<1> QED BY <1>3, <1>4, <1>5 DEF TreeInv

\* fork links the child to a parent that is running.
LEMMA ForkKeepsTree ==
    ASSUME OwnInv, TreeInv, NEW h \in Harts, NEW c \in Pids, Fork(h, c)
    PROVE  TreeInv'
<1>1. current[h] \in Pids /\ state[current[h]] = "Running"
  BY DEF OwnInv, HartHoldsWhatItRuns, HoldsWhatItRuns, Fork, Goto
<1>2. /\ state' = [state EXCEPT ![c] = "Runnable"]
      /\ parent' = [parent EXCEPT ![c] = current[h]]
      /\ children' = [children EXCEPT ![current[h]] = @ \cup {c}]
      /\ state[c] = "Unborn"
  BY DEF Fork, FreshPid
<1>3. state \in [Pids -> States] /\ parent \in [Pids -> MaybePid] /\ children \in [Pids -> SUBSET Pids]
  BY DEF OwnInv, TypeOK, ProcTypeOK
<1>4. \A x \in Pids : /\ HasSlot(x)' <=> x = c \/ HasSlot(x)
                      /\ state'[x] = "Zombie" => state[x] = "Zombie"
  BY <1>2, <1>3 DEF HasSlot
<1>5. HasSlot(init)' /\ c # init
  BY <1>2, <1>4, SchedAssumption DEF TreeInv, HasSlot
<1>6. ASSUME NEW q \in Pids, NEW p \in children'[q]
      PROVE  HasSlot(p)' /\ parent'[p] = q /\ p # init
  <2>1. CASE p \in children[q]
    BY <1>2, <1>3, <1>4, <2>1 DEF TreeInv, HasSlot
  <2>2. CASE q = current[h] /\ p = c
    BY <1>2, <1>3, <1>4, <1>5, <2>2
  <2> QED BY <1>2, <1>3, <1>6, <2>1, <2>2
<1>7. ASSUME NEW p \in Pids \ {init}, HasSlot(p)'
      PROVE  /\ parent'[p] \in Pids
             /\ p \in children'[parent'[p]]
             /\ HasSlot(parent[p])'
             /\ parent'[p] # init => state'[parent'[p]] # "Zombie"
  <2>1. CASE p = c
    BY <1>1, <1>2, <1>3, <1>4, <2>1 DEF HasSlot
  <2>2. CASE p # c
    BY <1>2, <1>3, <1>4, <1>7, <2>2 DEF TreeInv, HasSlot
  <2> QED BY <2>1, <2>2
<1> QED BY <1>5, <1>6, <1>7 DEF TreeInv

\* waitpid unlinks a Zombie, and a Zombie has no children.
LEMMA ReapKeepsTree ==
    ASSUME OwnInv, TreeInv, NEW h \in Harts, NEW T, NEW c \in Pids, WaitReap(h, T, c)
    PROVE  TreeInv'
<1>1. current[h] \in Pids
  BY DEF OwnInv, HartHoldsWhatItRuns, HoldsWhatItRuns, WaitReap, Goto
<1>2. /\ state' = [state EXCEPT ![c] = "Reaped"]
      /\ parent' = parent
      /\ children' = [children EXCEPT ![current[h]] = @ \ {c}]
      /\ c \in children[current[h]]
      /\ state[c] = "Zombie"
  BY DEF WaitReap, SlotTaken
<1>3. state \in [Pids -> States] /\ children \in [Pids -> SUBSET Pids]
  BY DEF OwnInv, TypeOK, ProcTypeOK
<1>4. c # init /\ parent[c] = current[h]
  BY <1>1, <1>2 DEF TreeInv
<1>5. \A x \in Pids : /\ HasSlot(x)' <=> x # c /\ HasSlot(x)
                      /\ x # c => state'[x] = state[x]
  BY <1>2, <1>3 DEF HasSlot
<1>6. HasSlot(init)'
  BY <1>4, <1>5, SchedAssumption DEF TreeInv
<1>7. ASSUME NEW q \in Pids, NEW p \in children'[q]
      PROVE  HasSlot(p)' /\ parent'[p] = q /\ p # init
  <2>1. p \in children[q] /\ p \in Pids
    BY <1>2, <1>3, <1>7
  <2>2. HasSlot(p) /\ parent[p] = q /\ p # init
    BY <2>1 DEF TreeInv
  <2>3. p # c
    BY <1>1, <1>2, <1>3, <1>4, <2>2, <1>7
  <2> QED BY <1>2, <1>5, <2>1, <2>2, <2>3
<1>8. ASSUME NEW p \in Pids \ {init}, HasSlot(p)'
      PROVE  /\ parent'[p] \in Pids
             /\ p \in children'[parent'[p]]
             /\ HasSlot(parent[p])'
             /\ parent'[p] # init => state'[parent'[p]] # "Zombie"
  <2>1. p # c /\ HasSlot(p)
    BY <1>5, <1>8
  <2>2. /\ parent[p] \in Pids
        /\ p \in children[parent[p]]
        /\ HasSlot(parent[p])
        /\ parent[p] # init => state[parent[p]] # "Zombie"
    BY <2>1 DEF TreeInv
  <2>3. parent[p] # c
    BY <1>2, <1>4, <2>2
  <2>4. p \in children'[parent[p]]
    BY <1>1, <1>2, <1>3, <2>1, <2>2
  <2>5. HasSlot(parent[p])' /\ state'[parent[p]] = state[parent[p]]
    BY <1>2, <1>5, <2>2, <2>3 DEF HasSlot
  <2> QED BY <1>2, <2>2, <2>4, <2>5
<1> QED BY <1>6, <1>7, <1>8 DEF TreeInv

\* What exit() does to the tree and to the sleepers.
LEMMA ExitEffect ==
    ASSUME OwnInv, TreeInv, NEW h \in Harts, Exit(h)
    PROVE  LET p == current[h] IN
           /\ p \in Pids
           /\ state'[p] = "Zombie"
           /\ \A x \in Pids : /\ HasSlot(x)' <=> HasSlot(x)
                              /\ x # p => \/ state'[x] = state[x]
                                          \/ Alive(state, x) /\ Alive(state', x)
                              /\ x # p /\ state'[x] = "Blocked" =>
                                    /\ state[x] = "Blocked"
                                    /\ blocked_on'[x] = blocked_on[x]
                                    /\ blocked_on[x] = "WAIT" => parent[p] # x
           /\ wait_for' = wait_for
           /\ p = init => UNCHANGED <<parent, children>>
           /\ p # init =>
                /\ parent' = [q \in Pids |-> IF q \in children[p] THEN init ELSE parent[q]]
                /\ children' = [children EXCEPT ![init] = @ \cup children[p], ![p] = {}]
<1> DEFINE p == current[h]
           woken == WaitingParent(p)
<1>1. p \in Pids /\ state[p] = "Running"
  BY DEF OwnInv, HartHoldsWhatItRuns, HoldsWhatItRuns, Exit
<1>2. /\ state \in [Pids -> States] /\ blocked_on \in [Pids -> Reasons]
      /\ parent \in [Pids -> MaybePid] /\ children \in [Pids -> SUBSET Pids]
  BY DEF OwnInv, TypeOK, ProcTypeOK
<1>3. /\ state' = [q \in Pids |-> IF q = p THEN "Zombie"
                                  ELSE IF q \in woken THEN "Runnable" ELSE state[q]]
      /\ blocked_on' = [q \in Pids |-> IF q \in woken THEN "None" ELSE blocked_on[q]]
      /\ wait_for' = wait_for
  BY DEF Exit, procVars
<1>4. \A q \in woken : state[q] = "Blocked"
  BY DEF WaitingParent
<1>5. \A x \in Pids : state[x] = "Blocked" /\ blocked_on[x] = "WAIT" /\ parent[p] = x => x \in woken
  BY DEF WaitingParent
<1>6. Orphans(p) = children[p]
  BY <1>1, <1>2 DEF Orphans, TreeInv
<1>7. p = init => UNCHANGED <<parent, children>>
  BY <1>2 DEF Exit
<1>8. p # init =>
        /\ parent' = [q \in Pids |-> IF q \in children[p] THEN init ELSE parent[q]]
        /\ children' = [children EXCEPT ![init] = @ \cup children[p], ![p] = {}]
  BY <1>6 DEF Exit
<1> HIDE DEF p, woken
<1>9. \A x \in Pids : /\ HasSlot(x)' <=> HasSlot(x)
                      /\ x # p => \/ state'[x] = state[x]
                                  \/ Alive(state, x) /\ Alive(state', x)
  BY <1>1, <1>3, <1>4 DEF HasSlot, Alive
<1>10. \A x \in Pids : x # p /\ state'[x] = "Blocked" =>
                         /\ state[x] = "Blocked"
                         /\ blocked_on'[x] = blocked_on[x]
                         /\ blocked_on[x] = "WAIT" => parent[p] # x
  BY <1>3, <1>5
<1>11. state'[p] = "Zombie"
  BY <1>1, <1>3
<1> QED BY <1>1, <1>3, <1>7, <1>8, <1>9, <1>10, <1>11 DEF p

\* exit() hands every child to init, so no Zombie keeps one.
LEMMA ExitKeepsTree ==
    ASSUME OwnInv, TreeInv, NEW h \in Harts, Exit(h)
    PROVE  TreeInv'
<1> DEFINE p == current[h]
<1>1. /\ p \in Pids
      /\ \A x \in Pids : /\ HasSlot(x)' <=> HasSlot(x)
                         /\ x # p /\ state'[x] = "Zombie" => state[x] = "Zombie"
      /\ p = init => UNCHANGED <<parent, children>>
      /\ p # init =>
           /\ parent' = [q \in Pids |-> IF q \in children[p] THEN init ELSE parent[q]]
           /\ children' = [children EXCEPT ![init] = @ \cup children[p], ![p] = {}]
  BY ExitEffect DEF Alive
<1>2. parent \in [Pids -> MaybePid] /\ children \in [Pids -> SUBSET Pids]
  BY DEF OwnInv, TypeOK, ProcTypeOK
<1> HIDE DEF p
<1>3. HasSlot(init)'
  BY <1>1, SchedAssumption DEF TreeInv
<1>4. ASSUME NEW q \in Pids, NEW x \in children'[q]
      PROVE  HasSlot(x)' /\ parent'[x] = q /\ x # init
  <2>1. CASE p = init
    BY <1>1, <1>2, <1>4, <2>1 DEF TreeInv
  <2>2. CASE p # init /\ x \in children[p]
    <3>1. q = init
      BY <1>1, <1>2, <1>4, <2>2, SchedAssumption DEF TreeInv
    <3> QED BY <1>1, <1>2, <2>2, <3>1 DEF TreeInv
  <2>3. CASE p # init /\ x \notin children[p]
    <3>1. x \in children[q]
      BY <1>1, <1>2, <1>4, <2>3, SchedAssumption
    <3> QED BY <1>1, <1>2, <2>3, <3>1 DEF TreeInv
  <2> QED BY <2>1, <2>2, <2>3
<1>5. ASSUME NEW x \in Pids \ {init}, HasSlot(x)'
      PROVE  /\ parent'[x] \in Pids
             /\ x \in children'[parent'[x]]
             /\ HasSlot(parent[x])'
             /\ parent'[x] # init => state'[parent'[x]] # "Zombie"
  <2>1. /\ parent[x] \in Pids
        /\ x \in children[parent[x]]
        /\ HasSlot(parent[x])
        /\ parent[x] # init => state[parent[x]] # "Zombie"
    BY <1>1, <1>5 DEF TreeInv
  <2>2. CASE p = init
    BY <1>1, <2>1, <2>2 DEF HasSlot
  <2>3. CASE p # init /\ x \in children[p]
    <3>1. parent'[x] = init /\ x \in children'[init]
      BY <1>1, <1>2, <2>3, SchedAssumption
    <3> QED BY <1>3, <3>1, SchedAssumption DEF HasSlot
  <2>4. CASE p # init /\ x \notin children[p]
    <3>1. parent'[x] = parent[x] /\ parent[x] # p
      BY <1>1, <2>1, <2>4
    <3>2. x \in children'[parent[x]]
      BY <1>1, <1>2, <2>1, <2>4, <3>1, SchedAssumption
    <3> QED BY <1>1, <2>1, <3>1, <3>2 DEF HasSlot
  <2> QED BY <2>2, <2>3, <2>4
<1> QED BY <1>3, <1>4, <1>5 DEF TreeInv

\* Every step keeps the tree.
LEMMA TreeStep == OwnInv /\ TreeInv /\ [Next]_vars => TreeInv'
<1> SUFFICES ASSUME OwnInv, TreeInv, [Next]_vars PROVE TreeInv'
  OBVIOUS
<1> QED BY StepKinds, QuietKeepsTree, ForkKeepsTree, ReapKeepsTree, ExitKeepsTree

LEMMA TreeInvariant == Spec => [](OwnInv /\ TreeInv)
BY OwnInit, OwnStep, TreeInit, TreeStep, PTL DEF Spec

\* No process is forgotten: exit() hands its children to init before anyone
\* can take its slot, so every process but init always has a live lister.
THEOREM NobodyIsForgotten == Spec => []EveryProcessHasAParent
<1>1. TreeInv => EveryProcessHasAParent
  BY DEF TreeInv, EveryProcessHasAParent
<1> QED BY <1>1, TreeInvariant, PTL

----------------------------------------------------------------------------
(* waitpid *)

\* A step that sends nobody to sleep and ends nobody loses no wakeup.
LEMMA QuietKeepsWakeups ==
    NoLostWaitWakeup /\ Quiet /\ NoNewWaiter => NoLostWaitWakeup'
BY DEF NoLostWaitWakeup, MissedChild, Quiet, NoNewWaiter, Alive

\* waitpid looks for a zombie and blocks in one critical section.
LEMMA WaitBlockKeepsWakeups ==
    ASSUME OwnInv, NoLostWaitWakeup, Quiet, NEW h \in Harts, NEW T \in WaitTargets, WaitBlock(h, T)
    PROVE  NoLostWaitWakeup'
<1>1. current[h] \in Pids
  BY DEF OwnInv, HartHoldsWhatItRuns, HoldsWhatItRuns, WaitBlock, Goto
<1>2. /\ state \in [Pids -> States] /\ blocked_on \in [Pids -> Reasons]
      /\ wait_for \in [Pids -> SUBSET Pids]
  BY DEF OwnInv, TypeOK, ProcTypeOK
<1>3. /\ \A x \in Pids \ {current[h]} :
            /\ state'[x] = state[x]
            /\ blocked_on'[x] = blocked_on[x]
            /\ wait_for'[x] = wait_for[x]
      /\ wait_for'[current[h]] = T
      /\ children' = children
      /\ \A c \in children[current[h]] \cap T : state[c] # "Zombie"
  BY <1>1, <1>2 DEF WaitBlock, Block, treeVars
<1>4. \A c \in Pids : state'[c] = "Zombie" => state[c] = "Zombie"
  BY DEF Quiet, Alive
<1> QED BY <1>3, <1>4 DEF NoLostWaitWakeup, MissedChild

\* A new child is no zombie, and a reap only removes one.
LEMMA LinkKeepsWakeups ==
    ASSUME OwnInv, NoLostWaitWakeup, NEW h \in Harts, NEW c \in Pids,
           Fork(h, c) \/ \E T \in WaitTargets : WaitReap(h, T, c)
    PROVE  NoLostWaitWakeup'
<1>1. /\ state \in [Pids -> States]
      /\ children \in [Pids -> SUBSET Pids]
  BY DEF OwnInv, TypeOK, ProcTypeOK
<1>2. /\ \A x \in Pids \ {c} : state'[x] = state[x]
      /\ state'[c] \in {"Runnable", "Reaped"}
      /\ UNCHANGED <<blocked_on, wait_for>>
      /\ \A x \in Pids : children'[x] \subseteq children[x] \cup {c}
  BY <1>1 DEF Fork, WaitReap, SlotTaken
<1> QED BY <1>2 DEF NoLostWaitWakeup, MissedChild

\* exit() wakes the parent that waits for the new zombie; init alone can be
\* handed a zombie while it sleeps.
LEMMA ExitKeepsWakeups ==
    ASSUME OwnInv, TreeInv, NoLostWaitWakeup, NEW h \in Harts, Exit(h)
    PROVE  NoLostWaitWakeup'
<1> DEFINE p == current[h]
<1>1. /\ p \in Pids
      /\ state'[p] = "Zombie"
      /\ \A x \in Pids \ {p} :
            /\ state'[x] = "Zombie" => state[x] = "Zombie"
            /\ state'[x] = "Blocked" => /\ state[x] = "Blocked"
                                        /\ blocked_on'[x] = blocked_on[x]
                                        /\ blocked_on[x] = "WAIT" => parent[p] # x
      /\ wait_for' = wait_for
      /\ p = init => children' = children
      /\ p # init => children' = [children EXCEPT ![init] = @ \cup children[p], ![p] = {}]
  BY ExitEffect DEF Alive
<1>2. children \in [Pids -> SUBSET Pids]
  BY DEF OwnInv, TypeOK, ProcTypeOK
<1> HIDE DEF p
<1>3. ASSUME NEW q \in Pids \ {init}, NEW c \in Pids, MissedChild(q, c)' PROVE FALSE
  <2>1. q # p /\ state'[q] = "Blocked" /\ blocked_on'[q] = "WAIT" /\ state'[c] = "Zombie"
    BY <1>1, <1>3 DEF MissedChild
  <2>2. c \in children[q] /\ c \in wait_for[q]
    BY <1>1, <1>2, <1>3, <2>1 DEF MissedChild
  <2>3. c # p
    BY <1>1, <2>1, <2>2 DEF TreeInv
  <2> QED BY <1>1, <2>1, <2>2, <2>3 DEF NoLostWaitWakeup, MissedChild
<1> QED BY <1>3 DEF NoLostWaitWakeup

\* No process but init sleeps in waitpid next to a zombie it waits for, for
\* any tree of processes on any number of harts.
THEOREM NoWaitWakeupIsLost == Spec => []NoLostWaitWakeup
<1>1. Init => NoLostWaitWakeup
  BY DEF Init, NoLostWaitWakeup, MissedChild
<1>2. OwnInv /\ TreeInv /\ NoLostWaitWakeup /\ [Next]_vars => NoLostWaitWakeup'
  BY StepKinds, QuietKeepsWakeups, WaitBlockKeepsWakeups, LinkKeepsWakeups, ExitKeepsWakeups
<1> QED BY <1>1, <1>2, TreeInvariant, PTL DEF Spec

----------------------------------------------------------------------------
(* Address spaces *)

\* FreedOnce, and a hart that frees has something to free.
FreeInv ==
    /\ FreedOnce
    /\ \A h \in Harts : pc[h] = "reap" => dead[h] # NoPid

\* Only a reap and the freeing that follows it touch them.
LEMMA FreeKinds ==
    OwnInv /\ [Next]_vars =>
        \/ UNCHANGED <<freed, dead>> /\ \A g \in Harts : pc'[g] = "reap" => pc[g] = "reap"
        \/ \E h \in Harts : \/ FreeSpace(h)
                            \/ \E T \in WaitTargets, c \in Pids : WaitReap(h, T, c)
<1> SUFFICES ASSUME OwnInv, [Next]_vars
             PROVE  \/ UNCHANGED <<freed, dead>> /\ \A g \in Harts : pc'[g] = "reap" => pc[g] = "reap"
                    \/ \E h \in Harts : \/ FreeSpace(h)
                                        \/ \E T \in WaitTargets, c \in Pids : WaitReap(h, T, c)
  OBVIOUS
<1> USE DEF localVars
<1>0. pc \in [Harts -> Places]
  BY DEF OwnInv, TypeOK, HartTypeOK
<1>1. CASE UNCHANGED vars \/ UartReceive
  BY <1>1 DEF vars, UartReceive
<1>2. ASSUME NEW h \in Harts, HartStep(h), ~FreeSpace(h),
             ~\E T \in WaitTargets, c \in Pids : WaitReap(h, T, c)
      PROVE  UNCHANGED <<freed, dead>> /\ \A g \in Harts : pc'[g] = "reap" => pc[g] = "reap"
  <2> SUFFICES UNCHANGED <<freed, dead>> /\ \E to \in Places \ {"reap"} : pc' = [pc EXCEPT ![h] = to] \/ pc' = pc
    BY <1>0
  <2> USE DEF Goto, Places
  <2>1. CASE TrapEntry(h) \/ SoftIrq(h) \/ TimerIrq(h) \/ UartIrq(h) \/ WakeStdin(h)
    BY <2>1 DEF TrapEntry, SoftIrq, TimerIrq, UartIrq, WakeStdin
  <2>2. CASE OtherCall(h) \/ Yield(h) \/ Sleep(h) \/ ReadStdin(h) \/ BlockStdin(h)
             \/ \E T \in WaitTargets : WaitBlock(h, T)
    BY <2>2 DEF OtherCall, Yield, Sleep, ReadStdin, BlockStdin, WaitBlock, Block
  <2>3. CASE \E p \in Pids : CtrlC(h, p) \/ Kill(h, p) \/ Fork(h, p)
    BY <2>3 DEF CtrlC, Kill, KillWith, Fork
  <2>4. CASE Exit(h) \/ SwitchTo(h)
    BY <2>4 DEF Exit, SwitchTo
  <2>5. CASE SchedulePoint(h) \/ RunOn(h)
    BY <2>5 DEF SchedulePoint, RunOn, RunPicked
  <2>6. CASE TrapReturn(h) \/ Activate(h) \/ Park(h)
    BY <2>6 DEF TrapReturn, Activate, Park
  <2> QED BY <1>2, <2>1, <2>2, <2>3, <2>4, <2>5, <2>6 DEF HartStep
<1> QED BY <1>1, <1>2 DEF Next

\* A reaped pid keeps its state in every step.
LEMMA ReapedStays ==
    ASSUME OwnInv, TreeInv, [Next]_vars, NEW x \in Pids, state[x] = "Reaped"
    PROVE  state'[x] = "Reaped"
<1>0. state \in [Pids -> States]
  BY DEF OwnInv, TypeOK, ProcTypeOK
<1>1. CASE Quiet
  BY <1>1 DEF Quiet, Alive
<1>2. ASSUME NEW h \in Harts, Exit(h) PROVE state'[x] = "Reaped"
  <2>1. state[current[h]] = "Running"
    BY <1>2 DEF OwnInv, HartHoldsWhatItRuns, HoldsWhatItRuns, Exit
  <2> QED BY <1>2, <2>1, ExitEffect DEF Alive
<1>3. ASSUME NEW h \in Harts, NEW c \in Pids, Fork(h, c) PROVE state'[x] = "Reaped"
  BY <1>0, <1>3 DEF Fork, FreshPid
<1>4. ASSUME NEW h \in Harts, NEW c \in Pids, NEW T, WaitReap(h, T, c) PROVE state'[x] = "Reaped"
  BY <1>0, <1>4 DEF WaitReap, SlotTaken
<1> QED BY <1>1, <1>2, <1>3, <1>4, StepKinds

\* A reap takes a Zombie, which nobody has freed or is about to free.
LEMMA FreeStep == OwnInv /\ TreeInv /\ FreeInv /\ [Next]_vars => FreeInv'
<1> SUFFICES ASSUME OwnInv, TreeInv, FreeInv, [Next]_vars PROVE FreeInv'
  OBVIOUS
<1>0. dead \in [Harts -> MaybePid] /\ pc \in [Harts -> Places]
  BY DEF OwnInv, TypeOK, HartTypeOK
<1>1. \A x \in Pids : state[x] = "Reaped" => state'[x] = "Reaped"
  BY ReapedStays
<1>2. CASE UNCHANGED <<freed, dead>> /\ \A g \in Harts : pc'[g] = "reap" => pc[g] = "reap"
  BY <1>0, <1>1, <1>2 DEF FreeInv, FreedOnce, MaybePid
<1>3. ASSUME NEW h \in Harts, FreeSpace(h) PROVE FreeInv'
  <2>1. /\ freed' = freed \cup {dead[h]}
        /\ dead' = [dead EXCEPT ![h] = NoPid]
        /\ dead[h] # NoPid
        /\ pc' = [pc EXCEPT ![h] = "epilogue"]
    BY <1>3 DEF FreeSpace, Goto, FreeInv
  <2> QED BY <1>0, <1>1, <2>1 DEF FreeInv, FreedOnce, MaybePid
<1>4. ASSUME NEW h \in Harts, NEW T \in WaitTargets, NEW c \in Pids, WaitReap(h, T, c)
      PROVE  FreeInv'
  <2>1. /\ dead' = [dead EXCEPT ![h] = c]
        /\ pc' = [pc EXCEPT ![h] = "reap"]
        /\ freed' = freed
        /\ state[c] = "Zombie"
        /\ state' = [state EXCEPT ![c] = "Reaped"]
    BY <1>4 DEF WaitReap, Goto, SlotTaken
  <2>2. state'[c] = "Reaped"
    BY <2>1 DEF OwnInv, TypeOK, ProcTypeOK
  <2>3. c \notin freed /\ \A g \in Harts : dead[g] # c
    BY <2>1, SchedAssumption DEF FreeInv, FreedOnce
  <2> QED BY <1>0, <1>1, <2>1, <2>2, <2>3, SchedAssumption DEF FreeInv, FreedOnce, MaybePid
<1> QED BY <1>2, <1>3, <1>4, FreeKinds

\* Two reapers never free one address space, and none is freed before its
\* slot was taken.
THEOREM SpacesAreFreedOnce == Spec => []FreedOnce
<1>1. Init => FreeInv
  BY DEF Init, FreeInv, FreedOnce
<1>2. FreeInv => FreedOnce
  BY DEF FreeInv
<1> QED BY <1>1, <1>2, FreeStep, TreeInvariant, PTL DEF Spec

----------------------------------------------------------------------------
(* Translation *)

\* Where hart h may only translate through the root it runs on: the process
\* it runs, or the kernel's while it serves an interrupt of the idle loop.
OwnRoot(h) ==
    /\ pc[h] \in {"user", "ecall", "reading", "dying", "reap"} => satp[h] = current[h]
    /\ pc[h] \in {"irq", "uart", "epilogue"} =>
          satp[h] = IF current[h] = NoPid THEN KernelRoot ELSE current[h]
    /\ pc[h] = "idle" => satp[h] = KernelRoot

SpaceInv == \A h \in Harts : OwnRoot(h)

\* A hart changes neither the claim nor the root of another one, and it enters
\* user mode or the idle loop only from Activate, Park or the end of a trap.
LEMMA SpaceStep == OwnInv /\ SpaceInv /\ [Next]_vars => SpaceInv'
<1> SUFFICES ASSUME OwnInv, SpaceInv, [Next]_vars PROVE SpaceInv'
  OBVIOUS
<1>0. /\ pc \in [Harts -> Places]
      /\ current \in [Harts -> MaybePid]
      /\ satp \in [Harts -> Pids \cup {NoPid, KernelRoot}]
  BY DEF OwnInv, TypeOK, HartTypeOK, MemTypeOK
<1>1. CASE UNCHANGED vars \/ UartReceive
  BY <1>1 DEF vars, UartReceive, localVars, hartVars, SpaceInv, OwnRoot
<1>2. ASSUME NEW h \in Harts, HartStep(h) PROVE SpaceInv'
  <2> USE DEF Goto, hartVars, localVars
  <2>1. OwnRoot(h) /\ HoldsWhatItRuns(h)
    BY DEF SpaceInv, OwnInv, HartHoldsWhatItRuns
  <2>2. ASSUME NEW to, pc' = [pc EXCEPT ![h] = to], UNCHANGED <<current, satp>>,
               \/ to = "exited"
               \/ OwnRoot(h)'
        PROVE  SpaceInv'
    BY <1>0, <2>2 DEF SpaceInv, OwnRoot
  <2>3. ASSUME NEW to \in {"irq", "uart", "ecall", "reading", "dying", "reap", "epilogue"},
               pc' = [pc EXCEPT ![h] = to], UNCHANGED <<current, satp>>,
               pc[h] \notin {"boot", "activate", "park", "exited"},
               pc[h] = "idle" => to = "irq",
               pc[h] \in {"irq", "uart", "epilogue"} => to \in {"uart", "epilogue"}
        PROVE  SpaceInv'
    <3>1. pc'[h] = to /\ current'[h] = current[h] /\ satp'[h] = satp[h]
      BY <1>0, <2>3
    <3>2. ASSUME pc[h] \in {"user", "ecall", "reading", "dying", "reap"} PROVE OwnRoot(h)'
      BY <2>1, <2>3, <3>1, <3>2, SchedAssumption DEF OwnRoot, HoldsWhatItRuns
    <3>3. ASSUME pc[h] \in {"irq", "uart", "epilogue"} PROVE OwnRoot(h)'
      BY <2>1, <2>3, <3>1, <3>3 DEF OwnRoot
    <3>4. ASSUME pc[h] = "idle" PROVE OwnRoot(h)'
      BY <2>1, <2>3, <3>1, <3>4 DEF OwnRoot, HoldsWhatItRuns
    <3>5. OwnRoot(h)'
      BY <1>0, <2>3, <3>2, <3>3, <3>4 DEF Places
    <3> QED BY <2>2, <2>3, <3>5
  <2>4. CASE TrapEntry(h)
    BY <2>3, <2>4 DEF TrapEntry
  <2>5. CASE SoftIrq(h) \/ TimerIrq(h) \/ UartIrq(h) \/ WakeStdin(h)
    BY <2>3, <2>5 DEF SoftIrq, TimerIrq, UartIrq, WakeStdin
  <2>6. CASE OtherCall(h) \/ Yield(h) \/ Sleep(h) \/ ReadStdin(h) \/ BlockStdin(h)
             \/ \E T \in WaitTargets : WaitBlock(h, T)
    BY <2>3, <2>6 DEF OtherCall, Yield, Sleep, ReadStdin, BlockStdin, WaitBlock, Block
  <2>7. CASE FreeSpace(h) \/ \E T \in WaitTargets, c \in Pids : WaitReap(h, T, c)
    BY <2>3, <2>7 DEF FreeSpace, WaitReap
  <2>8. ASSUME NEW p \in Pids, CtrlC(h, p) PROVE SpaceInv'
    BY <2>8 DEF CtrlC, KillWith, SpaceInv, OwnRoot
  <2>9. ASSUME NEW p \in Pids, Kill(h, p) \/ Fork(h, p) PROVE SpaceInv'
    BY <2>3, <2>9 DEF Kill, KillWith, Fork
  <2>10. CASE Exit(h)
    BY <2>2, <2>10 DEF Exit
  <2>11. ASSUME NEW to \in {"park", "activate"}, NEW cur, pc' = [pc EXCEPT ![h] = to],
                current' = [current EXCEPT ![h] = cur], satp' = satp
         PROVE  SpaceInv'
    BY <1>0, <2>11 DEF SpaceInv, OwnRoot
  <2>12. CASE SwitchTo(h)
    <3>1. CASE current' = current
      BY <1>0, <2>12, <3>1 DEF SwitchTo, SpaceInv, OwnRoot
    <3>2. CASE current' # current
      BY <2>11, <2>12, <3>2 DEF SwitchTo, Vacated
    <3> QED BY <3>1, <3>2
  <2>13. CASE SchedulePoint(h) \/ RunOn(h)
    <3>1. PICK got, st : RunPicked(h, got, st) /\ satp' = satp
      BY <2>13 DEF SchedulePoint, RunOn
    <3> QED BY <2>11, <3>1 DEF RunPicked, Vacated
  <2>14. CASE TrapReturn(h)
    BY <1>0, <2>1, <2>14 DEF TrapReturn, SpaceInv, OwnRoot
  <2>15. CASE Activate(h) \/ Park(h)
    BY <1>0, <2>15 DEF Activate, Park, IdleRoot, SpaceInv, OwnRoot
  <2> QED
    BY <1>2, <2>4, <2>5, <2>6, <2>7, <2>8, <2>9, <2>10, <2>12, <2>13, <2>14, <2>15 DEF HartStep
<1> QED BY <1>1, <1>2 DEF Next

\* No hart ever runs one process in the address space of another, although
\* the root is switched after the scheduler lock was released.
THEOREM SpaceMatchesProcess == Spec => []UserRunsOwnSpace
<1>1. Init => SpaceInv
  BY DEF Init, SpaceInv, OwnRoot
<1>2. SpaceInv => UserRunsOwnSpace
  BY DEF SpaceInv, OwnRoot, UserRunsOwnSpace
<1> QED BY <1>1, <1>2, SpaceStep, OwnInvariant, PTL DEF Spec
----------------------------------------------------------------------------
(* One hart.  With several, a kill or a byte of input can come between the  *)
(* look and the sleep; the harts that still boot run no process.            *)

\* Only h runs.  Nobody who sleeps was killed, and who waits for input sleeps; a hart in a
\* system call runs nobody who was killed, since the trap would have ended him; and the
\* ring a reader found empty stays so, or the UART asks for the hart.
OneHart(h) ==
    /\ \A g \in Harts \ {h} : pc[g] = "boot"
    /\ \A p \in Pids : killed[p] => state[p] # "Blocked"
    /\ \A p \in Pids : blocked_on[p] = "STDIN" => state[p] = "Blocked"
    /\ pc[h] \in {"ecall", "reading"} => ~killed[current[h]]
    /\ pc[h] = "reading" => rx = 0 \/ uart_irq
    /\ NoReaderSleepsOnInput

\* A step that sends nobody to sleep, keeps from sleep whom it kills, and neither enters a
\* system call nor leaves the UART handler.
LEMMA AwakeKeepsOne ==
    ASSUME OwnInv, NEW h \in Harts, OneHart(h), NEW to \in Places \ {"ecall", "reading"},
           pc' = [pc EXCEPT ![h] = to], pc[h] = "uart" => to = "uart",
           \A x \in Pids : state'[x] = "Blocked" => state[x] = "Blocked" /\ ~killed'[x],
           \A x \in Pids : blocked_on'[x] = "STDIN" => blocked_on[x] = "STDIN" /\ state'[x] = "Blocked",
           UNCHANGED uartVars
    PROVE  OneHart(h)'
<1>1. pc \in [Harts -> Places]
  BY DEF OwnInv, TypeOK, HartTypeOK
<1>2. /\ \A g \in Harts \ {h} : pc'[g] = pc[g]
      /\ pc'[h] = to
      /\ rx' = rx /\ uart_irq' = uart_irq
  BY <1>1 DEF uartVars
<1>3. (\A g \in Harts : pc'[g] # "uart") => \A g \in Harts : pc[g] # "uart"
  BY <1>2
<1>4. NoReaderSleepsOnInput'
  BY <1>2, <1>3 DEF OneHart, NoReaderSleepsOnInput
<1> QED BY <1>2, <1>4 DEF OneHart

\* A wakeup, and a kill, which wakes its victim.
LEMMA WakeKeepsOne ==
    ASSUME OwnInv, NEW h \in Harts, OneHart(h), NEW to \in Places \ {"ecall", "reading"},
           pc' = [pc EXCEPT ![h] = to], pc[h] = "uart" => to = "uart",
           NEW S, WakeAll(S, h), \A x \in Pids : killed'[x] => killed[x] \/ x \in S \/ state[x] # "Blocked",
           UNCHANGED uartVars
    PROVE  OneHart(h)'
<1>1. \A x \in Pids : /\ state'[x] = IF x \in S THEN "Runnable" ELSE state[x]
                      /\ blocked_on'[x] = IF x \in S THEN "None" ELSE blocked_on[x]
  BY DEF WakeAll
<1>2. \A x \in Pids : state'[x] = "Blocked" => state[x] = "Blocked" /\ ~killed'[x]
  BY <1>1 DEF OneHart
<1>3. \A x \in Pids : blocked_on'[x] = "STDIN" => blocked_on[x] = "STDIN" /\ state'[x] = "Blocked"
  BY <1>1 DEF OneHart
<1> QED BY <1>2, <1>3, AwakeKeepsOne

\* A caller that goes to sleep was not killed, and sleeps on input only if there is none or
\* the UART will say so.
LEMMA BlockKeepsOne ==
    ASSUME OwnInv, NEW h \in Harts, OneHart(h), NEW reason, NEW T, Block(h, reason, T),
           pc[h] \in {"ecall", "reading"}, pc' = [pc EXCEPT ![h] = "epilogue"],
           reason = "STDIN" => pc[h] = "reading"
    PROVE  OneHart(h)'
<1>1. current[h] \in Pids /\ state[current[h]] = "Running" /\ ~killed[current[h]]
  BY DEF OwnInv, HartHoldsWhatItRuns, HoldsWhatItRuns, OneHart
<1>2. pc \in [Harts -> Places] /\ state \in [Pids -> States] /\ blocked_on \in [Pids -> Reasons]
  BY DEF OwnInv, TypeOK, HartTypeOK, ProcTypeOK
<1>3. /\ state' = [state EXCEPT ![current[h]] = "Blocked"]
      /\ blocked_on' = [blocked_on EXCEPT ![current[h]] = reason]
      /\ killed' = killed /\ rx' = rx /\ uart_irq' = uart_irq
  BY <1>1, <1>2 DEF Block, uartVars
<1>4. \A g \in Harts : pc[g] # "uart"
  BY DEF OneHart
<1>5. NoReaderSleepsOnInput'
  BY <1>1, <1>2, <1>3, <1>4 DEF OneHart, NoReaderSleepsOnInput
<1> QED BY <1>1, <1>2, <1>3, <1>5 DEF OneHart

\* Every step of the one hart.
LEMMA HartKeepsOne ==
    ASSUME OwnInv, NEW h \in Harts, OneHart(h), HartStep(h) PROVE OneHart(h)'
<1>0. /\ pc \in [Harts -> Places] /\ state \in [Pids -> States] /\ blocked_on \in [Pids -> Reasons]
      /\ HoldsWhatItRuns(h) /\ killed \in [Pids -> BOOLEAN] /\ rx \in Nat
  BY DEF OwnInv, TypeOK, HartTypeOK, ProcTypeOK, HartHoldsWhatItRuns, FlagTypeOK, MemTypeOK
<1> USE DEF procVars, Places
<1>1. ASSUME UNCHANGED <<procVars, uartVars>>, pc[h] # "uart",
             NEW to \in Places \ {"ecall", "reading"}, pc' = [pc EXCEPT ![h] = to]
      PROVE  OneHart(h)'
  BY <1>1, AwakeKeepsOne DEF OneHart
<1>2. CASE TrapEntry(h)
  <2>1. PICK to \in {"irq", "ecall", "dying"} :
          /\ pc' = [pc EXCEPT ![h] = to] /\ pc[h] \in {"user", "idle"}
          /\ to = "ecall" => pc[h] = "user" /\ ~(killed[current[h]] /\ state[current[h]] = "Running")
    BY <1>2 DEF TrapEntry, Goto
  <2>2. UNCHANGED <<procVars, uartVars, current>>
    BY <1>2 DEF TrapEntry, hartVars
  <2>3. CASE to = "ecall"
    <3>1. ~killed[current[h]] /\ \A g \in Harts : pc[g] # "uart" /\ pc'[g] # "uart"
      BY <1>0, <2>1, <2>3 DEF HoldsWhatItRuns, OneHart
    <3> QED BY <1>0, <2>1, <2>2, <2>3, <3>1 DEF OneHart, NoReaderSleepsOnInput, uartVars
  <2> QED BY <1>1, <2>1, <2>2, <2>3
<1>3. CASE \/ SoftIrq(h) \/ OtherCall(h) \/ Yield(h) \/ FreeSpace(h)
           \/ TrapReturn(h) \/ Activate(h) \/ Park(h)
  <2>1. PICK to \in {"epilogue", "idle", "user"} : pc[h] # "uart" /\ pc' = [pc EXCEPT ![h] = to]
    BY <1>3 DEF SoftIrq, OtherCall, Yield, FreeSpace, TrapReturn, Activate, Park, Goto
  <2>2. UNCHANGED <<procVars, uartVars>>
    BY <1>3 DEF SoftIrq, OtherCall, Yield, FreeSpace, TrapReturn, Activate, Park
  <2> QED BY <1>1, <2>1, <2>2
<1>4. CASE TimerIrq(h)
  <2>1. PICK S : WakeAll(S, h)
    BY <1>4 DEF TimerIrq
  <2>2. pc[h] = "irq" /\ pc' = [pc EXCEPT ![h] = "epilogue"] /\ killed' = killed /\ UNCHANGED uartVars
    BY <1>4 DEF TimerIrq, Goto
  <2> QED BY <2>1, <2>2, WakeKeepsOne
<1>5. ASSUME NEW p \in Pids, CtrlC(h, p) \/ Kill(h, p) PROVE OneHart(h)'
  <2>1. PICK to \in {"uart", "epilogue"} : pc' = [pc EXCEPT ![h] = to] /\ (pc[h] = "uart" => to = "uart")
    BY <1>0, <1>5 DEF CtrlC, Kill, Goto
  <2>2. KillWith(h, p)
    BY <1>5 DEF CtrlC, Kill
  <2>3. /\ WakeAll(Interrupted(p), h) /\ UNCHANGED uartVars
        /\ \A x \in Pids : killed'[x] => killed[x] \/ x \in Interrupted(p) \/ state[x] # "Blocked"
    BY <1>0, <2>2 DEF KillWith, Interrupted
  <2> QED BY <2>1, <2>3, WakeKeepsOne
<1>6. CASE UartIrq(h)
  <2>1. pc' = [pc EXCEPT ![h] = "uart"] /\ UNCHANGED procVars
    BY <1>6 DEF UartIrq, Goto
  <2>2. pc'[h] = "uart" /\ \A g \in Harts \ {h} : pc'[g] = pc[g]
    BY <1>0, <2>1
  <2> QED BY <2>1, <2>2 DEF OneHart, NoReaderSleepsOnInput
<1>7. CASE WakeStdin(h)
  <2>1. /\ \A x \in Pids : state'[x] = "Blocked" => state[x] = "Blocked"
        /\ \A x \in Pids : blocked_on'[x] # "STDIN"
        /\ killed' = killed /\ pc' = [pc EXCEPT ![h] = "epilogue"]
    BY <1>7 DEF WakeStdin, WakeAll, Goto, OneHart
  <2> QED BY <1>0, <2>1 DEF OneHart, NoReaderSleepsOnInput
<1>8. CASE Sleep(h)
  <2>1. Block(h, "SLEEP", {}) /\ pc[h] = "ecall" /\ pc' = [pc EXCEPT ![h] = "epilogue"]
    BY <1>8 DEF Sleep, Goto
  <2> QED BY <2>1, BlockKeepsOne
<1>9. CASE BlockStdin(h)
  <2>1. Block(h, "STDIN", {}) /\ pc[h] = "reading" /\ pc' = [pc EXCEPT ![h] = "epilogue"]
    BY <1>9 DEF BlockStdin, Goto
  <2> QED BY <2>1, BlockKeepsOne
<1>10. ASSUME NEW T \in WaitTargets, WaitBlock(h, T) PROVE OneHart(h)'
  <2>1. Block(h, "WAIT", T) /\ pc[h] = "ecall" /\ pc' = [pc EXCEPT ![h] = "epilogue"]
    BY <1>10 DEF WaitBlock, Goto
  <2> QED BY <2>1, BlockKeepsOne
<1>11. CASE ReadStdin(h)
  <2>1. PICK to \in {"epilogue", "reading"} :
          /\ pc[h] = "ecall" /\ pc' = [pc EXCEPT ![h] = to]
          /\ to = "reading" => rx = 0
          /\ rx' = rx \/ (rx # 0 /\ rx' \in 0 .. rx - 1)
    BY <1>11 DEF ReadStdin, RingEmpty, Goto
  <2>2. UNCHANGED <<procVars, current, uart_irq>> /\ (rx' > 0 => rx > 0)
    BY <1>0, <1>11, <2>1 DEF ReadStdin, hartVars
  <2>3. to = "reading" => rx' = 0
    BY <1>0, <2>1
  <2>4. /\ \A g \in Harts : pc[g] # "uart"
        /\ \A g \in Harts \ {h} : pc'[g] = pc[g]
        /\ pc'[h] = to
    BY <1>0, <2>1 DEF OneHart
  <2>5. NoReaderSleepsOnInput'
    BY <2>2, <2>4 DEF OneHart, NoReaderSleepsOnInput
  <2> QED BY <2>1, <2>2, <2>3, <2>4, <2>5 DEF OneHart
<1>12. ASSUME NEW c \in Pids, Fork(h, c) \/ \E T \in WaitTargets : WaitReap(h, T, c) PROVE OneHart(h)'
  <2>1. PICK to \in {"epilogue", "reap"} : pc[h] = "ecall" /\ pc' = [pc EXCEPT ![h] = to]
    BY <1>12 DEF Fork, WaitReap, Goto
  <2>2. /\ state[c] \in {"Unborn", "Zombie"} /\ state'[c] \in {"Runnable", "Reaped"}
        /\ \A x \in Pids \ {c} : state'[x] = state[x]
        /\ UNCHANGED <<blocked_on, killed, uartVars>>
    BY <1>0, <1>12 DEF Fork, FreshPid, WaitReap, SlotTaken
  <2> QED BY <2>1, <2>2, AwakeKeepsOne DEF OneHart
<1>13. CASE Exit(h)
  <2>1. /\ pc[h] = "dying" /\ pc' = [pc EXCEPT ![h] = "exited"]
        /\ state[current[h]] = "Running" /\ current[h] \in Pids
        /\ UNCHANGED <<killed, uartVars>>
    BY <1>0, <1>13 DEF Exit, HoldsWhatItRuns
  <2>2. \A x \in Pids : /\ state'[x] = IF x = current[h] THEN "Zombie"
                                       ELSE IF x \in WaitingParent(current[h]) THEN "Runnable"
                                       ELSE state[x]
                        /\ blocked_on'[x] = IF x \in WaitingParent(current[h]) THEN "None" ELSE blocked_on[x]
    BY <1>13 DEF Exit
  <2>3. \A x \in Pids : state'[x] = "Blocked" => state[x] = "Blocked" /\ ~killed'[x]
    BY <2>1, <2>2 DEF OneHart
  <2>4. \A x \in Pids : blocked_on'[x] = "STDIN" => blocked_on[x] = "STDIN" /\ state'[x] = "Blocked"
    BY <2>1, <2>2 DEF OneHart
  <2> QED BY <2>1, <2>3, <2>4, AwakeKeepsOne
<1>14. ASSUME NEW got, NEW st \in [Pids -> States], NEW to \in {"park", "activate"},
              \A x \in Pids : st[x] = state[x] \/ (state[x] # "Blocked" /\ st[x] = "Runnable"),
              got \in Pids => st[got] \in {"Runnable", "Running"},
              state' = st \/ (got \in Pids /\ state' = [st EXCEPT ![got] = "Running"]),
              pc[h] # "uart", pc' = [pc EXCEPT ![h] = to], UNCHANGED <<blocked_on, killed, uartVars>>
       PROVE  OneHart(h)'
  <2>1. \A x \in Pids : (state'[x] = "Blocked") <=> (state[x] = "Blocked")
    BY <1>14
  <2> QED BY <1>14, <2>1, AwakeKeepsOne DEF OneHart
<1>15. CASE SwitchTo(h)
  <2>1. /\ pc[h] = "exited" /\ UNCHANGED <<blocked_on, killed, uartVars>>
        /\ \E to \in {"park", "activate"} : pc' = [pc EXCEPT ![h] = to]
        /\ \/ state' = state
           \/ /\ next[h] # NoPid /\ Takeable(state, next[h], h)
              /\ state' = [state EXCEPT ![next[h]] = "Running"]
    BY <1>15 DEF SwitchTo
  <2>2. next[h] \in MaybePid
    BY DEF OwnInv, TypeOK, HartTypeOK
  <2>3. CASE state' = state
    BY <1>0, <1>14, <2>1, <2>3, SchedAssumption
  <2>4. CASE state' # state
    <3>1. next[h] \in Pids /\ state[next[h]] \in {"Runnable", "Running"}
      BY <2>1, <2>2, <2>4 DEF Takeable, MaybePid
    <3> QED BY <1>0, <1>14, <2>1, <2>4, <3>1
  <2> QED BY <2>3, <2>4
<1>16. ASSUME NEW got, NEW q, NEW st \in [Pids -> States], Pick(q, st, h, got, queues'),
              RunPicked(h, got, st), pc[h] # "uart",
              \A x \in Pids : st[x] = state[x] \/ (state[x] # "Blocked" /\ st[x] = "Runnable"),
              UNCHANGED <<blocked_on, killed, uartVars>>
       PROVE  OneHart(h)'
  <2>1. got = NoPid \/ (got \in Pids /\ st[got] \in {"Runnable", "Running"})
    BY <1>16 DEF Pick, Takeable
  <2>2. CASE got = NoPid
    <3>1. state' = st /\ pc' = [pc EXCEPT ![h] = "park"] /\ got \notin Pids
      BY <1>16, <2>2, SchedAssumption DEF RunPicked
    <3> QED BY <1>14, <1>16, <3>1
  <2>3. CASE got \in Pids
    <3>1. state' = [st EXCEPT ![got] = "Running"] /\ pc' = [pc EXCEPT ![h] = "activate"]
      BY <1>16, <2>3, SchedAssumption DEF RunPicked
    <3> QED BY <1>14, <1>16, <2>1, <2>3, <3>1, SchedAssumption
  <2> QED BY <2>1, <2>2, <2>3
<1>17. CASE SchedulePoint(h)
  <2> DEFINE st == [p \in Pids |-> IF Requeued(current[h]) /\ p = current[h] THEN "Runnable" ELSE state[p]]
  <2>1. st \in [Pids -> States]
    BY <1>0 DEF Requeued, States
  <2>2. \A x \in Pids : st[x] = state[x] \/ (state[x] # "Blocked" /\ st[x] = "Runnable")
    BY <1>0 DEF Requeued
  <2>3. PICK got, q : Pick(q, st, h, got, queues') /\ RunPicked(h, got, st)
    BY <1>17 DEF SchedulePoint
  <2>4. UNCHANGED <<blocked_on, killed, uartVars>> /\ pc[h] # "uart"
    BY <1>17 DEF SchedulePoint
  <2> HIDE DEF st
  <2> QED BY <1>16, <2>1, <2>2, <2>3, <2>4
<1>18. CASE RunOn(h)
  <2>1. PICK got \in Pids : Pick(queues, state, h, got, queues') /\ RunPicked(h, got, state)
    BY <1>18 DEF RunOn
  <2>2. UNCHANGED <<blocked_on, killed, uartVars>> /\ pc[h] # "uart"
    BY <1>18 DEF RunOn
  <2> QED BY <1>0, <1>16, <2>1, <2>2
<1> QED
  BY <1>2, <1>3, <1>4, <1>5, <1>6, <1>7, <1>8, <1>9, <1>10, <1>11, <1>12, <1>13, <1>15, <1>17, <1>18
  DEF HartStep

\* A byte that comes makes the UART ask for the hart.
LEMMA ByteKeepsOne ==
    ASSUME NEW h \in Harts, OneHart(h), UartReceive PROVE OneHart(h)'
BY DEF UartReceive, OneHart, NoReaderSleepsOnInput, procVars, hartVars, localVars

----------------------------------------------------------------------------
(* MCSched: the scheduler and the run queues side by side *)

\* Whatever harts, tasks, groups, caps and stash MCSched is given.
LEMMA QueuesAreAnInstance == Queues!RunQueueAssumption
BY MCSchedAssumption

\* The run queues are placed whichever part runs, and a part of one hart keeps OneHart.
MCInv ==
    /\ OwnInv /\ Queues!RInv
    /\ part \in Harts => OneHart(part)

\* Every behaviour of MCSched keeps it.
LEMMA MCStepKeeps == MCInv /\ [MCNext]_mcVars => MCInv'
<1> SUFFICES ASSUME MCInv, [MCNext]_mcVars PROVE MCInv'
  OBVIOUS
<1>1. part' = part
  BY DEF MCNext, Input, OnHart, InQueues, mcVars
<1>2. [Next]_vars
  BY DEF MCNext, Input, OnHart, InQueues, mcVars, Next
<1>3. OwnInv'
  BY <1>2, OwnStep DEF MCInv
<1>4. [Queues!Next]_(Queues!vars)
  BY DEF MCNext, Input, OnHart, InQueues, mcVars, queueVars, Queues!vars, Queues!taskVars,
     Queues!trapVars, Queues!acctVars, Queues!limitVars
<1>5. Queues!RInv'
  BY <1>4, QueuesAreAnInstance, Queues!StepHolds DEF MCInv
<1>6. ASSUME part \in Harts PROVE OneHart(part)'
  <2> USE <1>6
  <2>1. UartReceive \/ HartStep(part) \/ UNCHANGED vars
    BY MCSchedAssumption DEF MCNext, Input, OnHart, InQueues, mcVars
  <2>2. CASE UartReceive
    BY <2>2, <1>1, ByteKeepsOne DEF MCInv
  <2>3. CASE HartStep(part)
    BY <2>3, <1>1, HartKeepsOne DEF MCInv
  <2>4. CASE UNCHANGED vars
    BY <2>4, <1>1 DEF MCInv, OneHart, NoReaderSleepsOnInput, vars, procVars, hartVars, localVars, uartVars
  <2> QED BY <2>1, <2>2, <2>3, <2>4
<1> QED BY <1>1, <1>3, <1>5, <1>6 DEF MCInv

\* It holds at the start, where every hart boots.
LEMMA MCInitKeeps == MCInit => MCInv
<1> SUFFICES ASSUME MCInit PROVE MCInv
  OBVIOUS
<1>1. OwnInv
  BY OwnInit DEF MCInit
<1>2. Queues!RInv
  BY QueuesAreAnInstance, Queues!InitHolds DEF MCInit
<1>3. ASSUME part \in Harts PROVE OneHart(part)
  BY <1>3 DEF MCInit, Init, OneHart, NoReaderSleepsOnInput
<1> QED BY <1>1, <1>2, <1>3 DEF MCInv

\* So does the conjunction of what each part keeps, in every reachable state.
LEMMA MCInvariant == MCSpec => []MCInv
BY MCInitKeeps, MCStepKeeps, PTL DEF MCSpec

\* On one hart no reader sleeps on input that has come and no killed task sleeps; and
\* any number of harts that steal from each other, with a stash of any size, lose no entry.
THEOREM NobodyIsMissed == MCSpec => []NobodyForgotten
<1>1. MCInv => OneHartWakes
  BY DEF MCInv, OneHart, OneHartWakes, KilledTaskIsNotAsleep
<1>2. MCInv => EntriesKept
  BY QueuesAreAnInstance, Queues!PlacedIsKept DEF MCInv, EntriesKept
<1> QED BY <1>1, <1>2, MCInvariant, PTL DEF NobodyForgotten

\* The caps come first and a hart idles only without work, across any number of harts
\* that steal, for any tasks, groups and caps and a stash of any size.
THEOREM CapsHoldAnywhere == MCSpec => CapsComeFirstAnywhere
<1>1. MCInv /\ [MCNext]_mcVars => [Queues!CapsRespected /\ Queues!IdleOnlyWhenEmpty]_queueVars
  <2> SUFFICES ASSUME MCInv, [MCNext]_mcVars, queueVars' # queueVars
               PROVE  Queues!CapsRespected /\ Queues!IdleOnlyWhenEmpty
    OBVIOUS
  <2>1. Queues!Next
    BY DEF MCNext, Input, OnHart, InQueues, mcVars, queueVars
  <2> QED BY <2>1, QueuesAreAnInstance, Queues!CapsStep, Queues!IdleStep DEF MCInv
<1> QED BY <1>1, MCInvariant, PTL DEF MCSpec, CapsComeFirstAnywhere
============================================================================
