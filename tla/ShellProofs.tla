---------------------------- MODULE ShellProofs ----------------------------
(***************************************************************************)
(* The shell and the plain downloader, for any number of processes, jobs,  *)
(* keys, names and values, and for lines, patterns and buffers of any      *)
(* sizes: the table of jobs names children that were not reaped, the       *)
(* screen shows the line that is edited, a line is read alike by what cuts *)
(* it and what splits it, a pattern's verdict is what the pattern means, a *)
(* variable has the value it was given last, and a download that passes    *)
(* has the whole page.  Each part has an invariant of its own; the last    *)
(* section puts them together in the behaviours of MCShell.                *)
(***************************************************************************)
EXTENDS MCShell, FiniteSetTheorems, SequenceTheorems, NaturalsInduction, WellFoundedInduction, TLAPS

PidOrNobody == Pids \cup {Nobody}

States == {"unborn", "live", "zombie", "gone"}

JobsTypeOK ==
    /\ st \in [Pids -> States] /\ par \in [Pids -> PidOrNobody]
    /\ shPid \in Pids /\ jobs \in [Slots -> PidOrNobody]
    /\ initAt \in {"fork", "wait"}
    /\ doing \in {"poll", "read", "wait", "capture", "drain", "off", "dead"}

Born == {p \in Pids : st[p] # "unborn"}

\* Pids are handed out in order.
PidsInOrder == \E n \in 0 .. MaxPid : Born = 1 .. n

\* A shell that is dead left nothing to its successor, and init starts one only then.
DeadShellLeavesNothing ==
    /\ ~Live(shPid) => jobs = NoJobs
    /\ initAt = "fork" => ~Live(shPid)

\* run_capture() reaps its child without looking at the table: it is no job.
CapturedIsNoJob ==
    doing = "capture" => Len(waits) = 1 /\ Head(waits) \in Pids /\ Head(waits) \notin Range(jobs)

JobsInv == JobsTypeOK /\ PidsInOrder /\ DeadShellLeavesNothing /\ CapturedIsNoJob /\ JobsAreChildren

----------------------------------------------------------------------------
(* The operators *)

NatOrder == {p \in Nat \X Nat : p[1] < p[2]}

LEMMA LeastExists ==
    ASSUME NEW S \in SUBSET Nat, S # {}
    PROVE  \E m \in S : \A k \in S : m <= k
<1>1. IsWellFoundedOn(NatOrder, Nat)
  BY NatLessThanWellFounded DEF OpToRel, NatOrder
<1>2. PICK m \in S : \A k \in S : <<k, m>> \notin NatOrder
  BY <1>1, WFMin
<1>3. ASSUME NEW k \in S, k < m PROVE FALSE
  <2>1. <<k, m>> \in Nat \X Nat /\ <<k, m>>[1] < <<k, m>>[2]
    BY <1>3
  <2>2. QED
    BY <2>1, <1>2 DEF NatOrder
<1>4. QED
  BY <1>3

\* The pids that a fork hands out are the next ones.
LEMMA NextIsNext ==
    ASSUME JobsTypeOK, NEW n \in 0 .. MaxPid, Born = 1 .. n, NEW k \in {1, 2}, CanFork(k)
    PROVE  n + k <= MaxPid /\ Next_(k) = n + k /\ Next_(k) \in Pids \ Born
<1>1. Cardinality(1 .. n) = n
  BY FS_Interval, JobsAssumption
<1>2. Cardinality({p \in Pids : st[p] # "unborn"}) = n
  BY <1>1 DEF Born
<1>3. n + k <= MaxPid
  BY <1>2 DEF CanFork
<1>4. n + k \in Pids
  BY <1>3, JobsAssumption DEF Pids
<1>5. Next_(k) = CHOOSE p \in Pids : n + k = p
  BY <1>2 DEF Next_
<1>6. QED
  BY <1>3, <1>4, <1>5

\* wait() finds a child that has ended.
LEMMA FirstIsZombie ==
    ASSUME JobsTypeOK, Zombies(shPid) # {}
    PROVE  First(Zombies(shPid)) \in Zombies(shPid)
<1>1. Zombies(shPid) \in SUBSET Nat
  BY JobsAssumption DEF Zombies, Children, Pids
<1>2. \E c \in Zombies(shPid) : \A d \in Zombies(shPid) : c <= d
  BY <1>1, LeastExists
<1>3. QED
  BY <1>2 DEF First

\* A pid is taken out of a table that has it once.
LEMMA WithoutRemoves ==
    ASSUME JobsTypeOK, JobsAreChildren, NEW c \in Pids
    PROVE  /\ Without(c) \in [Slots -> PidOrNobody]
           /\ \A j \in Slots : Without(c)[j] # c /\ Without(c)[j] \in {jobs[j], Nobody}
<1> DEFINE J == {j \in Slots : jobs[j] = c}
<1>1. c # Nobody
  BY JobsAssumption DEF Pids, Nobody
<1>2. CASE J = {}
  BY <1>1, <1>2 DEF Without, JobsTypeOK
<1>3. CASE J # {}
  <2>1. J \in SUBSET Nat
    BY JobsAssumption DEF Slots
  <2>2. \E j \in J : \A k \in J : j <= k
    BY <1>3, <2>1, LeastExists
  <2> DEFINE first == CHOOSE j \in J : \A k \in J : j <= k
  <2>3. first \in J
    BY <2>2
  <2>4. Without(c) = [jobs EXCEPT ![first] = Nobody]
    BY <1>3 DEF Without
  <2> HIDE DEF first
  <2>5. \A j \in Slots : jobs[j] = c => j = first
    BY <1>1, <2>3 DEF JobsAreChildren
  <2>6. QED
    BY <1>1, <2>3, <2>4, <2>5 DEF JobsTypeOK, PidOrNobody
<1>4. QED
  BY <1>2, <1>3

\* A job is entered in a slot that was free.
LEMMA AddEnters ==
    ASSUME JobsTypeOK, FreeSlots # {}, NEW c \in Pids
    PROVE  \E f \in Slots : jobs[f] = Nobody /\ JobsAdd(c) = [jobs EXCEPT ![f] = c]
<1>1. FreeSlots \in SUBSET Nat
  BY JobsAssumption DEF FreeSlots, Slots
<1>2. \E j \in FreeSlots : \A k \in FreeSlots : j <= k
  BY <1>1, LeastExists
<1>3. (CHOOSE j \in FreeSlots : \A k \in FreeSlots : j <= k) \in FreeSlots
  BY <1>2
<1>4. QED
  BY <1>3 DEF JobsAdd, FreeSlots

----------------------------------------------------------------------------
(* What a step does to the table *)

LEMMA PidsArePositive == Pids \subseteq Nat \ {0} /\ Nobody \notin Pids
BY JobsAssumption DEF Pids, Nobody

\* The shell reaps a child of its own and takes it out of the table.
LEMMA ReapKeeps ==
    ASSUME JobsInv, Live(shPid), NEW c \in Zombies(shPid), Reaped(c), jobs' = Without(c),
           UNCHANGED <<par, shPid, initAt>>,
           doing' \in {"poll", "read", "wait", "drain"}
    PROVE  JobsInv'
<1> USE DEF JobsInv, JobsTypeOK
<1>1. c \in Pids /\ par[c] = shPid /\ st[c] = "zombie" /\ c # shPid
  BY DEF Zombies, Children, Live
<1>2. /\ Without(c) \in [Slots -> PidOrNobody]
      /\ \A j \in Slots : Without(c)[j] # c /\ Without(c)[j] \in {jobs[j], Nobody}
  BY <1>1, WithoutRemoves
<1>3. JobsTypeOK'
  BY <1>1, <1>2 DEF Reaped, States
<1>4. PidsInOrder'
  <2>1. Born' = Born
    BY <1>1 DEF Reaped, Born
  <2>2. QED
    BY <2>1 DEF PidsInOrder
<1>5. Live(shPid)'
  BY <1>1 DEF Reaped, Live
<1>6. DeadShellLeavesNothing'
  BY <1>5 DEF DeadShellLeavesNothing
<1>7. CapturedIsNoJob'
  BY DEF CapturedIsNoJob
<1>8. \A x \in Pids : x # c => st'[x] = st[x]
  BY <1>1 DEF Reaped
<1>9. JobsAreChildren'
  BY <1>2, <1>8, PidsArePositive DEF JobsAreChildren, Children
<1>10. QED
  BY <1>3, <1>4, <1>6, <1>7, <1>9

\* Nothing that the table is about changes.
LEMMA QuietKeeps ==
    ASSUME JobsInv, UNCHANGED <<st, par, shPid, jobs, initAt>>,
           doing' \in {"poll", "read", "wait", "capture", "drain", "off"},
           doing' = "capture" => doing = "capture" /\ waits' = waits
    PROVE  JobsInv'
<1>1. JobsTypeOK'
  BY DEF JobsInv, JobsTypeOK
<1>2. PidsInOrder' /\ JobsAreChildren'
  BY DEF JobsInv, PidsInOrder, Born, JobsAreChildren, Children
<1>3. DeadShellLeavesNothing'
  BY DEF JobsInv, DeadShellLeavesNothing, Live
<1>4. CapturedIsNoJob'
  BY DEF JobsInv, CapturedIsNoJob
<1>5. QED
  BY <1>1, <1>2, <1>3, <1>4 DEF JobsInv

\* A child of the shell is waited for as wait() does.
LEMMA WaitKeeps ==
    ASSUME JobsInv, Live(shPid), Zombies(shPid) # {}, Reaped(First(Zombies(shPid))),
           jobs' = Without(First(Zombies(shPid))),
           UNCHANGED <<par, shPid, initAt>>, doing' \in {"poll", "read", "wait", "drain"}
    PROVE  JobsInv'
BY FirstIsZombie, ReapKeeps DEF JobsInv

\* The shell forks; a child is a job, is captured, or is neither.
LEMMA ForkKeeps ==
    ASSUME JobsInv, Live(shPid), NEW k \in {1, 2}, CanFork(k),
           Forked({Next_(j) : j \in 1 .. k}), UNCHANGED <<shPid, initAt>>,
           \/ jobs' = jobs /\ doing' \in {"poll", "wait"}
           \/ jobs' = JobsAdd(Next_(1)) /\ FreeSlots # {} /\ doing' = "poll"
           \/ jobs' = jobs /\ doing' = "capture" /\ waits' = <<Next_(1)>>
    PROVE  JobsInv'
<1> USE DEF JobsInv, JobsTypeOK
<1> DEFINE N == {Next_(j) : j \in 1 .. k}
<1>1. PICK n \in 0 .. MaxPid : Born = 1 .. n
  BY DEF PidsInOrder
<1>2. n + k <= MaxPid /\ \A j \in 1 .. k : CanFork(j)
  <2>1. n + k <= MaxPid
    BY <1>1, NextIsNext
  <2>2. Cardinality({p \in Pids : st[p] # "unborn"}) = n
    <3>1. n \in Int /\ n >= 0
      BY JobsAssumption
    <3>2. Cardinality(1 .. n) = n
      BY <3>1, FS_Interval
    <3>3. QED
      BY <1>1, <3>2, Zenon DEF Born
  <2> DEFINE born == Cardinality({p \in Pids : st[p] # "unborn"})
  <2>3. \A j \in 1 .. k : CanFork(j) <=> born + j <= MaxPid
    BY DEF CanFork
  <2>4. born = n
    BY <2>2
  <2> HIDE DEF born
  <2>5. n \in Int /\ k \in Int /\ MaxPid \in Int
    BY JobsAssumption
  <2>6. \A j \in 1 .. k : n + j <= MaxPid
    BY <2>1, <2>5
  <2> QED BY <2>1, <2>3, <2>4, <2>6
<1>3. \A j \in 1 .. k : Next_(j) = n + j /\ Next_(j) \in Pids \ Born
  BY <1>1, <1>2, NextIsNext
<1>4. N \subseteq Pids /\ N \cap Born = {} /\ Born \cup N = 1 .. n + k /\ Next_(1) \in N
  BY <1>1, <1>3
<1> HIDE DEF N
<1>5. /\ st' = [p \in Pids |-> IF p \in N THEN "live" ELSE st[p]]
      /\ par' = [p \in Pids |-> IF p \in N THEN shPid ELSE par[p]]
  BY DEF Forked, N
<1>6. \A j \in Slots : jobs[j] # Nobody => jobs[j] \in Pids \ N
  BY <1>4 DEF JobsAreChildren, Children, Born
<1>7. /\ jobs' \in [Slots -> PidOrNobody]
      /\ \A j \in Slots : jobs'[j] # Nobody =>
           jobs'[j] = jobs[j] \/ (jobs'[j] = Next_(1) /\ jobs[j] = Nobody)
      /\ \A j, l \in Slots : jobs'[j] = Next_(1) /\ jobs'[l] = Next_(1) => j = l
  <2>1. CASE jobs' = jobs
    BY <2>1, <1>4, <1>6, PidsArePositive
  <2>2. CASE jobs' = JobsAdd(Next_(1)) /\ FreeSlots # {}
    <3>1. PICK f \in Slots : jobs[f] = Nobody /\ jobs' = [jobs EXCEPT ![f] = Next_(1)]
      BY <2>2, <1>4, AddEnters
    <3>2. QED
      BY <3>1, <1>4, <1>6, PidsArePositive DEF PidOrNobody
  <2>3. QED
    BY <2>1, <2>2
<1>8. JobsTypeOK'
  BY <1>4, <1>5, <1>7 DEF States, PidOrNobody
<1>9. PidsInOrder'
  <2>1. Born' = Born \cup N
    BY <1>4, <1>5 DEF Born
  <2>2. n + k \in 0 .. MaxPid
    BY <1>2, JobsAssumption
  <2>3. QED
    BY <1>4, <2>1, <2>2 DEF PidsInOrder
<1>10. Live(shPid)'
  BY <1>5 DEF Live
<1>11. DeadShellLeavesNothing'
  BY <1>10 DEF DeadShellLeavesNothing
<1>12. CapturedIsNoJob'
  <2>1. CASE doing' # "capture"
    BY <2>1 DEF CapturedIsNoJob
  <2>2. CASE jobs' = jobs /\ waits' = <<Next_(1)>>
    BY <2>2, <1>4, <1>6, PidsArePositive DEF CapturedIsNoJob, Range
  <2>3. QED
    BY <2>1, <2>2
<1>13. JobsAreChildren'
  BY <1>4, <1>5, <1>6, <1>7, PidsArePositive DEF JobsAreChildren, Children
<1>14. QED
  BY <1>8, <1>9, <1>11, <1>12, <1>13

----------------------------------------------------------------------------
(* The steps *)

LEMMA InitFits == JobsInit => JobsInv
<1> SUFFICES ASSUME JobsInit PROVE JobsInv
  OBVIOUS
<1> USE DEF JobsInit
<1>1. 1 \in Pids /\ Live(1)
  BY JobsAssumption DEF Pids, Live
<1>2. JobsTypeOK
  BY <1>1 DEF JobsTypeOK, PidOrNobody, States, NoJobs
<1>3. PidsInOrder
  <2>1. PICK server \in BOOLEAN :
          st = [p \in Pids |-> IF p = 1 \/ (p = 2 /\ server) THEN "live" ELSE "unborn"]
    OBVIOUS
  <2>2. CASE server /\ MaxPid >= 2
    <3>1. Born = 1 .. 2 /\ 2 \in 0 .. MaxPid
      BY <2>1, <2>2, JobsAssumption DEF Born, Pids
    <3>2. QED
      BY <3>1 DEF PidsInOrder
  <2>3. CASE ~(server /\ MaxPid >= 2)
    <3>1. Born = 1 .. 1 /\ 1 \in 0 .. MaxPid
      BY <2>1, <2>3, JobsAssumption DEF Born, Pids
    <3>2. QED
      BY <3>1 DEF PidsInOrder
  <2>4. QED
    BY <2>2, <2>3
<1>4. DeadShellLeavesNothing /\ CapturedIsNoJob
  BY <1>1 DEF DeadShellLeavesNothing, CapturedIsNoJob
<1>5. JobsAreChildren
  BY DEF JobsAreChildren, NoJobs
<1>6. QED
  BY <1>2, <1>3, <1>4, <1>5 DEF JobsInv

\* exit(): a job that ends stays a child until it is reaped; a shell that ends forgets its jobs.
LEMMA ExitKeeps == ASSUME JobsInv, NEW p \in Pids, Exit(p) PROVE JobsInv'
<1> USE DEF JobsInv, JobsTypeOK, Exit
<1>1. st' = [st EXCEPT ![p] = "zombie"] /\ st[p] = "live"
      /\ par' = [c \in Pids |-> IF par[c] = p THEN Nobody ELSE par[c]]
      /\ UNCHANGED <<shPid, initAt>>
  BY DEF Live
<1>2. JobsTypeOK'
  <2>1. jobs' \in [Slots -> PidOrNobody]
    BY DEF NoJobs, PidOrNobody
  <2>2. doing' \in {"poll", "read", "wait", "capture", "drain", "off", "dead"}
    OBVIOUS
  <2>3. par' \in [Pids -> PidOrNobody] /\ st' \in [Pids -> States]
    BY <1>1 DEF PidOrNobody, States
  <2>4. QED
    BY <1>1, <2>1, <2>2, <2>3
<1>3. PidsInOrder'
  <2>1. Born' = Born
    BY <1>1 DEF Born
  <2>2. QED
    BY <2>1 DEF PidsInOrder
<1>4. CASE p = shPid
  <2>1. doing' = "dead" /\ jobs' = NoJobs
    BY <1>4
  <2>2. DeadShellLeavesNothing'
    BY <1>1, <1>4, <2>1 DEF DeadShellLeavesNothing, Live, NoJobs
  <2>3. CapturedIsNoJob' /\ JobsAreChildren'
    BY <2>1 DEF CapturedIsNoJob, JobsAreChildren, NoJobs
  <2>4. QED
    BY <1>2, <1>3, <2>2, <2>3
<1>5. CASE p # shPid
  <2>1. UNCHANGED <<doing, waits, jobs>>
    BY <1>5
  <2>2. DeadShellLeavesNothing'
    BY <1>1, <1>5, <2>1 DEF DeadShellLeavesNothing, Live, NoJobs
  <2>3. CapturedIsNoJob'
    BY <2>1 DEF CapturedIsNoJob
  <2>4. JobsAreChildren'
    BY <1>1, <1>5, <2>1 DEF JobsAreChildren, Children
  <2>5. QED
    BY <1>2, <1>3, <2>2, <2>3, <2>4
<1>6. QED
  BY <1>4, <1>5

\* What init reaps is no child of the shell.
LEMMA InitReapsKeeps == ASSUME JobsInv, InitReaps PROVE JobsInv'
<1> USE DEF JobsInv, JobsTypeOK, InitReaps
<1>1. PICK w \in Zombies(Nobody) :
        Reaped(w) /\ initAt' = IF IsShell(w) THEN "fork" ELSE "wait"
  OBVIOUS
<1>2. /\ w \in Pids /\ par[w] = Nobody /\ st[w] = "zombie"
      /\ st' = [st EXCEPT ![w] = "gone"] /\ UNCHANGED <<par, shPid, doing, waits, jobs>>
  BY <1>1 DEF Zombies, Children, Reaped
<1>3. JobsTypeOK'
  BY <1>1, <1>2 DEF States
<1>4. PidsInOrder'
  <2>1. Born' = Born
    BY <1>2 DEF Born
  <2>2. QED
    BY <2>1 DEF PidsInOrder
<1>5. Live(shPid)' <=> Live(shPid)
  BY <1>2 DEF Live
<1>6. DeadShellLeavesNothing'
  BY <1>1, <1>2, <1>5 DEF DeadShellLeavesNothing, IsShell, Live, NoJobs
<1>7. CapturedIsNoJob'
  BY <1>2 DEF CapturedIsNoJob
<1>8. JobsAreChildren'
  BY <1>2, PidsArePositive DEF JobsAreChildren, Children
<1>9. QED
  BY <1>3, <1>4, <1>6, <1>7, <1>8

\* A new shell starts with an empty table.
LEMMA InitForksKeeps == ASSUME JobsInv, InitForks PROVE JobsInv'
<1> USE DEF JobsInv, JobsTypeOK, InitForks
<1>1. PICK n \in 0 .. MaxPid : Born = 1 .. n
  BY DEF PidsInOrder
<1>2. n + 1 <= MaxPid /\ Next_(1) = n + 1 /\ Next_(1) \in Pids \ Born
  BY <1>1, NextIsNext
<1>3. jobs = NoJobs /\ UNCHANGED <<par, jobs>>
  BY DEF DeadShellLeavesNothing
<1>4. JobsTypeOK'
  BY <1>2, <1>3 DEF States
<1>5. PidsInOrder'
  <2>1. Born' = Born \cup {n + 1}
    BY <1>2 DEF Born
  <2>2. Born' = 1 .. n + 1 /\ n + 1 \in 0 .. MaxPid
    BY <1>1, <1>2, <2>1, JobsAssumption
  <2>3. QED
    BY <2>2 DEF PidsInOrder
<1>6. DeadShellLeavesNothing' /\ CapturedIsNoJob'
  BY <1>3 DEF DeadShellLeavesNothing, CapturedIsNoJob, NoJobs
<1>7. JobsAreChildren'
  BY <1>3 DEF JobsAreChildren, NoJobs
<1>8. QED
  BY <1>4, <1>5, <1>6, <1>7

\* run_capture() reaps its own child, which the table does not name.
LEMMA CaptureEndsKeeps == ASSUME JobsInv, Live(shPid), CaptureEnds PROVE JobsInv'
<1> USE DEF JobsInv, JobsTypeOK, CaptureEnds
<1> DEFINE c == Head(waits)
<1>1. c \in Pids /\ c \notin Range(jobs) /\ st[c] = "zombie"
  BY DEF CapturedIsNoJob
<1>2. c # shPid /\ \A j \in Slots : jobs[j] # c
  BY <1>1 DEF Range, Live
<1>3. st' = [st EXCEPT ![c] = "gone"] /\ UNCHANGED <<par, shPid, initAt, jobs>>
  BY DEF Reaped
<1> HIDE DEF c
<1>4. JobsTypeOK'
  BY <1>1, <1>3 DEF States
<1>5. PidsInOrder'
  <2>1. Born' = Born
    BY <1>1, <1>3 DEF Born
  <2>2. QED
    BY <2>1 DEF PidsInOrder
<1>6. Live(shPid)'
  BY <1>2, <1>3 DEF Live
<1>7. DeadShellLeavesNothing' /\ CapturedIsNoJob'
  BY <1>6 DEF DeadShellLeavesNothing, CapturedIsNoJob
<1>8. JobsAreChildren'
  BY <1>2, <1>3 DEF JobsAreChildren, Children
<1>9. QED
  BY <1>4, <1>5, <1>7, <1>8

\* The steps of the shell, each as one of the above.
LEMMA ShellKeeps == ASSUME JobsInv, ShellRuns, ShellSteps PROVE JobsInv'
<1>1. Live(shPid)
  BY DEF ShellRuns
<1>2. CASE Poll
  <2>1. CASE Zombies(shPid) = {}
    BY <1>2, <2>1, QuietKeeps DEF Poll, ReapPoll
  <2>2. CASE Zombies(shPid) # {}
    BY <1>1, <1>2, <2>2, WaitKeeps DEF Poll, ReapPoll
  <2>3. QED
    BY <2>1, <2>2
<1>3. CASE CaptureEnds
  BY <1>1, <1>3, CaptureEndsKeeps
<1>4. CASE WaitOne
  <2> DEFINE w == Head(waits)
  <2>1. CASE w \in Children(shPid)
    <3>1. w \in Zombies(shPid) /\ Reaped(w) /\ jobs' = Without(w)
      BY <1>4, <2>1 DEF WaitOne, AfterWait
    <3>2. UNCHANGED <<par, shPid, initAt>> /\ doing' = "wait"
      BY <1>4 DEF WaitOne
    <3> HIDE DEF w
    <3>3. QED
      BY <1>1, <3>1, <3>2, ReapKeeps
  <2>2. CASE w \notin Children(shPid)
    BY <1>4, <2>2, QuietKeeps DEF WaitOne
  <2>3. QED
    BY <2>1, <2>2
<1>5. CASE WaitAny
  <2>1. CASE Children(shPid) = {}
    BY <1>5, <2>1, QuietKeeps DEF WaitAny
  <2>2. CASE Children(shPid) # {}
    BY <1>1, <1>5, <2>2, WaitKeeps DEF WaitAny
  <2>3. QED
    BY <2>1, <2>2
<1>6. CASE Waited
  BY <1>6, QuietKeeps DEF Waited
<1>7. CASE Drain
  <2>1. CASE jobs = NoJobs \/ Children(shPid) = {}
    BY <1>7, <2>1, QuietKeeps DEF Drain
  <2>2. CASE ~(jobs = NoJobs \/ Children(shPid) = {})
    BY <1>1, <1>7, <2>2, WaitKeeps DEF Drain
  <2>3. QED
    BY <2>1, <2>2
<1>8. QED
  BY <1>2, <1>3, <1>4, <1>5, <1>6, <1>7 DEF ShellSteps

\* The commands.
LEMMA CommandKeeps ==
    ASSUME JobsInv, Live(shPid),
           \/ Exec \/ ExecFails \/ Pipe \/ PipeFails \/ Background \/ ListJobs \/ Halt \/ Capture
           \/ \E p \in Pids \cup {LastJob} : FgJob(p) \/ Kill(p)
    PROVE  JobsInv'
<1>1. {Next_(j) : j \in 1 .. 1} = {Next_(1)}
  <2>1. 1 .. 1 = {1}
    OBVIOUS
  <2>2. QED
    BY <2>1
<1>2. {Next_(j) : j \in 1 .. 2} = {Next_(1), Next_(2)}
  <2>1. 1 .. 2 = {1, 2}
    OBVIOUS
  <2>2. QED
    BY <2>1
<1>3. CASE Exec
  BY <1>1, <1>3, ForkKeeps DEF Exec, Given, Waits
<1>4. CASE ExecFails
  BY <1>4, QuietKeeps DEF ExecFails, Given, Prompts
<1>5. CASE Pipe
  BY <1>2, <1>5, ForkKeeps DEF Pipe, Given, Waits
<1>6. CASE PipeFails
  <2>1. CASE CanFork(1) /\ Forked({Next_(1)})
    BY <1>1, <1>6, <2>1, ForkKeeps DEF PipeFails, Given, Waits
  <2>2. CASE UNCHANGED <<st, par>>
    BY <1>6, <2>2, QuietKeeps DEF PipeFails, Given, Waits
  <2>3. QED
    BY <1>6, <2>1, <2>2 DEF PipeFails
<1>7. CASE Background
  BY <1>1, <1>7, ForkKeeps DEF Background, Given, Waits, Prompts
<1>8. CASE ListJobs
  <2>1. CASE Zombies(shPid) = {}
    BY <1>8, <2>1, QuietKeeps DEF ListJobs, ReapPoll, Given, Prompts
  <2>2. CASE Zombies(shPid) # {}
    BY <1>8, <2>2, WaitKeeps DEF ListJobs, ReapPoll, Given, Prompts
  <2>3. QED
    BY <2>1, <2>2
<1>9. CASE Halt
  BY <1>9, QuietKeeps DEF Halt, Given
<1>10. CASE Capture
  BY <1>1, <1>10, ForkKeeps DEF Capture, Given
<1>11. ASSUME NEW p \in Pids \cup {LastJob}, FgJob(p) PROVE JobsInv'
  BY <1>11, QuietKeeps DEF FgJob, Given, Waits
<1>12. ASSUME NEW p \in Pids \cup {LastJob}, Kill(p) PROVE JobsInv'
  BY <1>12, QuietKeeps DEF Kill, Given, Prompts
<1>13. QED
  BY <1>3, <1>4, <1>5, <1>6, <1>7, <1>8, <1>9, <1>10, <1>11, <1>12

LEMMA StepKeeps == JobsInv /\ [JobsNext]_jobVars => JobsInv'
<1> SUFFICES ASSUME JobsInv, [JobsNext]_jobVars PROVE JobsInv'
  OBVIOUS
<1>1. CASE ShellRuns /\ ShellSteps
  BY <1>1, ShellKeeps
<1>2. CASE CaptureSetsFg
  BY <1>2, QuietKeeps DEF CaptureSetsFg
<1>3. CASE /\ ShellRuns
           /\ \/ Exec \/ ExecFails \/ Pipe \/ PipeFails \/ Background \/ FgLast
              \/ ListJobs \/ Halt \/ Capture
              \/ \E p \in Pids : FgJob(p) \/ Kill(p)
  BY <1>3, CommandKeeps DEF ShellRuns, FgLast
<1>4. CASE InitForks
  BY <1>4, InitForksKeeps
<1>5. CASE InitReaps
  BY <1>5, InitReapsKeeps
<1>6. CASE doing # "off" /\ Interrupt
  <2>1. UNCHANGED <<st, par, shPid, doing, waits, jobs, initAt>>
    BY <1>6 DEF Interrupt
  <2>2. QED
    BY <2>1 DEF JobsInv, JobsTypeOK, PidsInOrder, Born, DeadShellLeavesNothing, Live,
                CapturedIsNoJob, JobsAreChildren, Children
<1>7. CASE \E p \in Pids : Exit(p)
  BY <1>7, ExitKeeps
<1>8. CASE UNCHANGED jobVars
  BY <1>8 DEF jobVars, JobsInv, JobsTypeOK, PidsInOrder, Born, DeadShellLeavesNothing, Live,
              CapturedIsNoJob, JobsAreChildren, Children
<1>9. QED
  BY <1>1, <1>2, <1>3, <1>4, <1>5, <1>6, <1>7, <1>8 DEF JobsNext

LEMMA InvAlways == JobsSpec => []JobsInv
BY InitFits, StepKeeps, PTL DEF JobsSpec

\* Whatever commands are given, and whoever ends when, the table of the shell names children
\* it has not reaped, each once: drain_jobs() waits for no job that is gone.
THEOREM TableIsTrue == JobsSpec => []JobsAreChildren
<1>1. JobsInv => JobsAreChildren
  BY DEF JobsInv
<1>2. QED
  BY <1>1, InvAlways, PTL

\* Init starts a shell only when the last one is dead: reaping an orphan is not taken for the
\* end of the shell, and there are no two shells on the console.
THEOREM OneShellHolds == JobsSpec => OneShell
<1>1. JobsInv /\ [JobsNext]_jobVars => [shPid' # shPid => ~Live(shPid)]_jobVars
  <2> SUFFICES ASSUME JobsInv, [JobsNext]_jobVars, shPid' # shPid PROVE ~Live(shPid)
    OBVIOUS
  <2>1. CASE InitForks
    BY <2>1 DEF InitForks, JobsInv, DeadShellLeavesNothing
  <2>2. CASE ~InitForks
    <3>1. UNCHANGED shPid
      BY <2>2 DEF JobsNext, jobVars, ShellSteps, Poll, CaptureEnds, WaitOne, WaitAny, Waited, Drain,
           CaptureSetsFg, Exec, ExecFails, Pipe, PipeFails, Background, FgLast, FgJob, Kill, ListJobs,
           Halt, Capture, Given, InitReaps, Interrupt, Exit
    <3>2. QED
      BY <3>1
  <2>3. QED
    BY <2>1, <2>2
<1>2. QED
  BY <1>1, InvAlways, PTL DEF JobsSpec, OneShell

----------------------------------------------------------------------------
(* The plain downloader *)

\* What the program has of a reply it has not refused is what it received behind the header.
HttpInv ==
    /\ HttpTypeOK
    /\ at = "connect" => taken = 0
    /\ at = "head" => taken <= Cap
    /\ at = "body" => /\ reply.code = 200 /\ reply.head <= taken /\ ~LengthRefused
                      /\ kept = BodyOf(reply.head, taken)
    /\ HttpIsFair

LEMMA BodyIs ==
    ASSUME HttpTypeOK, NEW a \in Nat, NEW b \in Nat, a <= b
    PROVE  /\ BodyOf(a, b) \in Seq(Int) /\ Len(BodyOf(a, b)) = b - a
           /\ reply.head <= a => BodyOf(a, b) \in Seq(Nat)
<1>1. reply.head \in Nat
  BY HttpAssumption DEF HttpTypeOK, IsReply
<1>2. \A x \in 1 .. (b - a) : ByteAt(a + x) \in Int /\ (reply.head <= a => ByteAt(a + x) \in Nat)
  BY <1>1 DEF ByteAt
<1>3. b - a \in Nat
  OBVIOUS
<1> QED BY <1>2, <1>3 DEF BodyOf

LEMMA BodyGrows ==
    ASSUME HttpTypeOK, NEW a \in Nat, NEW b \in Nat, NEW c \in Nat, a <= b, b <= c
    PROVE  BodyOf(a, b) \o BodyOf(b, c) = BodyOf(a, c)
<1> DEFINE s == BodyOf(a, b)  t == BodyOf(b, c)  u == BodyOf(a, c)
<1>1. s \in Seq(Int) /\ Len(s) = b - a /\ t \in Seq(Int) /\ Len(t) = c - b /\ u \in Seq(Int) /\ Len(u) = c - a
  <2>1. a <= c
    OBVIOUS
  <2>2. s \in Seq(Int) /\ Len(s) = b - a
    BY BodyIs
  <2>3. t \in Seq(Int) /\ Len(t) = c - b
    BY BodyIs
  <2>4. u \in Seq(Int) /\ Len(u) = c - a
    BY <2>1, BodyIs
  <2> QED BY <2>2, <2>3, <2>4
<1>2. /\ \A x \in 1 .. (b - a) : s[x] = ByteAt(a + x)
      /\ \A x \in 1 .. (c - b) : t[x] = ByteAt(b + x)
      /\ \A x \in 1 .. (c - a) : u[x] = ByteAt(a + x)
  BY DEF BodyOf
<1> HIDE DEF s, t, u
<1>3. s \o t \in Seq(Int) /\ Len(s \o t) = c - a
  BY <1>1
<1>4. ASSUME NEW x \in 1 .. (c - a) PROVE (s \o t)[x] = u[x]
  <2>1. CASE x <= b - a
    BY <2>1, <1>1, <1>2
  <2>2. CASE x > b - a
    <3>1. x - (b - a) \in 1 .. (c - b) /\ b + (x - (b - a)) = a + x /\ x \in 1 .. (b - a) + (c - b)
      BY <2>2
    <3>0. (s \o t)[x] = t[x - (b - a)]
      <4>1. (s \o t)[x] = IF x <= Len(s) THEN s[x] ELSE t[x - Len(s)]
        BY <1>1, <3>1, ConcatProperties
      <4> QED BY <4>1, <1>1, <2>2
    <3>2. t[x - (b - a)] = ByteAt(b + (x - (b - a)))
      BY <3>1, <1>2
    <3> QED BY <3>0, <3>1, <3>2, <1>2
  <2>3. x <= b - a \/ x > b - a
    OBVIOUS
  <2> QED BY <2>1, <2>2, <2>3, Zenon
<1>5. s \o t = u
  BY <1>1, <1>3, <1>4, SeqEqual
<1> QED BY <1>5 DEF s, t, u

LEMMA HttpInitFits == HttpInit => HttpInv
<1> SUFFICES ASSUME HttpInit PROVE HttpInv
  OBVIOUS
<1>1. HttpTypeOK
  <2>1. reply.head \in Nat /\ reply.body \in Nat
    BY HttpAssumption DEF HttpInit, IsReply
  <2> QED BY <2>1, HttpAssumption DEF HttpInit, HttpTypeOK, Bytes
<1> QED BY <1>1 DEF HttpInit, HttpInv, HttpIsFair, PassIsWhole, RefusedForCause

LEMMA HttpStepKeeps == HttpInv /\ [HttpNext]_httpVars => HttpInv'
<1> SUFFICES ASSUME HttpInv, [HttpNext]_httpVars PROVE HttpInv'
  OBVIOUS
<1> USE DEF HttpInv, HttpIsFair
<1>0. /\ reply.code \in Nat /\ reply.want \in Nat /\ reply.head \in Nat \ {0} /\ reply.body \in Nat
      /\ BufCap \in Nat \ {0} /\ OutCap \in Nat \ {0} /\ SpinCap \in Nat /\ Bytes \in Nat
      /\ taken \in Nat /\ came \in Nat /\ taken <= came /\ came <= Bytes /\ Bytes = reply.head + reply.body
      /\ kept \in Seq(Nat) /\ Cap \in Nat \ {0} /\ reply \in Replies /\ user \in {"wget", "plain_get"}
  <2>1. /\ reply \in Replies /\ taken \in 0 .. came /\ came \in 0 .. Bytes /\ kept \in Seq(Nat)
        /\ user \in {"wget", "plain_get"}
    BY DEF HttpTypeOK
  <2>2. reply.code \in Nat /\ reply.want \in Nat /\ reply.head \in Nat \ {0} /\ reply.body \in Nat
    BY <2>1, HttpAssumption DEF IsReply
  <2> QED BY <2>1, <2>2, HttpAssumption DEF Bytes, Cap
<1>9. at = "body" => Len(kept) = taken - reply.head
  <2>1. reply.head <= taken => Len(BodyOf(reply.head, taken)) = taken - reply.head
    <3>1. HttpTypeOK /\ reply.head \in Nat /\ taken \in Nat
      BY <1>0
    <3> HIDE DEF HttpInv, HttpIsFair
    <3> QED BY <3>1, BodyIs
  <2> QED BY <2>1
<1>1. CASE Arrive \/ PeerEnds
  <2>1. UNCHANGED <<user, reply, taken, at, kept, spins>> /\ at \in Reading
    BY <1>1 DEF Arrive, PeerEnds
  <2>2. came' \in taken .. Bytes /\ ended' \in {"open", "eof", "reset"}
    BY <1>1, <1>0 DEF Arrive, PeerEnds, HttpTypeOK
  <2>3. Bytes' = Bytes /\ Cap' = Cap /\ BodyOf(reply.head, taken)' = BodyOf(reply.head, taken)
    BY <2>1 DEF Bytes, Cap, BodyOf, ByteAt
  <2>4. HttpTypeOK'
    BY <2>1, <2>2, <2>3, <1>0 DEF HttpTypeOK
  <2> QED BY <2>1, <2>3, <2>4 DEF PassIsWhole, RefusedForCause, Reading, LengthRefused
<1>2. ASSUME Connect \/ HeaderRead \/ HeaderTooLong \/ Recv \/ PollEmpty \/ RecvEnds \/ BodyRead
      PROVE  HttpInv'
  <2>1. UNCHANGED <<user, reply, came, ended>>
    BY <1>2 DEF Connect, HeaderRead, HeaderTooLong, Recv, PollEmpty, RecvEnds, BodyRead, NetStays
  <2>2. /\ Bytes' = Bytes /\ Cap' = Cap /\ LengthRefused' = LengthRefused /\ GoodReply' = GoodReply
        /\ \A a, b \in Int : BodyOf(a, b)' = BodyOf(a, b)
    BY <2>1 DEF Bytes, Cap, BodyOf, ByteAt, LengthRefused, GoodReply
  <2>3. CASE Connect
    <3>1. at' \in {"head", "refused"} /\ UNCHANGED <<taken, kept, spins>> /\ at = "connect"
      BY <2>3 DEF Connect, Stop
    <3>2. HttpTypeOK'
      BY <3>1, <2>1, <2>2, <1>0 DEF HttpTypeOK, Reading, Verdicts
    <3> QED BY <3>1, <3>2, <2>1, <2>2, <1>0 DEF PassIsWhole, RefusedForCause
  <2>4. CASE HeaderRead
    <3>0. at = "head" /\ Code # 0 /\ taken' = taken /\ reply.head <= taken /\ Code = reply.code
      BY <2>4, <1>0 DEF HeaderRead, Stop, Code
    <3>1. CASE at' \in {"status", "length", "write"} /\ UNCHANGED <<kept, spins>>
      <4>1. (at' = "status" => Code # 200) /\ (at' = "length" => LengthRefused)
        BY <2>4, <3>1 DEF HeaderRead, Stop
      <4>2. HttpTypeOK'
        BY <3>0, <3>1, <2>1, <2>2, <1>0 DEF HttpTypeOK, Verdicts
      <4>3. RefusedForCause'
        BY <4>1, <3>0, <3>1, <2>1, <2>2, <1>0 DEF RefusedForCause, GoodReply, LengthRefused
      <4> QED BY <3>0, <3>1, <4>2, <4>3, <2>2 DEF PassIsWhole
    <3>2. CASE at' = "body"
      <4>1. Code = 200 /\ ~LengthRefused /\ kept' = BodyOf(reply.head, taken) /\ spins' = 0
        BY <2>4, <3>2 DEF HeaderRead, Stop
      <4>2. kept' \in Seq(Nat)
        <5>1. BodyOf(reply.head, taken) \in Seq(Nat)
          <6>1. HttpTypeOK /\ reply.head \in Nat /\ taken \in Nat /\ reply.head <= taken /\ reply.head <= reply.head
            BY <3>0, <1>0
          <6> HIDE DEF HttpInv, HttpIsFair
          <6> QED BY <6>1, BodyIs
        <5> QED BY <4>1, <5>1
      <4>3. HttpTypeOK'
        BY <3>0, <3>2, <4>1, <4>2, <2>1, <2>2, <1>0 DEF HttpTypeOK, Reading
      <4>4. kept' = BodyOf(reply.head, taken)'
        BY <4>1, <3>0, <2>1, <2>2, <1>0
      <4> QED BY <3>0, <3>2, <4>1, <4>3, <4>4, <2>1, <2>2 DEF PassIsWhole, RefusedForCause
    <3> QED BY <2>4, <3>1, <3>2 DEF HeaderRead, Stop
  <2>5. CASE HeaderTooLong
    <3>1. at = "head" /\ Code = 0 /\ taken >= Cap /\ at' = "header" /\ UNCHANGED <<taken, kept, spins>>
      BY <2>5 DEF HeaderTooLong, Stop
    <3>2. HttpTypeOK'
      BY <3>1, <2>1, <2>2, <1>0 DEF HttpTypeOK, Verdicts
    <3>3. ~GoodReply
      BY <3>1, <1>0 DEF Code, GoodReply
    <3> QED BY <3>1, <3>2, <3>3, <2>1, <2>2 DEF PassIsWhole, RefusedForCause
  <2>6. CASE Recv
    <3>0. PICK n \in 1 .. (came - taken) :
            /\ n <= Room /\ taken' = taken + n
            /\ kept' = IF at = "body" THEN kept \o BodyOf(taken, taken + n) ELSE kept
      BY <2>6 DEF Recv
    <3>1. /\ at' = at \/ (at = "body" /\ at' = "write")
          /\ spins' = 0 /\ (at = "head" \/ at = "body") /\ taken' \in 0 .. came /\ n \in Nat
      BY <2>6, <3>0, <1>0 DEF Recv, Wants
    <3>2. CASE at = "head"
      <4>1. kept' = kept /\ at' = "head" /\ taken' <= Cap
        BY <3>0, <3>1, <3>2, <1>0 DEF Room
      <4>2. HttpTypeOK'
        BY <3>1, <4>1, <2>1, <2>2, <1>0 DEF HttpTypeOK, Reading
      <4> QED BY <4>1, <4>2, <2>2 DEF PassIsWhole, RefusedForCause
    <3>3. CASE at = "body"
      <4>1. kept' = BodyOf(reply.head, taken + n)
        <5>1. reply.head <= taken /\ taken <= taken + n /\ taken + n \in Nat
          BY <3>0, <3>1, <3>3, <1>0
        <5>2. BodyOf(reply.head, taken) \o BodyOf(taken, taken + n) = BodyOf(reply.head, taken + n)
          <6>1. HttpTypeOK /\ reply.head \in Nat /\ taken \in Nat
            BY <1>0
          <6> HIDE DEF HttpInv, HttpIsFair
          <6> QED BY <5>1, <6>1, BodyGrows
        <5> QED BY <5>2, <3>0, <3>3
      <4>2. reply.head <= taken + n /\ taken + n \in Nat
        BY <3>1, <3>3, <3>0, <1>0
      <4>3. kept' \in Seq(Nat)
        <5>1. BodyOf(reply.head, taken + n) \in Seq(Nat)
          <6>1. HttpTypeOK /\ reply.head \in Nat /\ reply.head <= reply.head
            BY <1>0
          <6> QED BY <4>2, <6>1, BodyIs
        <5> QED BY <4>1, <5>1
      <4>5. kept' = BodyOf(reply.head, taken)'
        BY <4>1, <3>0, <4>2, <2>1, <2>2, <1>0
      <4>4. HttpTypeOK'
        BY <3>1, <3>3, <4>3, <2>1, <2>2, <1>0 DEF HttpTypeOK, Reading, Verdicts
      <4> QED BY <3>0, <3>1, <3>3, <4>2, <4>4, <4>5, <2>1, <2>2 DEF PassIsWhole, RefusedForCause
    <3> QED BY <3>1, <3>2, <3>3
  <2>7. CASE PollEmpty /\ spins < SpinCap
    <3>1. spins' = spins + 1 /\ UNCHANGED <<at, taken, kept>> /\ (at = "head" \/ at = "body")
      BY <2>7 DEF PollEmpty, Wants
    <3>2. HttpTypeOK'
      BY <3>1, <2>7, <2>1, <2>2, <1>0 DEF HttpTypeOK, Reading
    <3> QED BY <3>1, <3>2, <2>1, <2>2, <1>0 DEF PassIsWhole, RefusedForCause
  <2>8. CASE RecvEnds \/ (PollEmpty /\ ~(spins < SpinCap))
    <3>1. /\ at' \in {"status", "length"} /\ UNCHANGED <<taken, kept, spins>> /\ Wants /\ came = taken
          /\ RecvEnds => ended # "open"
      BY <2>8 DEF RecvEnds, PollEmpty, Stop, GivesUp
    <3>2. HttpTypeOK'
      BY <3>1, <2>1, <2>2, <1>0 DEF HttpTypeOK, Verdicts
    <3>3. GoodReply /\ at = "head" => taken < Bytes
      BY <3>1, <1>0 DEF Wants, Code, GoodReply
    <3>4. at = "body" => taken - reply.head < reply.want
      <4>1. at = "body" => Len(kept) = taken - reply.head
        BY <1>0, <1>9
      <4> QED BY <4>1, <3>1 DEF Wants
    <3>5. GoodReply => taken < Bytes
      BY <3>1, <3>3, <3>4, <1>0 DEF Wants, GoodReply
    <3>6. spins \in 0 .. SpinCap
      BY DEF HttpTypeOK
    <3> QED BY <3>1, <3>2, <3>5, <3>6, <2>1, <2>2, <2>8, <1>0 DEF PassIsWhole, RefusedForCause
  <2>9. CASE BodyRead
    <3>1. /\ at = "body" /\ Len(kept) >= reply.want /\ UNCHANGED <<taken, kept, spins>>
          /\ at' = IF Len(kept) = reply.want THEN "pass" ELSE "length"
      BY <2>9 DEF BodyRead, Stop
    <3>2. HttpTypeOK'
      BY <3>1, <2>1, <2>2, <1>0 DEF HttpTypeOK, Verdicts
    <3>3. Len(kept) = taken - reply.head
      BY <3>1, <1>9
    <3>4. CASE Len(kept) = reply.want
      <4>1. taken = reply.head + reply.want
        BY <3>3, <3>4, <1>0
      <4> QED BY <3>1, <3>2, <3>4, <4>1, <2>1, <2>2, <1>0 DEF PassIsWhole, RefusedForCause
    <3>5. CASE Len(kept) # reply.want
      <4>1. ~GoodReply
        BY <3>1, <3>3, <3>5, <1>0 DEF GoodReply
      <4> QED BY <3>1, <3>2, <3>5, <4>1, <2>1, <2>2 DEF PassIsWhole, RefusedForCause
    <3> QED BY <3>4, <3>5
  <2> QED BY <1>2, <2>3, <2>4, <2>5, <2>6, <2>7, <2>8, <2>9
<1>3. CASE UNCHANGED httpVars
  BY <1>3 DEF httpVars, HttpTypeOK, PassIsWhole, RefusedForCause, GoodReply, Bytes, Cap, BodyOf, ByteAt, LengthRefused
<1> QED BY <1>1, <1>2, <1>3 DEF HttpNext

\* However the reply is cut into chunks and whoever falls silent or hangs up, a download
\* that passes has the whole body, and a good reply is refused only for a cause (user/wget
\* and plain_get of user/wgets).
THEOREM PlainDownloadsAreWhole == HttpSpec => [](HttpTypeOK /\ HttpIsFair)
<1>1. HttpInv => HttpTypeOK /\ HttpIsFair
  BY DEF HttpInv
<1> QED BY <1>1, HttpInitFits, HttpStepKeeps, PTL DEF HttpSpec

----------------------------------------------------------------------------
(* The environment *)

\* A name is in the table once, with the value that was meant, or not at all and not meant.
EnvInv ==
    /\ count \in 0 .. EnvCap
    /\ names \in [0 .. EnvCap - 1 -> EnvNames \cup {Unset}]
    /\ vals \in [0 .. EnvCap - 1 -> EnvVals \cup {Unset}]
    /\ meant \in [EnvNames -> EnvVals \cup {Unset}]
    /\ \A k \in Used : names[k] \in EnvNames /\ vals[k] \in EnvVals /\ vals[k] = meant[names[k]]
    /\ \A j, k \in Used : names[j] = names[k] => j = k
    /\ \A x \in EnvNames : meant[x] # Unset => \E k \in Used : names[k] = x

LEMMA PlaceIs ==
    ASSUME EnvInv, NEW x \in EnvNames, Places(x) # {}
    PROVE  Place(x) \in Used /\ names[Place(x)] = x /\ Places(x) = {Place(x)}
<1>1. PICK k \in Used : names[k] = x
  BY DEF Places
<1>2. Places(x) = {k}
  BY <1>1 DEF Places, EnvInv
<1>3. k <= k
  BY <1>1, ShellEnvAssumption DEF Used, EnvInv
<1>4. Place(x) = k
  BY <1>2, <1>3 DEF Place
<1> QED BY <1>1, <1>2, <1>4

LEMMA EnvIsEnough == EnvInv => EnvIsMeant
<1> SUFFICES ASSUME EnvInv PROVE EnvIsMeant
  OBVIOUS
<1>1. ASSUME NEW x \in EnvNames PROVE Lookup(x) = meant[x]
  <2>1. CASE Places(x) = {}
    BY <2>1 DEF Lookup, Places, EnvInv
  <2>2. CASE Places(x) # {}
    <3>1. Place(x) \in Used /\ names[Place(x)] = x
      BY <2>2, PlaceIs
    <3> QED BY <2>2, <3>1 DEF Lookup, EnvInv
  <2> QED BY <2>1, <2>2
<1>2. Envp = {<<x, meant[x]>> : x \in {y \in EnvNames : meant[y] # Unset}}
  <2>1. ASSUME NEW k \in Used
        PROVE  names[k] \in EnvNames /\ meant[names[k]] # Unset /\ vals[k] = meant[names[k]]
    BY ShellEnvAssumption DEF EnvInv
  <2>2. ASSUME NEW x \in EnvNames, meant[x] # Unset
        PROVE  \E k \in Used : x = names[k] /\ meant[x] = vals[k]
    BY <2>1, <2>2 DEF EnvInv
  <2> QED BY <2>1, <2>2 DEF Envp
<1> QED BY <1>1, <1>2 DEF EnvIsMeant

LEMMA EnvInitFits == ShellEnvInit => EnvInv
BY ShellEnvAssumption DEF ShellEnvInit, EnvInv, Used

LEMMA EnvStepKeeps == EnvInv /\ [ShellEnvNext]_envVars => EnvInv'
<1> SUFFICES ASSUME EnvInv, [ShellEnvNext]_envVars PROVE EnvInv'
  OBVIOUS
<1>0. count \in Int /\ EnvCap \in Nat \ {0} /\ 0 <= count /\ count <= EnvCap /\ Used \subseteq 0 .. EnvCap - 1
  BY ShellEnvAssumption DEF EnvInv, Used
<1>1. ASSUME NEW x \in EnvNames, NEW v \in EnvVals, Export(x, v) PROVE EnvInv'
  <2>1. CASE Places(x) = {}
    <3>1. /\ count < EnvCap /\ count' = count + 1
          /\ names' = [names EXCEPT ![count] = x] /\ vals' = [vals EXCEPT ![count] = v]
          /\ meant' = [meant EXCEPT ![x] = v]
      BY <1>1, <2>1 DEF Export
    <3>2. Used' = Used \cup {count} /\ count \notin Used /\ count \in 0 .. EnvCap - 1 /\ count' \in 0 .. EnvCap
      BY <1>0, <3>1 DEF Used
    <3>3. \A k \in Used : names[k] # x
      BY <2>1 DEF Places
    <3>4. names'[count] = x /\ vals'[count] = v /\ \A k \in Used : names'[k] = names[k] /\ vals'[k] = vals[k]
      BY <1>0, <3>1, <3>2 DEF EnvInv
    <3>5. /\ names' \in [0 .. EnvCap - 1 -> EnvNames \cup {Unset}]
          /\ vals' \in [0 .. EnvCap - 1 -> EnvVals \cup {Unset}]
          /\ meant' \in [EnvNames -> EnvVals \cup {Unset}]
          /\ meant'[x] = v /\ \A y \in EnvNames \ {x} : meant'[y] = meant[y]
      BY <3>1 DEF EnvInv
    <3>6. \A k \in Used' : names'[k] \in EnvNames /\ vals'[k] \in EnvVals /\ vals'[k] = meant'[names'[k]]
      BY <3>2, <3>3, <3>4, <3>5 DEF EnvInv
    <3>7. \A j, k \in Used' : names'[j] = names'[k] => j = k
      BY <3>2, <3>3, <3>4 DEF EnvInv
    <3>8. \A y \in EnvNames : meant'[y] # Unset => \E k \in Used' : names'[k] = y
      BY <3>2, <3>4, <3>5 DEF EnvInv
    <3> QED BY <3>2, <3>5, <3>6, <3>7, <3>8 DEF EnvInv
  <2>2. CASE Places(x) # {}
    <3> DEFINE p == Place(x)
    <3>1. p \in Used /\ names[p] = x /\ Places(x) = {p}
      BY <2>2, PlaceIs
    <3>2. /\ count' = count /\ names' = [names EXCEPT ![p] = x] /\ vals' = [vals EXCEPT ![p] = v]
          /\ meant' = [meant EXCEPT ![x] = v]
      BY <1>1, <2>2 DEF Export
    <3> HIDE DEF p
    <3>3. \A k \in Used : names[k] = x => k = p
      BY <3>1 DEF Places
    <3>4. /\ Used' = Used /\ vals'[p] = v
          /\ \A k \in Used : names'[k] = names[k] /\ (k # p => vals'[k] = vals[k])
      BY <1>0, <3>1, <3>2 DEF EnvInv, Used
    <3>5. /\ names' \in [0 .. EnvCap - 1 -> EnvNames \cup {Unset}]
          /\ vals' \in [0 .. EnvCap - 1 -> EnvVals \cup {Unset}]
          /\ meant' \in [EnvNames -> EnvVals \cup {Unset}]
          /\ meant'[x] = v /\ \A y \in EnvNames \ {x} : meant'[y] = meant[y]
      BY <3>2 DEF EnvInv
    <3>6. \A k \in Used' : names'[k] \in EnvNames /\ vals'[k] \in EnvVals /\ vals'[k] = meant'[names'[k]]
      BY <3>1, <3>3, <3>4, <3>5 DEF EnvInv
    <3>7. \A j, k \in Used' : names'[j] = names'[k] => j = k
      BY <3>4 DEF EnvInv
    <3>8. \A y \in EnvNames : meant'[y] # Unset => \E k \in Used' : names'[k] = y
      BY <3>1, <3>4, <3>5 DEF EnvInv
    <3> QED BY <3>2, <3>5, <3>6, <3>7, <3>8 DEF EnvInv
  <2> QED BY <2>1, <2>2
<1>2. ASSUME NEW x \in EnvNames, UnsetVar(x) PROVE EnvInv'
  <2> DEFINE p == Place(x)  l == count - 1
  <2>1. p \in Used /\ names[p] = x /\ Places(x) = {p}
    BY <1>2, PlaceIs DEF UnsetVar
  <2>2. /\ names' = [names EXCEPT ![p] = names[l]] /\ vals' = [vals EXCEPT ![p] = vals[l]]
        /\ count' = l /\ meant' = [meant EXCEPT ![x] = Unset]
    BY <1>2 DEF UnsetVar, MovedVals
  <2>3. l \in Used /\ Used' = Used \ {l} /\ l \in 0 .. EnvCap
    BY <1>0, <2>1, <2>2 DEF Used
  <2> HIDE DEF p, l
  <2>4. \A k \in Used : names[k] = x => k = p
    BY <2>1 DEF Places
  <2>5. /\ names'[p] = names[l] /\ vals'[p] = vals[l]
        /\ \A k \in Used : k # p => names'[k] = names[k] /\ vals'[k] = vals[k]
    BY <1>0, <2>1, <2>2 DEF EnvInv
  <2>6. /\ names' \in [0 .. EnvCap - 1 -> EnvNames \cup {Unset}]
        /\ vals' \in [0 .. EnvCap - 1 -> EnvVals \cup {Unset}]
        /\ meant' \in [EnvNames -> EnvVals \cup {Unset}]
        /\ meant'[x] = Unset /\ \A y \in EnvNames \ {x} : meant'[y] = meant[y]
    BY <1>0, <2>2, <2>3 DEF EnvInv
  <2>7. \A k \in Used' : names'[k] \in EnvNames \ {x} /\ vals'[k] \in EnvVals /\ vals'[k] = meant'[names'[k]]
    BY <2>1, <2>3, <2>4, <2>5, <2>6 DEF EnvInv
  <2>8. ASSUME NEW j \in Used', NEW k \in Used', names'[j] = names'[k] PROVE j = k
    <3>1. j \in Used /\ k \in Used /\ j # l /\ k # l
      BY <2>3
    <3>2. CASE j # p /\ k # p
      BY <2>5, <2>8, <3>1, <3>2 DEF EnvInv
    <3>3. CASE j = p \/ k = p
      BY <2>3, <2>5, <2>8, <3>1, <3>3 DEF EnvInv
    <3> QED BY <3>2, <3>3
  <2>9. ASSUME NEW y \in EnvNames, meant'[y] # Unset PROVE \E k \in Used' : names'[k] = y
    <3>1. y # x /\ meant[y] # Unset
      BY <2>6, <2>9
    <3>2. PICK k \in Used : names[k] = y
      BY <3>1 DEF EnvInv
    <3>3. k # p
      BY <2>1, <3>1, <3>2
    <3>4. CASE k = l
      BY <2>1, <2>3, <2>5, <3>2, <3>3, <3>4
    <3>5. CASE k # l
      BY <2>3, <2>5, <3>2, <3>3, <3>5
    <3> QED BY <3>4, <3>5
  <2> QED BY <2>2, <2>3, <2>6, <2>7, <2>8, <2>9 DEF EnvInv
<1>3. CASE UNCHANGED envVars
  BY <1>3 DEF envVars, EnvInv, Used
<1> QED BY <1>1, <1>2, <1>3 DEF ShellEnvNext

\* Whatever is exported and unset, a name has the value last given, in the shell and in the
\* programs it starts (Env::set, Env::unset, mkenvp).
THEOREM EnvironmentIsMeant == ShellEnvSpec => []EnvIsMeant
BY EnvInitFits, EnvStepKeeps, EnvIsEnough, PTL DEF ShellEnvSpec

----------------------------------------------------------------------------
(* The line editor *)

LEMMA Remainder ==
    ASSUME NEW a \in Nat, NEW n \in Nat \ {0}
    PROVE  \E m \in Nat, r \in 0 .. n - 1 : a = (n * m) + r /\ (a % n) = r
<1> DEFINE m == a \div n
<1> DEFINE r == a % n
<1>1. r \in 0 .. n - 1
  BY SMTT(20)
<1>2. m \in Nat
  BY SMTT(20)
<1>3. a = (n * m) + r
  BY SMTT(20)
<1>4. QED
  BY <1>1, <1>2, <1>3

LEMMA OfRemainder ==
    ASSUME NEW m \in Nat, NEW r \in Nat, NEW n \in Nat \ {0}, r < n
    PROVE  ((n * m) + r) % n = r
BY SMTT(20)

LEMMA Multiples ==
    ASSUME NEW m \in Nat, NEW p \in Nat, NEW n \in Nat
    PROVE  /\ n * m \in Nat
           /\ n * (m + 1) = (n * m) + n
           /\ m <= p => n * m <= n * p
BY SMT

\* Two numbers that share a slot are a ring apart.
LEMMA RingApart ==
    ASSUME NEW a \in Nat, NEW b \in Nat, NEW n \in Nat \ {0}, (a % n) = (b % n), a < b
    PROVE  a + n <= b
<1>1. PICK m \in Nat, r \in 0 .. n - 1 : a = (n * m) + r /\ (a % n) = r
  BY Remainder
<1>2. PICK p \in Nat, s \in 0 .. n - 1 : b = (n * p) + s /\ (b % n) = s
  BY Remainder
<1>3. r = s
  BY <1>1, <1>2
<1>4. n * m \in Nat /\ n * p \in Nat
  BY Multiples
<1>5. CASE p <= m
  <2>1. n * p <= n * m
    BY <1>5, Multiples
  <2>2. QED
    BY <2>1, <1>1, <1>2, <1>3, <1>4
<1>6. CASE m + 1 <= p
  <2>1. n * (m + 1) <= n * p
    BY <1>6, Multiples
  <2>2. (n * m) + n <= n * p
    BY <2>1, Multiples
  <2>3. a + n = ((n * m) + n) + r
    BY <1>1, <1>4
  <2>4. QED
    BY <2>2, <2>3, <1>2, <1>3, <1>4
<1>7. QED
  BY <1>5, <1>6

\* The line as it is typed, as it stands on the terminal, and the ring of past lines.
EditInv ==
    /\ buf \in Seq(Keys) /\ draft \in Seq(Keys)
    /\ ring \in [0 .. HistCap - 1 -> Seq(Keys)] /\ past \in Seq(Seq(Keys))
    /\ pushed = Len(past) /\ nav \in 0 .. Available
    /\ row \in Seq(Keys \cup {" "}) /\ col = Len(buf) /\ col <= Len(row)
    /\ \A x \in 1 .. col : row[x] = buf[x]
    /\ \A x \in col + 1 .. Len(row) : row[x] = " "
    /\ HistoryIsRecent

LEMMA EditCounts ==
    ASSUME EditInv
    PROVE  /\ pushed \in Nat /\ nav \in Nat /\ HistCap \in Nat \ {0} /\ Available \in Nat /\ nav <= Available
           /\ Available <= pushed /\ Available <= HistCap /\ Len(buf) \in Nat /\ col \in Nat /\ Len(row) \in Nat
           /\ (Available = pushed \/ Available = HistCap)
<1>0. /\ buf \in Seq(Keys) /\ row \in Seq(Keys \cup {" "}) /\ past \in Seq(Seq(Keys)) /\ pushed = Len(past)
      /\ col = Len(buf) /\ nav \in 0 .. Available
  BY DEF EditInv
<1>3. Len(buf) \in Nat /\ Len(row) \in Nat /\ Len(past) \in Nat
  BY <1>0, LenProperties
<1>1. pushed \in Nat /\ col \in Nat /\ HistCap \in Nat \ {0}
  BY <1>0, <1>3, LineEditAssumption
<1>2. /\ Available \in Nat /\ Available <= pushed /\ Available <= HistCap
      /\ (Available = pushed \/ Available = HistCap)
  BY <1>1 DEF Available
<1>4. nav \in Nat /\ nav <= Available
  <2>1. nav \in 0 .. Available
    BY <1>0
  <2> QED BY <1>2, <2>1
<1> QED BY <1>0, <1>1, <1>2, <1>3, <1>4

\* A character goes where the cursor is, and nowhere else.
LEMMA OverIs ==
    ASSUME NEW T, NEW r \in Seq(T), NEW k \in 0 .. Len(r), NEW c \in T
    PROVE  /\ Over(r, k, c) \in Seq(T) /\ Over(r, k, c)[k + 1] = c
           /\ Len(Over(r, k, c)) = (IF k = Len(r) THEN k + 1 ELSE Len(r))
           /\ \A x \in 1 .. Len(r) : x # k + 1 => Over(r, k, c)[x] = r[x]
<1> DEFINE n == IF k = Len(r) THEN k + 1 ELSE Len(r)
<1>1. n \in Nat /\ k + 1 \in 1 .. n /\ \A x \in 1 .. Len(r) : x \in 1 .. n
  OBVIOUS
<1>2. \A x \in 1 .. n : x # k + 1 => x \in 1 .. Len(r)
  OBVIOUS
<1>3. Over(r, k, c) = [x \in 1 .. n |-> IF x = k + 1 THEN c ELSE r[x]]
  BY DEF Over
<1> HIDE DEF n
<1>4. \A x \in 1 .. n : (IF x = k + 1 THEN c ELSE r[x]) \in T
  BY <1>2
<1>5. Over(r, k, c) \in [1 .. n -> T]
  BY <1>3, <1>4
<1>6. Over(r, k, c) \in Seq(T) /\ Len(Over(r, k, c)) = n
  BY <1>1, <1>5
<1> QED BY <1>1, <1>3, <1>6 DEF n

LEMMA EditIsEnough == EditInv => ScreenIsLine /\ HistoryIsRecent
<1> SUFFICES ASSUME EditInv PROVE SubSeq(row, 1, col) = buf
  BY DEF EditInv, ScreenIsLine
<1> DEFINE T == Keys \cup {" "}  s == SubSeq(row, 1, col)
<1>1. col \in Nat /\ col = Len(buf) /\ col <= Len(row) /\ row \in Seq(T) /\ buf \in Seq(T)
  <2>1. row \in Seq(T) /\ buf \in Seq(Keys) /\ col = Len(buf) /\ col <= Len(row)
    BY DEF EditInv
  <2>2. buf \in Seq(T)
    BY <2>1, SeqMonotonic
  <2> QED BY <2>1, <2>2, EditCounts
<1>2. s \in Seq(T) /\ Len(s) = col /\ \A x \in 1 .. col : s[x] = row[x]
  <2> HIDE DEF T
  <2>1. \A x \in 1 .. col : row[x] \in T
    BY <1>1
  <2>2. /\ s \in Seq(T) /\ Len(s) = IF 1 <= col THEN col - 1 + 1 ELSE 0
        /\ \A x \in 1 .. col - 1 + 1 : s[x] = row[1 + x - 1]
    BY <1>1, <2>1, SubSeqProperties
  <2>3. col - 1 + 1 = col /\ (IF 1 <= col THEN col - 1 + 1 ELSE 0) = col /\ \A x \in 1 .. col : 1 + x - 1 = x
    BY <1>1
  <2> HIDE DEF s
  <2> QED BY <2>2, <2>3
<1>3. \A x \in 1 .. col : row[x] = buf[x]
  BY DEF EditInv
<1> HIDE DEF s, T
<1> QED BY <1>1, <1>2, <1>3, SeqEqual DEF s

LEMMA EditInitFits == EditInit => EditInv
<1> SUFFICES ASSUME EditInit PROVE EditInv
  OBVIOUS
<1> USE DEF EditInit
<1>1. HistCap \in Nat \ {0}
  BY LineEditAssumption
<1>2. Available = 0
  BY <1>1 DEF Available
<1>3. HistoryIsRecent
  BY <1>2 DEF HistoryIsRecent
<1> QED BY <1>2, <1>3 DEF EditInv

\* A line put in the history takes the place of the oldest.
LEMMA PushKeeps ==
    ASSUME EditInv, Push(buf)
    PROVE  /\ ring' \in [0 .. HistCap - 1 -> Seq(Keys)] /\ past' \in Seq(Seq(Keys))
           /\ pushed' = Len(past') /\ Available <= Available' /\ HistoryIsRecent'
<1>0. /\ pushed \in Nat /\ HistCap \in Nat \ {0} /\ buf \in Seq(Keys) /\ past \in Seq(Seq(Keys))
      /\ pushed = Len(past) /\ ring \in [0 .. HistCap - 1 -> Seq(Keys)]
  BY EditCounts DEF EditInv
<1>1. CASE ~Fresh(buf)
  <2>1. UNCHANGED <<ring, pushed, past>>
    BY <1>1 DEF Push
  <2>2. Available' = Available /\ HistoryIsRecent'
    BY <2>1 DEF EditInv, Available, HistoryIsRecent, At_
  <2>3. Available <= Available
    BY EditCounts
  <2> QED BY <1>0, <2>1, <2>2, <2>3
<1>2. CASE Fresh(buf)
  <2> DEFINE p == pushed % HistCap
  <2>1. ring' = [ring EXCEPT ![p] = buf] /\ pushed' = pushed + 1 /\ past' = Append(past, buf)
    BY <1>2 DEF Push
  <2>2. p \in 0 .. HistCap - 1
    <3>1. PICK m \in Nat, r \in 0 .. HistCap - 1 : pushed = (HistCap * m) + r /\ (pushed % HistCap) = r
      BY <1>0, Remainder
    <3> QED BY <3>1
  <2> HIDE DEF p
  <2>3. /\ past' \in Seq(Seq(Keys)) /\ Len(past') = pushed + 1 /\ past'[pushed + 1] = buf
        /\ \A x \in 1 .. pushed : past'[x] = past[x]
    BY <1>0, <2>1
  <2>4. ring' \in [0 .. HistCap - 1 -> Seq(Keys)] /\ ring'[p] = buf
    BY <1>0, <2>1, <2>2
  <2>5. /\ Available \in Nat /\ Available' \in Nat /\ Available <= Available' /\ Available' <= pushed + 1
        /\ Available' <= Available + 1 /\ Available' <= HistCap
    BY <1>0, <2>1 DEF Available
  <2>6. ASSUME NEW k \in 1 .. Available' PROVE ring'[At_(k)'] = past'[Len(past') + 1 - k]
    <3>0. k \in Nat /\ 1 <= k /\ k <= pushed + 1 /\ k <= HistCap /\ pushed + 1 - k \in Nat
      BY <1>0, <2>5
    <3>1. At_(k)' = (pushed + 1 - k) % HistCap
      <4>1. At_(k)' = (pushed' - k) % HistCap
        BY DEF At_
      <4>2. pushed' - k = pushed + 1 - k
        <5>1. pushed' = pushed + 1
          BY <2>1
        <5>2. pushed \in Int /\ k \in Int
          BY <1>0, <3>0
        <5> QED BY <5>1, <5>2
      <4> QED BY <4>1, <4>2
    <3>2. CASE k = 1
      <4>1. At_(k)' = p /\ Len(past') + 1 - k = pushed + 1
        BY <1>0, <2>3, <3>1, <3>2 DEF p
      <4> QED BY <4>1, <2>3, <2>4
    <3>3. CASE k # 1
      <4>1. k - 1 \in 1 .. Available /\ pushed - (k - 1) = pushed + 1 - k
        BY <1>0, <2>5, <3>0, <3>3
      <4>2. ring[At_(k - 1)] = past[Len(past) + 1 - (k - 1)]
        BY <4>1 DEF EditInv, HistoryIsRecent
      <4>3. At_(k - 1) = (pushed + 1 - k) % HistCap
        BY <4>1 DEF At_
      <4>4. (pushed + 1 - k) % HistCap # p
        <5> SUFFICES ASSUME (pushed + 1 - k) % HistCap = pushed % HistCap PROVE FALSE
          BY DEF p
        <5>1. pushed + 1 - k < pushed
          BY <1>0, <3>0, <3>3
        <5>2. (pushed + 1 - k) + HistCap <= pushed
          BY <1>0, <3>0, <5>1, RingApart
        <5> QED BY <1>0, <3>0, <5>2
      <4>5. (pushed + 1 - k) % HistCap \in 0 .. HistCap - 1
        <5>1. PICK m \in Nat, r \in 0 .. HistCap - 1 :
                pushed + 1 - k = (HistCap * m) + r /\ ((pushed + 1 - k) % HistCap) = r
          BY <1>0, <3>0, Remainder
        <5> QED BY <5>1
      <4>6. ring'[At_(k)'] = ring[At_(k - 1)]
        BY <1>0, <2>1, <2>2, <3>1, <4>3, <4>4, <4>5
      <4>7. Len(past') + 1 - k = Len(past) + 1 - (k - 1) /\ Len(past) + 1 - (k - 1) \in 1 .. pushed
        BY <1>0, <2>3, <3>0, <3>3
      <4> QED BY <2>3, <4>2, <4>6, <4>7
    <3> QED BY <3>2, <3>3
  <2> QED BY <2>1, <2>3, <2>4, <2>5, <2>6 DEF HistoryIsRecent
<1> QED BY <1>1, <1>2

LEMMA HistoryLineIs ==
    ASSUME EditInv, NEW k \in Nat, k <= Available, k # 0
    PROVE  ring[At_(k)] \in Seq(Keys)
<1>1. pushed \in Nat /\ HistCap \in Nat \ {0} /\ pushed - k \in Nat
  BY EditCounts
<1>2. PICK m \in Nat, r \in 0 .. HistCap - 1 : pushed - k = (HistCap * m) + r /\ ((pushed - k) % HistCap) = r
  BY <1>1, Remainder
<1> QED BY <1>2 DEF At_, EditInv

\* After redraw() the terminal shows the line and nothing else.
LEMMA RedrawShows ==
    ASSUME NEW line \in Seq(Keys), buf' = line, Redraw(line)
    PROVE  /\ row' \in Seq(Keys \cup {" "}) /\ col' = Len(buf') /\ col' <= Len(row') 
           /\ \A x \in 1 .. col' : row'[x] = buf'[x]
           /\ \A x \in col' + 1 .. Len(row') : row'[x] = " "
<1>1. row' = line /\ col' = Len(line) /\ Len(line) \in Nat
  BY DEF Redraw, Shown
<1>2. line \in Seq(Keys \cup {" "})
  BY SeqMonotonic
<1>3. Len(line) <= Len(line) /\ \A x \in Len(line) + 1 .. Len(line) : FALSE
  BY <1>1
<1> QED BY <1>1, <1>2, <1>3

LEMMA EditStepKeeps == EditInv /\ [EditNext]_editVars => EditInv'
<1> SUFFICES ASSUME EditInv, [EditNext]_editVars PROVE EditInv'
  OBVIOUS
<1> DEFINE T == Keys \cup {" "}
           Hist == <<ring, pushed, past>>
<1>0. /\ pushed \in Nat /\ nav \in Nat /\ Available \in Nat /\ nav <= Available
      /\ Len(buf) \in Nat /\ col \in Nat /\ Len(row) \in Nat /\ col = Len(buf) /\ col <= Len(row)
  BY EditCounts DEF EditInv
<1>s. row \in Seq(T) /\ buf \in Seq(Keys) /\ draft \in Seq(Keys)
  BY DEF EditInv
<1>e. /\ \A x \in 1 .. col : row[x] = buf[x]
      /\ \A x \in col + 1 .. Len(row) : row[x] = " "
  BY DEF EditInv
<1>01. ASSUME UNCHANGED Hist
       PROVE  /\ ring' \in [0 .. HistCap - 1 -> Seq(Keys)] /\ past' \in Seq(Seq(Keys)) /\ pushed' = Len(past')
              /\ Available' = Available /\ HistoryIsRecent'
  BY <1>01 DEF EditInv, Available, HistoryIsRecent, At_
<1>1. ASSUME NEW c \in Keys, Type(c) PROVE EditInv'
  <2>0. UNCHANGED <<Hist, nav, draft>>
    BY <1>1 DEF Type
  <2>1. CASE Len(buf) < LineCap
    <3>1. buf' = Append(buf, c) /\ row' = Over(row, col, c) /\ col' = col + 1
      BY <1>1, <2>1 DEF Type, Echo
    <3>2. buf' \in Seq(Keys) /\ Len(buf') = col + 1 /\ buf'[col + 1] = c /\ \A x \in 1 .. col : buf'[x] = buf[x]
      <4>1. col = Len(buf) /\ buf' = Append(buf, c)
        BY <1>0, <3>1
      <4>3. buf \in Seq(Keys)
        BY <1>s
      <4>2. /\ Append(buf, c) \in Seq(Keys) /\ Len(Append(buf, c)) = Len(buf) + 1
            /\ \A x \in 1 .. Len(buf) : Append(buf, c)[x] = buf[x]
            /\ Append(buf, c)[Len(buf) + 1] = c
        <5> HIDE DEF T
        <5> QED BY <4>3, AppendProperties
      <4> QED BY <4>1, <4>2
    <3>3. /\ row' \in Seq(T) /\ row'[col + 1] = c
          /\ Len(row') = (IF col = Len(row) THEN col + 1 ELSE Len(row))
          /\ \A x \in 1 .. Len(row) : x # col + 1 => row'[x] = row[x]
      <4>1. col \in 0 .. Len(row)
        BY <1>0
      <4>2. c \in T
        OBVIOUS
      <4>3. row \in Seq(T)
        BY <1>s
      <4> HIDE DEF T
      <4>4. /\ Over(row, col, c) \in Seq(T) /\ Over(row, col, c)[col + 1] = c
            /\ Len(Over(row, col, c)) = (IF col = Len(row) THEN col + 1 ELSE Len(row))
            /\ \A x \in 1 .. Len(row) : x # col + 1 => Over(row, col, c)[x] = row[x]
        BY <4>1, <4>2, <4>3, OverIs
      <4>5. row' = Over(row, col, c)
        BY <3>1
      <4> QED BY <4>4, <4>5
    <3>4. col' <= Len(row') /\ \A x \in col' + 1 .. Len(row') : x \in col + 1 .. Len(row) /\ x # col + 1
      <4> DEFINE n == Len(row)  n1 == Len(row')
      <4>1. n1 = (IF col = n THEN col + 1 ELSE n) /\ col <= n /\ n \in Nat /\ col \in Nat /\ col' = col + 1
        BY <1>0, <3>1, <3>3
      <4> HIDE DEF n, n1
      <4>2. n1 \in Nat /\ col' <= n1 /\ \A x \in col' + 1 .. n1 : x \in col + 1 .. n /\ x # col + 1
        BY <4>1
      <4> QED BY <4>2 DEF n, n1
    <3>5. ASSUME NEW x \in 1 .. col' PROVE row'[x] = buf'[x]
      <4>1. CASE x = col + 1
        BY <3>2, <3>3, <4>1
      <4>2. CASE x # col + 1
        <5>1. x \in 1 .. col
          BY <1>0, <3>1, <4>2
        <5>2. x \in 1 .. Len(row)
          BY <1>0, <5>1
        <5> QED BY <5>1, <5>2, <4>2, <3>2, <3>3, <1>e
      <4> QED BY <4>1, <4>2
    <3>6. ASSUME NEW x \in col' + 1 .. Len(row') PROVE row'[x] = " "
      <4>1. x \in col + 1 .. Len(row) /\ x # col + 1
        BY <3>4
      <4>2. x \in 1 .. Len(row)
        BY <1>0, <4>1
      <4> QED BY <4>1, <4>2, <3>3, <1>e
    <3> QED BY <1>01, <2>0, <3>1, <3>2, <3>3, <3>4, <3>5, <3>6 DEF EditInv
  <2>2. CASE ~(Len(buf) < LineCap)
    <3>1. UNCHANGED <<buf, row, col>>
      BY <1>1, <2>2 DEF Type
    <3> QED BY <1>01, <2>0, <3>1 DEF EditInv
  <2> QED BY <2>1, <2>2
<1>2. CASE Backspace
  <2>0. UNCHANGED <<Hist, nav, draft>> /\ buf # <<>>
    BY <1>2 DEF Backspace
  <2>1. buf' = SubSeq(buf, 1, Len(buf) - 1) /\ row' = Over(row, col - 1, " ") /\ col' = col - 1 /\ col >= 1
    <3>1. Len(buf) # 0
      BY <1>s, <2>0, EmptySeq
    <3>2. col >= 1
      BY <1>0, <3>1
    <3> QED BY <1>2, <3>2 DEF Backspace, Rubout
  <2>a. col' = col - 1 /\ col >= 1 /\ col \in Nat
    BY <1>0, <2>1
  <2>2. buf' \in Seq(Keys) /\ Len(buf') = col' /\ \A x \in 1 .. col' : buf'[x] = buf[x]
    <3>0. col = Len(buf)
      BY <1>0
    <3>1. buf' = SubSeq(buf, 1, col - 1) /\ col - 1 \in Nat /\ \A x \in 1 .. (col - 1) : x \in 1 .. Len(buf)
      <4>1. col - 1 \in Nat /\ \A x \in 1 .. (col - 1) : x \in 1 .. col
        BY <2>a
      <4> QED BY <3>0, <4>1, <2>1
    <3>2. \A x \in 1 .. (col - 1) : buf[x] \in Keys
      BY <1>s, <3>1, ElementOfSeq
    <3>3. /\ buf' \in Seq(Keys) /\ Len(buf') = IF 1 <= col - 1 THEN (col - 1) - 1 + 1 ELSE 0
          /\ \A x \in 1 .. (col - 1) - 1 + 1 : buf'[x] = buf[1 + x - 1]
      BY <3>1, <3>2, SubSeqProperties
    <3>4. /\ (col - 1) - 1 + 1 = col' /\ (IF 1 <= col - 1 THEN (col - 1) - 1 + 1 ELSE 0) = col'
          /\ \A x \in 1 .. col' : 1 + x - 1 = x
      BY <2>a
    <3> QED BY <3>3, <3>4
  <2>3. /\ row' \in Seq(T) /\ row'[col] = " " /\ Len(row') = Len(row)
        /\ \A x \in 1 .. Len(row) : x # col => row'[x] = row[x]
    <3>1. col - 1 \in 0 .. Len(row) /\ (col - 1) + 1 = col /\ col - 1 # Len(row)
      <4>1. Len(row) \in Nat /\ col <= Len(row)
        BY <1>0
      <4> QED BY <2>a, <4>1
    <3>2. " " \in T
      OBVIOUS
    <3>4. row \in Seq(T)
      BY <1>s
    <3>5. row' = Over(row, col - 1, " ")
      BY <2>1
    <3> HIDE DEF T
    <3>3. /\ row' \in Seq(T) /\ row'[(col - 1) + 1] = " "
          /\ Len(row') = (IF col - 1 = Len(row) THEN (col - 1) + 1 ELSE Len(row))
          /\ \A x \in 1 .. Len(row) : x # (col - 1) + 1 => row'[x] = row[x]
      <4>1. /\ Over(row, col - 1, " ") \in Seq(T) /\ Over(row, col - 1, " ")[(col - 1) + 1] = " "
            /\ Len(Over(row, col - 1, " ")) = (IF col - 1 = Len(row) THEN (col - 1) + 1 ELSE Len(row))
            /\ \A x \in 1 .. Len(row) : x # (col - 1) + 1 => Over(row, col - 1, " ")[x] = row[x]
        <5>1. col - 1 \in 0 .. Len(row)
          BY <3>1
        <5> DEFINE k == col - 1
        <5>2. k \in 0 .. Len(row)
          BY <5>1
        <5> HIDE DEF k
        <5>3. ASSUME NEW c \in T
              PROVE  /\ Over(row, k, c) \in Seq(T) /\ Over(row, k, c)[k + 1] = c
                     /\ Len(Over(row, k, c)) = (IF k = Len(row) THEN k + 1 ELSE Len(row))
                     /\ \A x \in 1 .. Len(row) : x # k + 1 => Over(row, k, c)[x] = row[x]
          BY <5>2, <3>4, OverIs
        <5> QED BY <5>3, <3>2, Zenon DEF k
      <4> QED BY <3>5, <4>1
    <3> QED BY <3>1, <3>3
  <2>4. ASSUME NEW x \in 1 .. col' PROVE row'[x] = buf'[x]
    <3>1. x \in 1 .. col /\ x # col
      BY <2>a
    <3>2. x \in 1 .. Len(row)
      BY <1>0, <3>1
    <3> QED BY <3>1, <3>2, <2>2, <2>3, <1>e
  <2>5. ASSUME NEW x \in col' + 1 .. Len(row') PROVE row'[x] = " "
    <3>1. CASE x = col
      BY <2>3, <3>1
    <3>2. CASE x # col
      <4>1. x \in col' + 1 .. Len(row) /\ col' = col - 1
        BY <2>1, <2>3
      <4>2. x \in col + 1 .. Len(row) /\ x \in 1 .. Len(row)
        <5>1. Len(row) \in Nat
          BY <1>0
        <5> QED BY <2>a, <4>1, <3>2, <5>1
      <4> QED BY <4>2, <2>3, <3>2, <1>e
    <3> QED BY <3>1, <3>2
  <2>6. col' <= Len(row')
    <3>1. Len(row') = Len(row) /\ col' = col - 1
      BY <2>1, <2>3
    <3> QED BY <1>0, <3>1
  <2> QED BY <1>01, <2>0, <2>2, <2>3, <2>4, <2>5, <2>6 DEF EditInv
<1>3. CASE Up
  <2>1. /\ nav < Available /\ nav' = nav + 1 /\ buf' = ring[At_(nav + 1)] /\ Redraw(buf') /\ UNCHANGED Hist
        /\ draft' \in {draft, buf}
    BY <1>3 DEF Up
  <2>2. buf' \in Seq(Keys)
    <3>1. nav + 1 \in Nat /\ nav + 1 <= Available /\ nav + 1 # 0
      BY <1>0, <2>1
    <3> QED BY <2>1, <3>1, HistoryLineIs
  <2>3. nav' \in 0 .. Available
    BY <1>0, <2>1
  <2>4. draft' \in Seq(Keys)
    BY <1>s, <2>1
  <2> QED BY <1>01, <2>1, <2>2, <2>3, <2>4, RedrawShows DEF EditInv
<1>4. CASE Down
  <2>1. /\ nav > 0 /\ nav' = nav - 1 /\ buf' = (IF nav = 1 THEN draft ELSE ring[At_(nav - 1)]) /\ Redraw(buf')
        /\ UNCHANGED Hist /\ draft' = draft
    BY <1>4 DEF Down
  <2>2. buf' \in Seq(Keys)
    <3>1. CASE nav = 1
      BY <1>s, <2>1, <3>1
    <3>2. CASE nav # 1
      <4>1. nav - 1 \in Nat /\ nav - 1 <= Available /\ nav - 1 # 0
        BY <1>0, <2>1, <3>2
      <4> QED BY <2>1, <3>2, <4>1, HistoryLineIs
    <3> QED BY <3>1, <3>2
  <2>3. nav' \in 0 .. Available
    BY <1>0, <2>1
  <2> QED BY <1>s, <1>01, <2>1, <2>2, <2>3, RedrawShows DEF EditInv
<1>5. CASE EndLine
  <2>1. Push(buf) /\ buf' = <<>> /\ nav' = 0 /\ draft' = <<>> /\ row' = <<>> /\ col' = 0
    BY <1>5 DEF EndLine, Anew
  <2>2. /\ ring' \in [0 .. HistCap - 1 -> Seq(Keys)] /\ past' \in Seq(Seq(Keys))
        /\ pushed' = Len(past') /\ Available <= Available' /\ HistoryIsRecent'
    BY <2>1, PushKeeps
  <2>3. Available' \in Nat
    <3>1. Len(past') \in Nat
      BY <2>2, LenProperties
    <3>2. pushed' \in Nat /\ HistCap \in Nat
      BY <2>2, <3>1, LineEditAssumption
    <3> QED BY <3>2 DEF Available
  <2>4. nav' \in 0 .. Available'
    BY <2>1, <2>3
  <2>5. /\ <<>> \in Seq(Keys) /\ <<>> \in Seq(Keys \cup {" "}) /\ Len(<<>>) = 0 /\ 0 <= 0
        /\ (\A x \in 1 .. 0 : FALSE) /\ (\A x \in 0 + 1 .. 0 : FALSE)
    OBVIOUS
  <2> QED BY <2>1, <2>2, <2>4, <2>5 DEF EditInv
<1>6. CASE NoInput
  <2>1. buf = <<>> /\ buf' = <<>> /\ nav' = 0 /\ draft' = <<>> /\ UNCHANGED <<Hist, row, col>>
    BY <1>6 DEF NoInput, Anew
  <2>2. nav' \in 0 .. Available'
    BY <1>0, <1>01, <2>1
  <2> QED BY <1>e, <1>01, <2>1, <2>2 DEF EditInv
<1>7. CASE UNCHANGED editVars
  <2>1. UNCHANGED <<Hist, buf, nav, draft, row, col>>
    BY <1>7 DEF editVars
  <2> QED BY <1>01, <2>1 DEF EditInv
<1> QED BY <1>1, <1>2, <1>3, <1>4, <1>5, <1>6, <1>7 DEF EditNext

\* Whatever keys come, the terminal shows the line that is edited, and the up key finds the
\* lines given last (read_edit, Hist).
THEOREM EditorShowsTheLine == EditSpec => [](ScreenIsLine /\ HistoryIsRecent)
BY EditInitFits, EditStepKeeps, EditIsEnough, PTL DEF EditSpec

----------------------------------------------------------------------------
(* Functions that are defined step by step *)

\* Induction over an interval, on the set of numbers of which something holds.
LEMMA UpTo ==
    ASSUME NEW a \in Nat, NEW n \in Nat, NEW B, a \in B,
           \A k \in a .. n : k \in B /\ k < n => k + 1 \in B
    PROVE  \A k \in a .. n : k \in B
<1> DEFINE Bad == {k \in a .. n : k \notin B}
<1>1. SUFFICES ASSUME Bad # {} PROVE FALSE
  OBVIOUS
<1>2. Bad \in SUBSET Nat
  OBVIOUS
<1>3. PICK m \in Bad : \A k \in Bad : m <= k
  BY <1>1, <1>2, LeastExists
<1>4. m \in a .. n /\ m \notin B /\ m # a
  OBVIOUS
<1>5. m - 1 \in a .. n /\ m - 1 < n /\ (m - 1) + 1 = m /\ ~(m <= m - 1)
  BY <1>4
<1>6. m - 1 \notin Bad
  BY <1>3, <1>5
<1> QED BY <1>4, <1>5, <1>6

Steps(a, n, S) == [a + 1 .. n -> [S -> S]]

Follows(f, a, n, S, c, step) ==
    f \in [a .. n -> S] /\ f[a] = c /\ \A y \in a + 1 .. n : f[y] = step[y][f[y - 1]]

\* What is defined from the value before it, from a on, exists.
LEMMA Iterates ==
    ASSUME NEW a \in Nat, NEW n \in Nat, a <= n, NEW S, NEW c \in S, NEW step, step \in Steps(a, n, S)
    PROVE  \E f : Follows(f, a, n, S, c, step)
<1>0. step \in [a + 1 .. n -> [S -> S]]
  BY DEF Steps
<1> DEFINE Good(k) == \E f \in [a .. k -> S] : f[a] = c /\ \A y \in a + 1 .. k : f[y] = step[y][f[y - 1]]
           B == {k \in a .. n : Good(k)}
<1>1. a \in B
  <2> DEFINE f == [y \in a .. a |-> c]
  <2>1. f \in [a .. a -> S] /\ f[a] = c /\ \A y \in a + 1 .. a : FALSE
    OBVIOUS
  <2>2. Good(a)
    BY <2>1
  <2> QED BY <2>2
<1>2. ASSUME NEW k \in a .. n, k \in B, k < n PROVE k + 1 \in B
  <2>1. PICK f \in [a .. k -> S] : f[a] = c /\ \A y \in a + 1 .. k : f[y] = step[y][f[y - 1]]
    BY <1>2
  <2>0. k \in Nat /\ a <= k /\ k \in a .. k /\ k + 1 \in a + 1 .. n
    BY <1>2
  <2> DEFINE e == step[k + 1][f[k]]
             g == [y \in a .. k + 1 |-> IF y = k + 1 THEN e ELSE f[y]]
  <2>2. e \in S
    BY <2>0, <2>1, <1>0
  <2> HIDE DEF e
  <2>3. g \in [a .. k + 1 -> S] /\ g[k + 1] = e /\ \A y \in a .. k : g[y] = f[y]
    BY <2>0, <2>1, <2>2
  <2> HIDE DEF g
  <2>4. ASSUME NEW y \in a + 1 .. k + 1 PROVE g[y] = step[y][g[y - 1]]
    <3>1. CASE y = k + 1
      <4>1. y - 1 = k /\ g[y - 1] = f[k]
        BY <2>0, <2>3, <3>1
      <4> QED BY <2>3, <3>1, <4>1 DEF e
    <3>2. CASE y # k + 1
      <4>1. y \in a + 1 .. k /\ y \in a .. k /\ y - 1 \in a .. k
        BY <2>0, <3>2
      <4> QED BY <2>1, <2>3, <4>1
    <3> QED BY <3>1, <3>2
  <2>5. g[a] = c
    BY <2>0, <2>1, <2>3
  <2>6. Good(k + 1)
    BY <2>3, <2>4, <2>5
  <2>7. k + 1 \in a .. n
    BY <2>0
  <2> QED BY <2>6, <2>7
<1> HIDE DEF Good
<1>3. \A k \in a .. n : k \in B
  BY <1>1, <1>2, UpTo
<1>4. n \in a .. n
  OBVIOUS
<1> QED BY <1>3, <1>4 DEF Good, Follows

----------------------------------------------------------------------------
(* Patterns *)

PatEnd  == Len(pat)
NameLen == Len(name)

FnTypeOK ==
    /\ pat \in Seq(Letters \cup {"*", "?"}) /\ PatEnd <= MaxPat /\ name \in Seq(Letters)
    /\ px \in 0 .. PatEnd /\ nx \in 0 .. NameLen /\ ss \in 0 .. NameLen
    /\ star \in 0 .. PatEnd \cup {NoStar}

\* How the characters of a pattern, from the a-th on, lie along a name, from the b-th on.
Fits(a, b) == pat[a + 1] \in {"?", name[b + 1]}

Lies(h, a, b) ==
    /\ h \in [a .. PatEnd -> 0 .. NameLen] /\ h[a] = b /\ h[PatEnd] = NameLen
    /\ \A k \in a .. PatEnd - 1 :
         IF pat[k + 1] = "*" THEN h[k] <= h[k + 1] ELSE h[k + 1] = h[k] + 1 /\ Fits(k, h[k])

CanLie(a, b) == \E h : Lies(h, a, b)

MatchRule(m, a, b) ==
    IF a = PatEnd THEN b = NameLen
    ELSE IF pat[a + 1] = "*" THEN m[<<a + 1, b>>] \/ (b < NameLen /\ m[<<a, b + 1>>])
    ELSE b < NameLen /\ pat[a + 1] \in {"?", name[b + 1]} /\ m[<<a + 1, b + 1>>]

MatchPlaces == (0 .. PatEnd) \X (0 .. NameLen)
MatchTable == CHOOSE m : m = [p \in MatchPlaces |-> MatchRule(m, p[1], p[2])]

\* Where a pattern lies along a name is told by its first character and the rest of it.
LEMMA LiesByStep ==
    ASSUME FnTypeOK, NEW a \in 0 .. PatEnd, NEW b \in 0 .. NameLen
    PROVE  CanLie(a, b) <=>
             IF a = PatEnd THEN b = NameLen
             ELSE IF pat[a + 1] = "*" THEN CanLie(a + 1, b) \/ (b < NameLen /\ CanLie(a, b + 1))
             ELSE b < NameLen /\ Fits(a, b) /\ CanLie(a + 1, b + 1)
<1> DEFINE P == PatEnd  N == NameLen
<1>0. P \in Nat /\ N \in Nat /\ a \in Nat /\ b \in Nat /\ a <= P /\ b <= N
  BY LenProperties DEF FnTypeOK, PatEnd, NameLen
<1>1. CASE a = P
  <2>1. ASSUME CanLie(a, b) PROVE b = N
    BY <1>1, <2>1 DEF CanLie, Lies
  <2>2. ASSUME b = N PROVE CanLie(a, b)
    <3> DEFINE h == [k \in a .. P |-> b]
    <3>1. a \in a .. P /\ P \in a .. P /\ a .. P - 1 = {}
      BY <1>0, <1>1
    <3>2. h \in [a .. P -> 0 .. N] /\ h[a] = b /\ h[P] = N
      BY <2>2, <3>1
    <3> HIDE DEF h
    <3>3. Lies(h, a, b)
      BY <3>1, <3>2 DEF Lies
    <3> QED BY <3>3 DEF CanLie
  <2> QED BY <1>1, <2>1, <2>2
<1>2. CASE a # P
  <2>0. a + 1 \in 0 .. P /\ a \in a .. P - 1 /\ a \in a .. P /\ a + 1 \in a .. P /\ P \in a .. P /\ P # a
    BY <1>0, <1>2
  \* What lies from a on lies from a + 1 on, where its second character is.
  <2>1. ASSUME NEW h, Lies(h, a, b) PROVE h[a + 1] \in 0 .. N /\ Lies(h, a, b) /\ CanLie(a + 1, h[a + 1])
    <3> DEFINE g == [k \in a + 1 .. P |-> h[k]]
    <3>1. h \in [a .. P -> 0 .. N] /\ h[P] = N
      BY <2>1 DEF Lies
    <3>2. a + 1 .. P \subseteq a .. P /\ P \in a + 1 .. P /\ a + 1 \in a + 1 .. P
      BY <1>0, <2>0
    <3>3. g \in [a + 1 .. P -> 0 .. N] /\ \A k \in a + 1 .. P : g[k] = h[k]
      BY <3>1, <3>2
    <3> HIDE DEF g
    <3>4. \A k \in a + 1 .. P - 1 : k \in a .. P - 1 /\ k \in a + 1 .. P /\ k + 1 \in a + 1 .. P
      BY <1>0
    <3>5. ASSUME NEW k \in a + 1 .. P - 1
          PROVE  IF pat[k + 1] = "*" THEN g[k] <= g[k + 1] ELSE g[k + 1] = g[k] + 1 /\ Fits(k, g[k])
      <4>1. IF pat[k + 1] = "*" THEN h[k] <= h[k + 1] ELSE h[k + 1] = h[k] + 1 /\ Fits(k, h[k])
        BY <2>1, <3>4 DEF Lies
      <4>2. g[k] = h[k] /\ g[k + 1] = h[k + 1]
        BY <3>3, <3>4
      <4> QED BY <4>1, <4>2
    <3>6. Lies(g, a + 1, h[a + 1])
      BY <3>1, <3>2, <3>3, <3>5 DEF Lies
    <3> QED BY <2>0, <2>1, <3>1, <3>6 DEF CanLie
  \* A character is put before what lies from a + 1 on.
  <2>2. ASSUME NEW c \in 0 .. N, CanLie(a + 1, c),
               IF pat[a + 1] = "*" THEN b <= c ELSE c = b + 1 /\ Fits(a, b)
        PROVE  CanLie(a, b)
    <3>1. PICK g : Lies(g, a + 1, c)
      BY <2>2 DEF CanLie
    <3> DEFINE h == [k \in a .. P |-> IF k = a THEN b ELSE g[k]]
    <3>2. g \in [a + 1 .. P -> 0 .. N] /\ g[a + 1] = c /\ g[P] = N
      BY <3>1 DEF Lies
    <3>3. \A k \in a .. P : k # a => k \in a + 1 .. P
      BY <1>0
    <3>4. h \in [a .. P -> 0 .. N] /\ h[a] = b /\ \A k \in a .. P : k # a => h[k] = g[k]
      BY <1>0, <2>0, <3>2, <3>3
    <3> HIDE DEF h
    <3>5. h[P] = N /\ h[a + 1] = c
      BY <1>0, <2>0, <3>2, <3>4
    <3>6. ASSUME NEW k \in a .. P - 1
          PROVE  IF pat[k + 1] = "*" THEN h[k] <= h[k + 1] ELSE h[k + 1] = h[k] + 1 /\ Fits(k, h[k])
      <4>1. CASE k = a
        BY <2>2, <3>4, <3>5, <4>1
      <4>2. CASE k # a
        <5>1. k \in a + 1 .. P - 1 /\ k \in a .. P /\ k + 1 \in a .. P /\ k + 1 # a
          BY <1>0, <4>2
        <5>2. IF pat[k + 1] = "*" THEN g[k] <= g[k + 1] ELSE g[k + 1] = g[k] + 1 /\ Fits(k, g[k])
          BY <3>1, <5>1 DEF Lies
        <5>3. h[k] = g[k] /\ h[k + 1] = g[k + 1]
          BY <3>4, <4>2, <5>1
        <5> QED BY <5>2, <5>3
      <4> QED BY <4>1, <4>2
    <3>7. Lies(h, a, b)
      BY <3>4, <3>5, <3>6 DEF Lies
    <3> QED BY <3>7 DEF CanLie
  <2>3. CASE pat[a + 1] = "*"
    <3>1. ASSUME CanLie(a, b) PROVE CanLie(a + 1, b) \/ (b < N /\ CanLie(a, b + 1))
      <4>1. PICK h : Lies(h, a, b)
        BY <3>1 DEF CanLie
      <4> DEFINE c == h[a + 1]
      <4>2. c \in 0 .. N /\ CanLie(a + 1, c)
        BY <2>1, <4>1
      <4>3. h[a] <= h[a + 1] /\ h[a] = b
        BY <2>0, <2>3, <4>1 DEF Lies
      <4> HIDE DEF c
      <4>4. b <= c
        BY <4>3 DEF c
      <4>5. CASE b = c
        BY <4>2, <4>5
      <4>6. CASE b # c
        <5>1. b < N /\ b + 1 <= c /\ b + 1 \in 0 .. N
          BY <1>0, <4>2, <4>4, <4>6
        <5>2. CanLie(a, b + 1)
          <6> DEFINE g == [h EXCEPT ![a] = b + 1]
          <6>1. h \in [a .. P -> 0 .. N] /\ h[P] = N
            BY <4>1 DEF Lies
          <6>2. g \in [a .. P -> 0 .. N] /\ g[a] = b + 1 /\ \A k \in a .. P : k # a => g[k] = h[k]
            BY <2>0, <5>1, <6>1
          <6> HIDE DEF g
          <6>3. g[P] = N
            BY <2>0, <6>1, <6>2
          <6>4. ASSUME NEW k \in a .. P - 1
                PROVE  IF pat[k + 1] = "*" THEN g[k] <= g[k + 1] ELSE g[k + 1] = g[k] + 1 /\ Fits(k, g[k])
            <7>0. k \in a .. P /\ k + 1 \in a .. P /\ k + 1 # a
              BY <1>0
            <7>1. CASE k = a
              <8>1. g[k + 1] = c
                BY <7>0, <7>1, <6>2 DEF c
              <8> QED BY <2>3, <5>1, <6>2, <7>1, <8>1
            <7>2. CASE k # a
              <8>1. IF pat[k + 1] = "*" THEN h[k] <= h[k + 1] ELSE h[k + 1] = h[k] + 1 /\ Fits(k, h[k])
                BY <4>1 DEF Lies
              <8>2. h[k] = g[k] /\ h[k + 1] = g[k + 1]
                BY <6>2, <7>0, <7>2
              <8> QED BY <8>1, <8>2
            <7> QED BY <7>1, <7>2
          <6>5. Lies(g, a, b + 1)
            BY <6>2, <6>3, <6>4 DEF Lies
          <6> QED BY <6>5 DEF CanLie
        <5> QED BY <5>1, <5>2
      <4> QED BY <4>5, <4>6
    <3>2. ASSUME CanLie(a + 1, b) PROVE CanLie(a, b)
      <4>1. b <= b
        BY <1>0
      <4> QED BY <2>2, <2>3, <3>2, <4>1
    <3>3. ASSUME b < N, CanLie(a, b + 1) PROVE CanLie(a, b)
      <4>1. PICK h : Lies(h, a, b + 1)
        BY <3>3 DEF CanLie
      <4> DEFINE g == [h EXCEPT ![a] = b]
      <4>2. h \in [a .. P -> 0 .. N] /\ h[P] = N /\ h[a] = b + 1
        BY <4>1 DEF Lies
      <4>3. g \in [a .. P -> 0 .. N] /\ g[a] = b /\ \A k \in a .. P : k # a => g[k] = h[k]
        BY <2>0, <4>2
      <4> HIDE DEF g
      <4>4. g[P] = N
        BY <2>0, <4>2, <4>3
      <4>5. ASSUME NEW k \in a .. P - 1
            PROVE  IF pat[k + 1] = "*" THEN g[k] <= g[k + 1] ELSE g[k + 1] = g[k] + 1 /\ Fits(k, g[k])
        <5>0. k \in a .. P /\ k + 1 \in a .. P /\ k + 1 # a
          BY <1>0
        <5>1. IF pat[k + 1] = "*" THEN h[k] <= h[k + 1] ELSE h[k + 1] = h[k] + 1 /\ Fits(k, h[k])
          BY <4>1 DEF Lies
        <5>2. CASE k = a
          <6>1. h[a + 1] \in 0 .. N /\ b + 1 <= h[a + 1] /\ g[k + 1] = h[a + 1]
            BY <2>0, <2>3, <4>2, <4>3, <5>0, <5>1, <5>2
          <6>2. b <= h[a + 1]
            BY <1>0, <6>1
          <6> QED BY <2>3, <4>3, <5>2, <6>1, <6>2
        <5>3. CASE k # a
          BY <4>3, <5>0, <5>1, <5>3
        <5> QED BY <5>2, <5>3
      <4>6. Lies(g, a, b)
        BY <4>3, <4>4, <4>5 DEF Lies
      <4> QED BY <4>6 DEF CanLie
    <3> QED BY <1>2, <2>3, <3>1, <3>2, <3>3
  <2>4. CASE pat[a + 1] # "*"
    <3>1. ASSUME CanLie(a, b) PROVE b < N /\ Fits(a, b) /\ CanLie(a + 1, b + 1)
      <4>1. PICK h : Lies(h, a, b)
        BY <3>1 DEF CanLie
      <4>2. h[a + 1] \in 0 .. N /\ CanLie(a + 1, h[a + 1])
        BY <2>1, <4>1
      <4>3. h[a] = b /\ h[a + 1] = h[a] + 1 /\ Fits(a, h[a])
        BY <2>0, <2>4, <4>1 DEF Lies
      <4>4. h[a + 1] = b + 1 /\ b + 1 \in 0 .. N
        BY <4>2, <4>3
      <4>5. b < N
        BY <1>0, <4>4
      <4> QED BY <4>2, <4>3, <4>4, <4>5
    <3>2. ASSUME b < N, Fits(a, b), CanLie(a + 1, b + 1) PROVE CanLie(a, b)
      <4>1. b + 1 \in 0 .. N
        BY <1>0, <3>2
      <4> QED BY <2>2, <2>4, <3>2, <4>1
    <3> QED BY <1>2, <2>4, <3>1, <3>2
  <2> QED BY <2>3, <2>4
<1> QED BY <1>1, <1>2

LEMMA TableExists ==
    ASSUME FnTypeOK
    PROVE  MatchTable = [p \in MatchPlaces |-> MatchRule(MatchTable, p[1], p[2])]
<1> DEFINE G == [p \in MatchPlaces |-> CanLie(p[1], p[2])]
<1>1. PatEnd \in Nat /\ NameLen \in Nat
  BY LenProperties DEF FnTypeOK, PatEnd, NameLen
<1>2. \A a \in 0 .. PatEnd, b \in 0 .. NameLen : G[<<a, b>>] = CanLie(a, b)
  BY DEF MatchPlaces
<1> HIDE DEF G
<1>3. ASSUME NEW a \in 0 .. PatEnd, NEW b \in 0 .. NameLen PROVE CanLie(a, b) = MatchRule(G, a, b)
  <2>1. CASE a = PatEnd
    <3>1. CanLie(a, b) <=> b = NameLen
      BY <2>1, LiesByStep
    <3>2. CanLie(a, b) \in BOOLEAN
      BY DEF CanLie
    <3> QED BY <2>1, <3>1, <3>2, Zenon DEF MatchRule
  <2>2. CASE a # PatEnd /\ pat[a + 1] = "*"
    <3>1. CanLie(a, b) <=> CanLie(a + 1, b) \/ (b < NameLen /\ CanLie(a, b + 1))
      BY <2>2, LiesByStep
    <3>2. a + 1 \in 0 .. PatEnd /\ (b < NameLen => b + 1 \in 0 .. NameLen)
      BY <1>1, <2>2
    <3>3. MatchRule(G, a, b) = (G[<<a + 1, b>>] \/ (b < NameLen /\ G[<<a, b + 1>>]))
      BY <2>2 DEF MatchRule
    <3>4. G[<<a + 1, b>>] = CanLie(a + 1, b) /\ (b < NameLen => G[<<a, b + 1>>] = CanLie(a, b + 1))
      BY <1>2, <3>2
    <3>5. CanLie(a, b) \in BOOLEAN /\ CanLie(a + 1, b) \in BOOLEAN /\ CanLie(a, b + 1) \in BOOLEAN
      BY DEF CanLie
    <3> DEFINE short == b < NameLen
               whole == CanLie(a, b)
               next  == CanLie(a + 1, b)
               over  == CanLie(a, b + 1)
               gNext == G[<<a + 1, b>>]
               gOver == G[<<a, b + 1>>]
               rule  == MatchRule(G, a, b)
    <3>6. /\ whole <=> next \/ (short /\ over)
          /\ rule = (gNext \/ (short /\ gOver))
          /\ gNext = next
          /\ short => gOver = over
          /\ whole \in BOOLEAN /\ next \in BOOLEAN /\ over \in BOOLEAN /\ short \in BOOLEAN
      BY <3>1, <3>3, <3>4, <3>5
    <3> HIDE DEF short, whole, next, over, gNext, gOver, rule
    <3>7. (short /\ gOver) = (short /\ over)
      <4>1. CASE short
        BY <3>6, <4>1
      <4>2. CASE ~short
        BY <4>2
      <4> QED BY <4>1, <4>2
    <3>8. rule = (next \/ (short /\ over))
      BY <3>6, <3>7
    <3>9. whole = rule
      BY <3>6, <3>8
    <3> QED BY <3>9 DEF whole, rule
  <2>3. CASE a # PatEnd /\ pat[a + 1] # "*"
    <3>1. CanLie(a, b) <=> b < NameLen /\ Fits(a, b) /\ CanLie(a + 1, b + 1)
      BY <2>3, LiesByStep
    <3>2. a + 1 \in 0 .. PatEnd /\ (b < NameLen => b + 1 \in 0 .. NameLen)
      BY <1>1, <2>3
    <3>3. MatchRule(G, a, b) = (b < NameLen /\ Fits(a, b) /\ G[<<a + 1, b + 1>>])
      BY <2>3 DEF MatchRule, Fits
    <3>4. b < NameLen => G[<<a + 1, b + 1>>] = CanLie(a + 1, b + 1)
      BY <1>2, <3>2
    <3>5. /\ CanLie(a, b) \in BOOLEAN /\ CanLie(a + 1, b + 1) \in BOOLEAN /\ Fits(a, b) \in BOOLEAN
      BY DEF CanLie, Fits
    <3> DEFINE short == b < NameLen
               fits  == Fits(a, b)
               whole == CanLie(a, b)
               next  == CanLie(a + 1, b + 1)
               gNext == G[<<a + 1, b + 1>>]
               rule  == MatchRule(G, a, b)
    <3>6. /\ whole <=> (short /\ fits /\ next)
          /\ rule = (short /\ fits /\ gNext)
          /\ short => gNext = next
          /\ whole \in BOOLEAN /\ next \in BOOLEAN /\ fits \in BOOLEAN /\ short \in BOOLEAN
      BY <3>1, <3>3, <3>4, <3>5
    <3> HIDE DEF short, fits, whole, next, gNext, rule
    <3>7. (short /\ fits /\ gNext) = (short /\ fits /\ next)
      <4>1. CASE short
        BY <3>6, <4>1
      <4>2. CASE ~short
        BY <4>2
      <4> QED BY <4>1, <4>2
    <3>8. whole = rule
      BY <3>6, <3>7
    <3> QED BY <3>8 DEF whole, rule
  <2> QED BY <2>1, <2>2, <2>3
<1>4. G = [p \in MatchPlaces |-> MatchRule(G, p[1], p[2])]
  <2>1. ASSUME NEW p \in MatchPlaces PROVE CanLie(p[1], p[2]) = MatchRule(G, p[1], p[2])
    <3>1. p[1] \in 0 .. PatEnd /\ p[2] \in 0 .. NameLen
      BY DEF MatchPlaces
    <3> QED BY <1>3, <3>1, Zenon
  <2> DEFINE R(x, y) == MatchRule(G, x, y)
             C(x, y) == CanLie(x, y)
  <2>2. G = [p \in MatchPlaces |-> C(p[1], p[2])]
    BY DEF G
  <2>3. \A p \in MatchPlaces : C(p[1], p[2]) = R(p[1], p[2])
    BY <2>1, Zenon
  <2> HIDE DEF R, C
  <2>4. G = [p \in MatchPlaces |-> R(p[1], p[2])]
    BY <2>2, <2>3
  <2> QED BY <2>4, Zenon DEF R
<1> QED BY <1>4, Zenon DEF MatchTable

Can(a, b) == MatchTable[<<a, b>>] = TRUE

\* What Matches says of the rest of the pattern and of the name.
LEMMA CanByStep ==
    ASSUME FnTypeOK, NEW a \in 0 .. PatEnd, NEW b \in 0 .. NameLen
    PROVE  Can(a, b) <=>
             IF a = PatEnd THEN b = NameLen
             ELSE IF pat[a + 1] = "*" THEN Can(a + 1, b) \/ (b < NameLen /\ Can(a, b + 1))
             ELSE b < NameLen /\ Fits(a, b) /\ Can(a + 1, b + 1)
<1>1. PatEnd \in Nat /\ NameLen \in Nat
  BY LenProperties DEF FnTypeOK, PatEnd, NameLen
<1>2. ASSUME NEW c \in 0 .. PatEnd, NEW d \in 0 .. NameLen
      PROVE  MatchTable[<<c, d>>] = MatchRule(MatchTable, c, d) /\ MatchTable[<<c, d>>] \in BOOLEAN
  <2>1. MatchTable[<<c, d>>] = MatchRule(MatchTable, c, d)
    <3> DEFINE R(x, y) == MatchRule(MatchTable, x, y)
               T == MatchTable
    <3>1. T = [p \in MatchPlaces |-> R(p[1], p[2])]
      BY TableExists, Zenon
    <3> HIDE DEF R, T
    <3>2. <<c, d>> \in MatchPlaces /\ <<c, d>>[1] = c /\ <<c, d>>[2] = d
      BY DEF MatchPlaces
    <3>3. T[<<c, d>>] = R(c, d)
      BY <3>1, <3>2, Zenon
    <3> QED BY <3>3 DEF R, T
  <2>2. MatchRule(MatchTable, c, d) \in BOOLEAN
    <3>1. CASE c = PatEnd
      BY <3>1, Zenon DEF MatchRule
    <3>2. CASE c # PatEnd /\ pat[c + 1] = "*"
      BY <3>2, Zenon DEF MatchRule
    <3>3. CASE c # PatEnd /\ pat[c + 1] # "*"
      BY <3>3, Zenon DEF MatchRule
    <3> QED BY <3>1, <3>2, <3>3
  <2> QED BY <2>1, <2>2, Zenon
<1>3. CASE a = PatEnd
  <2>1. MatchTable[<<a, b>>] = (b = NameLen)
    BY <1>2, <1>3, Zenon DEF MatchRule
  <2> QED BY <1>3, <2>1, Zenon DEF Can
<1>4. CASE a # PatEnd /\ pat[a + 1] = "*"
  <2>1. a + 1 \in 0 .. PatEnd /\ (b < NameLen => b + 1 \in 0 .. NameLen)
    BY <1>1, <1>4
  <2>2. MatchTable[<<a, b>>] = (MatchTable[<<a + 1, b>>] \/ (b < NameLen /\ MatchTable[<<a, b + 1>>]))
    BY <1>2, <1>4, Zenon DEF MatchRule
  <2>3. MatchTable[<<a + 1, b>>] \in BOOLEAN /\ (b < NameLen => MatchTable[<<a, b + 1>>] \in BOOLEAN)
    BY <1>2, <2>1, Zenon
  <2> QED BY <1>4, <2>2, <2>3, Zenon DEF Can
<1>5. CASE a # PatEnd /\ pat[a + 1] # "*"
  <2>1. a + 1 \in 0 .. PatEnd /\ (b < NameLen => b + 1 \in 0 .. NameLen)
    BY <1>1, <1>5
  <2>2. MatchTable[<<a, b>>] = (b < NameLen /\ pat[a + 1] \in {"?", name[b + 1]} /\ MatchTable[<<a + 1, b + 1>>])
    BY <1>2, <1>5, Zenon DEF MatchRule
  <2>3. b < NameLen => MatchTable[<<a + 1, b + 1>>] \in BOOLEAN
    BY <1>2, <2>1, Zenon
  <2> QED BY <1>5, <2>2, <2>3, Zenon DEF Can, Fits
<1> QED BY <1>3, <1>4, <1>5

LEMMA MatchesIs == ASSUME FnTypeOK PROVE Matches \in BOOLEAN /\ (Matches <=> Can(0, 0))
<1>1. Matches = MatchTable[<<0, 0>>]
  BY DEF Matches, MatchTable, MatchRule, MatchPlaces, PatEnd, NameLen
<1>2. PatEnd \in Nat /\ NameLen \in Nat
  BY LenProperties DEF FnTypeOK, PatEnd, NameLen
<1>3. MatchTable[<<0, 0>>] = MatchRule(MatchTable, 0, 0)
  <2> DEFINE R(x, y) == MatchRule(MatchTable, x, y)
             T == MatchTable
  <2>1. T = [p \in MatchPlaces |-> R(p[1], p[2])]
    BY TableExists, Zenon
  <2>2. 0 \in 0 .. PatEnd /\ 0 \in 0 .. NameLen
    BY <1>2
  <2> HIDE DEF R, T
  <2>3. <<0, 0>> \in MatchPlaces /\ <<0, 0>>[1] = 0 /\ <<0, 0>>[2] = 0
    BY <2>2 DEF MatchPlaces
  <2>4. T[<<0, 0>>] = R(0, 0)
    BY <2>1, <2>3, Zenon
  <2> QED BY <2>4 DEF R, T
<1>4. MatchRule(MatchTable, 0, 0) \in BOOLEAN
  <2>1. CASE 0 = PatEnd
    BY <2>1, Zenon DEF MatchRule
  <2>2. CASE 0 # PatEnd /\ pat[0 + 1] = "*"
    BY <2>2, Zenon DEF MatchRule
  <2>3. CASE 0 # PatEnd /\ pat[0 + 1] # "*"
    BY <2>3, Zenon DEF MatchRule
  <2> QED BY <2>1, <2>2, <2>3
<1> QED BY <1>1, <1>3, <1>4, Zenon DEF Can

\* A star's run ends somewhere.
LEMMA StarEnds ==
    ASSUME FnTypeOK, NEW a \in 0 .. PatEnd, a # PatEnd, NEW b \in 0 .. NameLen, pat[a + 1] = "*", Can(a, b)
    PROVE  \E s \in b .. NameLen : Can(a + 1, s)
<1>0. PatEnd \in Nat /\ NameLen \in Nat
  BY LenProperties DEF FnTypeOK, PatEnd, NameLen
<1> SUFFICES ASSUME \A s \in b .. NameLen : ~Can(a + 1, s) PROVE FALSE
  OBVIOUS
<1> DEFINE B == {s \in b .. NameLen : Can(a, s)}
<1>1. b \in B
  BY <1>0
<1>2. ASSUME NEW k \in b .. NameLen, k \in B, k < NameLen PROVE k + 1 \in B
  <2>1. k \in 0 .. NameLen /\ k + 1 \in b .. NameLen
    BY <1>0, <1>2
  <2>2. Can(a, k) /\ ~Can(a + 1, k)
    BY <1>2
  <2>3. Can(a, k) <=> Can(a + 1, k) \/ (k < NameLen /\ Can(a, k + 1))
    BY <2>1, CanByStep
  <2> QED BY <2>1, <2>2, <2>3
<1> HIDE DEF B
<1>3. \A k \in b .. NameLen : k \in B
  BY <1>0, <1>1, <1>2, UpTo
<1>4. NameLen \in b .. NameLen /\ NameLen \in 0 .. NameLen /\ ~(NameLen < NameLen)
  BY <1>0
<1>5. Can(a, NameLen) <=> Can(a + 1, NameLen) \/ (NameLen < NameLen /\ Can(a, NameLen + 1))
  BY <1>4, CanByStep
<1> QED BY <1>3, <1>4, <1>5 DEF B

\* A star takes whatever comes before a place from which the rest matches.
LEMMA StarAbsorbs ==
    ASSUME FnTypeOK, NEW a \in 0 .. PatEnd, a # PatEnd, NEW x \in 0 .. NameLen, NEW y \in x .. NameLen,
           pat[a + 1] = "*", Can(a, y)
    PROVE  Can(a, x)
<1>0. PatEnd \in Nat /\ NameLen \in Nat /\ y - x \in Nat
  BY LenProperties DEF FnTypeOK, PatEnd, NameLen
<1> DEFINE B == {d \in 0 .. y - x : Can(a, y - d)}
<1>1. 0 \in B
  BY <1>0
<1>2. ASSUME NEW k \in 0 .. y - x, k \in B, k < y - x PROVE k + 1 \in B
  <2> DEFINE z == y - (k + 1)
  <2>1. z \in 0 .. NameLen /\ z < NameLen /\ z + 1 = y - k /\ k + 1 \in 0 .. y - x
    BY <1>0, <1>2
  <2>2. Can(a, z + 1)
    BY <1>2, <2>1
  <2> HIDE DEF z
  <2>3. Can(a, z) <=> Can(a + 1, z) \/ (z < NameLen /\ Can(a, z + 1))
    BY <2>1, CanByStep
  <2> QED BY <2>1, <2>2, <2>3 DEF z
<1> HIDE DEF B
<1>3. \A k \in 0 .. y - x : k \in B
  BY <1>0, <1>1, <1>2, UpTo
<1>4. y - x \in 0 .. y - x /\ y - (y - x) = x
  BY <1>0
<1>5. Can(a, y - (y - x))
  BY <1>3, <1>4 DEF B
<1> QED BY <1>4, <1>5

\* A part of the pattern without a star takes as many characters as it has.
LEMMA PlainPart ==
    ASSUME FnTypeOK, NEW a \in 0 .. PatEnd, NEW c \in a .. PatEnd, NEW s \in 0 .. NameLen,
           \A k \in a .. c - 1 : pat[k + 1] # "*", Can(a, s)
    PROVE  s + (c - a) <= NameLen /\ Can(c, s + (c - a))
<1>0. PatEnd \in Nat /\ NameLen \in Nat /\ c - a \in Nat
  BY LenProperties DEF FnTypeOK, PatEnd, NameLen
<1> DEFINE B == {d \in 0 .. c - a : s + d <= NameLen /\ Can(a + d, s + d)}
<1>1. 0 \in B
  BY <1>0
<1>2. ASSUME NEW d \in 0 .. c - a, d \in B, d < c - a PROVE d + 1 \in B
  <2> DEFINE x == a + d  y == s + d
  <2>1. /\ x \in 0 .. PatEnd /\ x # PatEnd /\ y \in 0 .. NameLen /\ x \in a .. c - 1 /\ d + 1 \in 0 .. c - a
        /\ a + (d + 1) = x + 1 /\ s + (d + 1) = y + 1
    BY <1>0, <1>2
  <2>2. Can(x, y) /\ pat[x + 1] # "*"
    BY <1>2, <2>1
  <2> HIDE DEF x, y
  <2>3. Can(x, y) <=> y < NameLen /\ Fits(x, y) /\ Can(x + 1, y + 1)
    BY <2>1, <2>2, CanByStep
  <2>4. y + 1 <= NameLen /\ Can(x + 1, y + 1)
    BY <1>0, <2>1, <2>2, <2>3
  <2> QED BY <2>1, <2>4
<1> HIDE DEF B
<1>3. \A k \in 0 .. c - a : k \in B
  BY <1>0, <1>1, <1>2, UpTo
<1>4. c - a \in 0 .. c - a /\ a + (c - a) = c
  BY <1>0
<1>5. s + (c - a) <= NameLen /\ Can(a + (c - a), s + (c - a))
  BY <1>3, <1>4 DEF B
<1> QED BY <1>4, <1>5

\* Behind the name only stars match.
LEMMA StarsRemain ==
    ASSUME FnTypeOK, NEW a \in 0 .. PatEnd
    PROVE  Can(a, NameLen) <=> \A k \in a + 1 .. PatEnd : pat[k] = "*"
<1>0. PatEnd \in Nat /\ NameLen \in Nat /\ NameLen \in 0 .. NameLen /\ ~(NameLen < NameLen)
  BY LenProperties DEF FnTypeOK, PatEnd, NameLen
<1>s. ASSUME NEW k \in 0 .. PatEnd
      PROVE  Can(k, NameLen) <=> (k = PatEnd \/ (pat[k + 1] = "*" /\ Can(k + 1, NameLen)))
  BY <1>0, CanByStep
<1>1. ASSUME Can(a, NameLen), NEW j \in a + 1 .. PatEnd PROVE pat[j] = "*"
  <2> DEFINE B == {k \in a .. PatEnd : Can(k, NameLen)}
  <2>1. a \in B
    BY <1>0, <1>1
  <2>2. ASSUME NEW k \in a .. PatEnd, k \in B, k < PatEnd PROVE k + 1 \in B
    <3>1. k \in 0 .. PatEnd /\ k + 1 \in a .. PatEnd /\ k # PatEnd
      BY <1>0, <2>2
    <3> QED BY <2>2, <3>1, <1>s
  <2> HIDE DEF B
  <2>3. \A k \in a .. PatEnd : k \in B
    BY <1>0, <2>1, <2>2, UpTo
  <2>4. j - 1 \in a .. PatEnd /\ j - 1 \in 0 .. PatEnd /\ j - 1 # PatEnd /\ (j - 1) + 1 = j
    BY <1>0
  <2>5. Can(j - 1, NameLen)
    BY <2>3, <2>4 DEF B
  <2>6. pat[(j - 1) + 1] = "*"
    BY <2>4, <2>5, <1>s
  <2> QED BY <2>4, <2>6
<1>2. ASSUME \A k \in a + 1 .. PatEnd : pat[k] = "*" PROVE Can(a, NameLen)
  <2> DEFINE B == {d \in 0 .. PatEnd - a : Can(PatEnd - d, NameLen)}
  <2>1. 0 \in B
    <3>1. PatEnd \in 0 .. PatEnd /\ PatEnd - 0 = PatEnd /\ 0 \in 0 .. PatEnd - a
      BY <1>0
    <3>2. Can(PatEnd, NameLen)
      BY <3>1, <1>s
    <3> QED BY <3>1, <3>2
  <2>2. ASSUME NEW d \in 0 .. PatEnd - a, d \in B, d < PatEnd - a PROVE d + 1 \in B
    <3> DEFINE x == PatEnd - (d + 1)
    <3>1. /\ x \in 0 .. PatEnd /\ x + 1 = PatEnd - d /\ x + 1 \in a + 1 .. PatEnd
          /\ d + 1 \in 0 .. PatEnd - a
      BY <1>0, <2>2
    <3>2. Can(x + 1, NameLen) /\ pat[x + 1] = "*"
      BY <1>2, <2>2, <3>1
    <3> HIDE DEF x
    <3>3. Can(x, NameLen)
      BY <3>1, <3>2, <1>s
    <3> QED BY <3>1, <3>3 DEF x
  <2> HIDE DEF B
  <2>3. PatEnd - a \in Nat /\ PatEnd - a \in 0 .. PatEnd - a /\ PatEnd - (PatEnd - a) = a
    BY <1>0
  <2>4. \A k \in 0 .. PatEnd - a : k \in B
    BY <2>1, <2>2, <2>3, UpTo
  <2>5. Can(PatEnd - (PatEnd - a), NameLen)
    BY <2>3, <2>4 DEF B
  <2> QED BY <2>3, <2>5
<1> QED BY <1>1, <1>2

----------------------------------------------------------------------------
(* The matcher *)

\* What the matcher may forget: the names that it has not tried yet match from where it is
\* exactly when they do from the start.  Behind a star it stands where the star's run ends,
\* plus as many characters as it has passed since; none of these is a star.
FnInv ==
    /\ FnTypeOK
    /\ result = "none" /\ star = NoStar => (Can(0, 0) <=> Can(px, nx))
    /\ result = "none" /\ star # NoStar =>
         /\ star < px /\ star < PatEnd /\ ss <= nx /\ nx - ss = px - star - 1
         /\ pat[star + 1] = "*"
         /\ \A k \in star + 1 .. px - 1 : pat[k + 1] # "*"
         /\ Can(0, 0) <=> Can(star, ss)
         /\ Can(star + 1, ss) <=> Can(px, nx)
    /\ result # "none" => ((result = "yes") <=> Can(0, 0))

\* The table of matches of a pattern and a name.
TableOf(p, n) ==
    CHOOSE m : m = [w \in (0 .. Len(p)) \X (0 .. Len(n)) |->
                      IF w[1] = Len(p) THEN w[2] = Len(n)
                      ELSE IF p[w[1] + 1] = "*"
                           THEN m[<<w[1] + 1, w[2]>>] \/ (w[2] < Len(n) /\ m[<<w[1], w[2] + 1>>])
                      ELSE w[2] < Len(n) /\ p[w[1] + 1] \in {"?", n[w[2] + 1]} /\ m[<<w[1] + 1, w[2] + 1>>]]

LEMMA TableIsOf == MatchTable = TableOf(pat, name)
BY DEF MatchTable, TableOf, MatchPlaces, MatchRule, PatEnd, NameLen

LEMMA TableStays ==
    ASSUME UNCHANGED <<pat, name>>
    PROVE  PatEnd' = PatEnd /\ NameLen' = NameLen /\ MatchTable' = MatchTable
<1>1. PatEnd' = PatEnd /\ NameLen' = NameLen
  BY DEF PatEnd, NameLen
<1>2. (MatchTable = TableOf(pat, name))'
  BY TableIsOf, PTL
<1>3. MatchTable' = TableOf(pat', name')
  BY <1>2
<1> HIDE DEF MatchTable, TableOf
<1>4. TableOf(pat', name') = TableOf(pat, name)
  OBVIOUS
<1> QED BY <1>1, <1>3, <1>4, TableIsOf

LEMMA FnInitFits == FnInit => FnInv
<1> SUFFICES ASSUME FnInit PROVE FnInv
  OBVIOUS
<1>1. ASSUME NEW S, NEW n \in Nat, NEW s \in SeqsUpTo(S, n) PROVE s \in Seq(S) /\ Len(s) <= n
  <2>1. PICK k \in 0 .. n : s \in [1 .. k -> S]
    BY DEF SeqsUpTo
  <2>2. s \in Seq(S)
    BY <2>1
  <2>3. Len(s) = k
    BY <2>1, <2>2
  <2> QED BY <2>1, <2>2, <2>3
<1>2. MaxPat \in Nat /\ MaxName \in Nat
  BY FnmatchAssumption DEF FnmatchAssumption
<1>3. pat \in Seq(Letters \cup {"*", "?"}) /\ PatEnd <= MaxPat /\ name \in Seq(Letters)
  BY <1>1, <1>2 DEF FnInit, PatEnd
<1>4. PatEnd \in Nat /\ NameLen \in Nat
  BY <1>3, LenProperties DEF PatEnd, NameLen
<1>5. px = 0 /\ nx = 0 /\ star = NoStar /\ ss = 0 /\ result = "none"
  BY DEF FnInit
<1>6. 0 \in 0 .. PatEnd /\ 0 \in 0 .. NameLen
  BY <1>4
<1>7. FnTypeOK
  BY <1>3, <1>5, <1>6 DEF FnTypeOK
<1> QED BY <1>5, <1>7 DEF FnInv

\* The matcher's steps leave what a match is.
LEMMA InvAnew ==
    ASSUME UNCHANGED <<pat, name>>, FnTypeOK',
           result' = "none" /\ star' = NoStar => (Can(0, 0) <=> Can(px', nx')),
           result' = "none" /\ star' # NoStar =>
             (/\ star' < px' /\ star' < PatEnd /\ ss' <= nx' /\ nx' - ss' = px' - star' - 1
              /\ pat[star' + 1] = "*"
              /\ \A k \in star' + 1 .. px' - 1 : pat[k + 1] # "*"
              /\ Can(0, 0) <=> Can(star', ss')
              /\ Can(star' + 1, ss') <=> Can(px', nx')),
           result' # "none" => ((result' = "yes") <=> Can(0, 0))
    PROVE  FnInv'
<1>1. PatEnd' = PatEnd /\ NameLen' = NameLen /\ MatchTable' = MatchTable
  BY TableStays
<1>2. NoStar' = NoStar
  BY DEF NoStar
<1> QED BY <1>1, <1>2 DEF FnInv, Can

LEMMA LooksAt ==
    ASSUME FnInv, Looking
    PROVE  /\ PatEnd \in Nat /\ NameLen \in Nat /\ px \in 0 .. PatEnd /\ nx \in 0 .. NameLen /\ nx < NameLen
           /\ ss \in 0 .. NameLen /\ (star # NoStar => star \in 0 .. PatEnd)
           /\ OneChar <=> (px # PatEnd /\ Fits(px, nx))
           /\ AtPat("*") <=> (px # PatEnd /\ pat[px + 1] = "*")
           /\ ~(OneChar /\ AtPat("*"))
<1>1. PatEnd \in Nat /\ NameLen \in Nat /\ PatEnd = Len(pat) /\ NameLen = Len(name)
  BY LenProperties DEF FnInv, FnTypeOK, PatEnd, NameLen
<1>2. px \in 0 .. PatEnd /\ nx \in 0 .. NameLen /\ ss \in 0 .. NameLen /\ (star # NoStar => star \in 0 .. PatEnd)
  BY DEF FnInv, FnTypeOK
<1>3. nx < NameLen
  BY <1>1 DEF Looking
<1>4. px < Len(pat) <=> px # PatEnd
  BY <1>1, <1>2
<1>5. OneChar <=> (px # PatEnd /\ Fits(px, nx))
  BY <1>4 DEF OneChar, AtPat, Fits
<1>6. AtPat("*") <=> (px # PatEnd /\ pat[px + 1] = "*")
  BY <1>4 DEF AtPat
<1>7. name[nx + 1] # "*"
  <2>1. nx + 1 \in 1 .. Len(name)
    BY <1>1, <1>2, <1>3
  <2>2. name[nx + 1] \in Letters
    BY <2>1, ElementOfSeq DEF FnInv, FnTypeOK
  <2> QED BY <2>2, FnmatchAssumption DEF FnmatchAssumption
<1>8. ~(OneChar /\ AtPat("*"))
  BY <1>5, <1>6, <1>7 DEF Fits
<1> QED BY <1>1, <1>2, <1>3, <1>5, <1>6, <1>8

\* A star does not give up anything: what follows it matches behind its run or later.
LEMMA StarWaits ==
    ASSUME FnInv, result = "none", star # NoStar
    PROVE  /\ Can(px, nx) => Can(0, 0)
           /\ Can(0, 0) => \E s \in ss .. NameLen :
                             /\ s + (px - (star + 1)) <= NameLen
                             /\ Can(px, s + (px - (star + 1)))
<1>0. PatEnd \in Nat /\ NameLen \in Nat
  BY LenProperties DEF FnInv, FnTypeOK, PatEnd, NameLen
<1>1. px \in 0 .. PatEnd /\ nx \in 0 .. NameLen /\ ss \in 0 .. NameLen /\ star \in 0 .. PatEnd
  BY DEF FnInv, FnTypeOK
<1>2. /\ star < px /\ star < PatEnd /\ ss <= nx /\ nx - ss = px - star - 1
      /\ pat[star + 1] = "*"
      /\ \A k \in star + 1 .. px - 1 : pat[k + 1] # "*"
      /\ Can(0, 0) <=> Can(star, ss)
      /\ Can(star + 1, ss) <=> Can(px, nx)
  BY DEF FnInv
<1>3. FnTypeOK /\ star # PatEnd /\ star + 1 \in 0 .. PatEnd /\ px \in star + 1 .. PatEnd
  <2>1. star # PatEnd /\ star + 1 \in 0 .. PatEnd /\ px \in star + 1 .. PatEnd
    BY <1>0, <1>1, <1>2
  <2> QED BY <2>1 DEF FnInv
<1>4. Can(star, ss) <=> Can(star + 1, ss) \/ (ss < NameLen /\ Can(star, ss + 1))
  BY <1>1, <1>2, <1>3, CanByStep
<1>5. ASSUME Can(star, ss)
      PROVE  \E s \in ss .. NameLen : s + (px - (star + 1)) <= NameLen /\ Can(px, s + (px - (star + 1)))
  <2>1. PICK s \in ss .. NameLen : Can(star + 1, s)
    BY <1>1, <1>2, <1>3, <1>5, StarEnds
  <2>2. s \in 0 .. NameLen
    BY <1>0, <1>1
  <2>3. s + (px - (star + 1)) <= NameLen /\ Can(px, s + (px - (star + 1)))
    BY <1>2, <1>3, <2>1, <2>2, PlainPart
  <2> QED BY <2>3
<1> QED BY <1>2, <1>4, <1>5

LEMMA SameKeeps == ASSUME FnInv, Same PROVE FnInv'
<1>0. /\ PatEnd \in Nat /\ NameLen \in Nat /\ px \in 0 .. PatEnd /\ nx \in 0 .. NameLen /\ nx < NameLen
      /\ ss \in 0 .. NameLen /\ px # PatEnd /\ Fits(px, nx) /\ pat[px + 1] # "*"
  BY LooksAt DEF Same
<1>1. UNCHANGED <<pat, name>> /\ px' = px + 1 /\ nx' = nx + 1 /\ star' = star /\ ss' = ss /\ result' = result
      /\ result = "none"
  BY DEF Same, Looking
<1>2. PatEnd' = PatEnd /\ NameLen' = NameLen
  BY <1>1, TableStays
<1>3. px + 1 \in 0 .. PatEnd /\ nx + 1 \in 0 .. NameLen
  BY <1>0
<1>4. FnTypeOK'
  BY <1>0, <1>1, <1>2, <1>3 DEF FnInv, FnTypeOK
<1>5. Can(px, nx) <=> Can(px + 1, nx + 1)
  BY <1>0, CanByStep DEF FnInv
<1>7. ASSUME star # NoStar
      PROVE  /\ star < px' /\ star < PatEnd /\ ss <= nx' /\ nx' - ss = px' - star - 1
             /\ pat[star + 1] = "*"
             /\ \A k \in star + 1 .. px' - 1 : pat[k + 1] # "*"
             /\ Can(0, 0) <=> Can(star, ss)
             /\ Can(star + 1, ss) <=> Can(px', nx')
  <2>1. star < px /\ star < PatEnd /\ ss <= nx /\ nx - ss = px - star - 1 /\ star \in 0 .. PatEnd
    BY <1>1, <1>7 DEF FnInv, FnTypeOK
  <2>2. star < px' /\ ss <= nx' /\ nx' - ss = px' - star - 1
    BY <1>0, <1>1, <2>1
  <2>3. ASSUME NEW k \in star + 1 .. px' - 1 PROVE pat[k + 1] # "*"
    <3>1. k \in star + 1 .. px - 1 \/ k = px
      BY <1>0, <1>1, <2>1
    <3> QED BY <1>0, <1>1, <1>7, <3>1 DEF FnInv
  <2>4. pat[star + 1] = "*" /\ (Can(0, 0) <=> Can(star, ss)) /\ (Can(star + 1, ss) <=> Can(px, nx))
    BY <1>1, <1>7 DEF FnInv
  <2> QED BY <2>1, <2>2, <2>3, <2>4, <1>1, <1>5
<1>8. star = NoStar => (Can(0, 0) <=> Can(px', nx'))
  BY <1>1, <1>5 DEF FnInv
<1> QED BY <1>1, <1>4, <1>7, <1>8, InvAnew

LEMMA StarKeeps == ASSUME FnInv, Star PROVE FnInv'
<1>0. /\ PatEnd \in Nat /\ NameLen \in Nat /\ px \in 0 .. PatEnd /\ nx \in 0 .. NameLen
      /\ ss \in 0 .. NameLen /\ px # PatEnd /\ pat[px + 1] = "*"
  BY LooksAt DEF Star
<1>1. UNCHANGED <<pat, name>> /\ px' = px + 1 /\ nx' = nx /\ star' = px /\ ss' = nx /\ result' = "none"
      /\ result = "none"
  BY DEF Star, Looking
<1>2. PatEnd' = PatEnd /\ NameLen' = NameLen
  BY <1>1, TableStays
<1>3. px + 1 \in 0 .. PatEnd
  BY <1>0
<1>4. FnTypeOK'
  BY <1>0, <1>1, <1>2, <1>3 DEF FnInv, FnTypeOK
<1>5. Can(0, 0) <=> Can(px, nx)
  <2>1. CASE star = NoStar
    BY <1>1, <2>1 DEF FnInv
  <2>2. CASE star # NoStar
    <3>1. Can(px, nx) => Can(0, 0)
      BY <1>1, <2>2, StarWaits
    <3>2. ASSUME Can(0, 0) PROVE Can(px, nx)
      <4>1. PICK s \in ss .. NameLen :
              /\ s + (px - (star + 1)) <= NameLen
              /\ Can(px, s + (px - (star + 1)))
        BY <1>1, <2>2, <3>2, StarWaits
      <4> DEFINE y == s + (px - (star + 1))
      <4>2. nx - ss = px - star - 1 /\ star \in 0 .. PatEnd
        BY <1>1, <2>2 DEF FnInv, FnTypeOK
      <4>3. y \in nx .. NameLen
        BY <1>0, <4>1, <4>2
      <4>4. Can(px, y)
        BY <4>1
      <4> HIDE DEF y
      <4>5. FnTypeOK
        BY DEF FnInv
      <4> QED BY <1>0, <4>3, <4>4, <4>5, StarAbsorbs
    <3> QED BY <3>1, <3>2
  <2> QED BY <2>1, <2>2
<1>6. star' # NoStar
  <2>1. PatEnd <= MaxPat /\ MaxPat \in Nat
    BY FnmatchAssumption DEF FnmatchAssumption, FnInv, FnTypeOK
  <2> QED BY <1>0, <1>1, <2>1 DEF NoStar
<1>7. /\ star' < px' /\ star' < PatEnd /\ ss' <= nx' /\ nx' - ss' = px' - star' - 1
      /\ pat[star' + 1] = "*"
      /\ \A k \in star' + 1 .. px' - 1 : pat[k + 1] # "*"
      /\ Can(0, 0) <=> Can(star', ss')
      /\ Can(star' + 1, ss') <=> Can(px', nx')
  <2>1. star' < px' /\ star' < PatEnd /\ ss' <= nx' /\ nx' - ss' = px' - star' - 1 /\ star' + 1 .. px' - 1 = {}
    BY <1>0, <1>1
  <2> QED BY <1>0, <1>1, <1>5, <2>1
<1> QED BY <1>1, <1>4, <1>6, <1>7, InvAnew

LEMMA StuckCannot == ASSUME FnInv, Looking, ~OneChar, ~AtPat("*") PROVE ~Can(px, nx)
<1>0. /\ PatEnd \in Nat /\ NameLen \in Nat /\ px \in 0 .. PatEnd /\ nx \in 0 .. NameLen /\ nx < NameLen
      /\ ~(px # PatEnd /\ Fits(px, nx)) /\ ~(px # PatEnd /\ pat[px + 1] = "*")
  BY LooksAt
<1>1. FnTypeOK /\ nx # NameLen
  BY <1>0 DEF FnInv
<1> QED BY <1>0, <1>1, CanByStep

LEMMA GoBackKeeps == ASSUME FnInv, GoBack PROVE FnInv'
<1>0. /\ PatEnd \in Nat /\ NameLen \in Nat /\ px \in 0 .. PatEnd /\ nx \in 0 .. NameLen /\ nx < NameLen
      /\ ss \in 0 .. NameLen /\ star \in 0 .. PatEnd
  BY LooksAt DEF GoBack
<1>1. /\ UNCHANGED <<pat, name>> /\ px' = star + 1 /\ nx' = ss + 1 /\ star' = star /\ ss' = ss + 1
      /\ result' = "none" /\ result = "none" /\ star # NoStar
  BY DEF GoBack, Looking, Resume
<1>2. PatEnd' = PatEnd /\ NameLen' = NameLen
  BY <1>1, TableStays
<1>s. /\ star < px /\ star < PatEnd /\ ss <= nx /\ pat[star + 1] = "*"
      /\ Can(0, 0) <=> Can(star, ss)
      /\ Can(star + 1, ss) <=> Can(px, nx)
  BY <1>1 DEF FnInv
<1>3. star + 1 \in 0 .. PatEnd /\ ss + 1 \in 0 .. NameLen /\ ss < NameLen /\ star # PatEnd
  BY <1>0, <1>s
<1>4. FnTypeOK'
  BY <1>0, <1>1, <1>2, <1>3 DEF FnInv, FnTypeOK
<1>5. ~Can(px, nx)
  BY StuckCannot DEF GoBack
<1>6. FnTypeOK
  BY DEF FnInv
<1>7. Can(star, ss) <=> Can(star + 1, ss) \/ (ss < NameLen /\ Can(star, ss + 1))
  BY <1>0, <1>3, <1>6, <1>s, CanByStep
<1>8. /\ star' < px' /\ star' < PatEnd /\ ss' <= nx' /\ nx' - ss' = px' - star' - 1
      /\ pat[star' + 1] = "*"
      /\ \A k \in star' + 1 .. px' - 1 : pat[k + 1] # "*"
      /\ Can(0, 0) <=> Can(star', ss')
      /\ Can(star' + 1, ss') <=> Can(px', nx')
  <2>1. star' < px' /\ star' < PatEnd /\ ss' <= nx' /\ nx' - ss' = px' - star' - 1 /\ star' + 1 .. px' - 1 = {}
    BY <1>0, <1>1, <1>s
  <2>2. Can(0, 0) <=> Can(star, ss + 1)
    BY <1>3, <1>5, <1>7, <1>s
  <2> QED BY <1>1, <1>s, <2>1, <2>2
<1> QED BY <1>1, <1>4, <1>8, InvAnew

LEMMA FailKeeps == ASSUME FnInv, Fail PROVE FnInv'
<1>1. /\ UNCHANGED <<pat, name, px, nx, star, ss>> /\ result' = "no" /\ result = "none" /\ star = NoStar
  BY DEF Fail, Looking
<1>2. FnTypeOK'
  <2>1. PatEnd' = PatEnd /\ NameLen' = NameLen
    BY <1>1, TableStays
  <2> QED BY <1>1, <2>1 DEF FnInv, FnTypeOK
<1>3. ~Can(px, nx)
  BY StuckCannot DEF Fail
<1>4. ~Can(0, 0)
  BY <1>1, <1>3 DEF FnInv
<1> QED BY <1>1, <1>2, <1>4, InvAnew

LEMMA EndKeeps == ASSUME FnInv, End PROVE FnInv'
<1>0. PatEnd \in Nat /\ NameLen \in Nat /\ PatEnd = Len(pat) /\ NameLen = Len(name)
  BY LenProperties DEF FnInv, FnTypeOK, PatEnd, NameLen
<1>1. /\ UNCHANGED <<pat, name, px, nx, star, ss>> /\ result = "none" /\ nx = NameLen
      /\ result' = IF \A k \in px + 1 .. PatEnd : pat[k] = "*" THEN "yes" ELSE "no"
  BY DEF End, PatEnd, NameLen
<1>2. FnTypeOK'
  <2>1. PatEnd' = PatEnd /\ NameLen' = NameLen
    BY <1>1, TableStays
  <2> QED BY <1>1, <2>1 DEF FnInv, FnTypeOK
<1>3. px \in 0 .. PatEnd /\ FnTypeOK
  BY DEF FnInv, FnTypeOK
<1>4. result' # "none" /\ ((result' = "yes") <=> Can(px, nx))
  <2>1. Can(px, NameLen) <=> \A k \in px + 1 .. PatEnd : pat[k] = "*"
    BY <1>3, StarsRemain
  <2> QED BY <1>1, <2>1
<1>5. Can(0, 0) <=> Can(px, nx)
  <2>1. CASE star = NoStar
    BY <1>1, <2>1 DEF FnInv
  <2>2. CASE star # NoStar
    <3>1. Can(px, nx) => Can(0, 0)
      BY <1>1, <2>2, StarWaits
    <3>2. ASSUME Can(0, 0) PROVE Can(px, nx)
      <4>1. PICK s \in ss .. NameLen :
              /\ s + (px - (star + 1)) <= NameLen
              /\ Can(px, s + (px - (star + 1)))
        BY <1>1, <2>2, <3>2, StarWaits
      <4>2. nx - ss = px - star - 1 /\ star \in 0 .. PatEnd /\ ss \in 0 .. NameLen
        BY <1>1, <2>2 DEF FnInv, FnTypeOK
      <4>3. s + (px - (star + 1)) <= NameLen
        BY <4>1
      <4>4. s + (px - (star + 1)) = nx
        BY <1>0, <1>1, <1>3, <4>2, <4>3
      <4> QED BY <4>1, <4>4
    <3> QED BY <3>1, <3>2
  <2> QED BY <2>1, <2>2
<1> QED BY <1>1, <1>2, <1>4, <1>5, InvAnew

LEMMA FnStepKeeps == FnInv /\ [FnNext]_fnVars => FnInv'
<1> SUFFICES ASSUME FnInv, [FnNext]_fnVars PROVE FnInv'
  OBVIOUS
<1>1. CASE FnNext
  BY <1>1, SameKeeps, StarKeeps, GoBackKeeps, FailKeeps, EndKeeps DEF FnNext
<1>2. CASE UNCHANGED fnVars
  <2>1. UNCHANGED <<pat, name, px, nx, star, ss, result>>
    BY <1>2 DEF fnVars
  <2>2. FnTypeOK'
    <3>1. PatEnd' = PatEnd /\ NameLen' = NameLen
      BY <2>1, TableStays
    <3> QED BY <2>1, <3>1 DEF FnInv, FnTypeOK
  <2> QED BY <2>1, <2>2, InvAnew DEF FnInv
<1> QED BY <1>1, <1>2

LEMMA FnInvSuffices == FnInv => VerdictIsMatch
<1> SUFFICES ASSUME FnInv PROVE VerdictIsMatch
  OBVIOUS
<1>1. Matches \in BOOLEAN /\ (Matches <=> Can(0, 0))
  BY MatchesIs DEF FnInv
<1>2. result # "none" => ((result = "yes") <=> Can(0, 0))
  BY DEF FnInv
<1>3. CASE Matches
  BY <1>1, <1>2, <1>3, Zenon DEF VerdictIsMatch
<1>4. CASE ~Matches
  BY <1>1, <1>2, <1>4, Zenon DEF VerdictIsMatch
<1> QED BY <1>3, <1>4

\* Safety, for patterns and names of any letters and lengths: going back to the last star
\* only, fnmatch() says "yes" of a name exactly when the pattern matches it.
THEOREM VerdictHolds == FnSpec => []VerdictIsMatch
<1>1. FnSpec => []FnInv
  BY FnInitFits, FnStepKeeps, PTL DEF FnSpec
<1> QED BY <1>1, FnInvSuffices, PTL

----------------------------------------------------------------------------
(* Words *)

WordChars == [c : Chars, lit : BOOLEAN]

\* The words and the arrays they are kept in.
WordsFit ==
    /\ text \in Seq(Chars) /\ i \in 0 .. Len(text) /\ q \in 0 .. 2
    /\ tok \in Seq(WordChars) /\ Len(tok) <= TokCap
    /\ toks \in Seq(Seq(WordChars)) /\ Len(toks) <= MaxToks
    /\ \A k \in DOMAIN toks : Len(toks[k]) <= TokCap
    /\ phase \in {"blanks", "word", "rest", "globs", "done"}
    /\ phase \in {"word", "rest"} => Len(toks) < MaxToks

\* Every word behind which the next one is looked at has an argument, in its place.  No
\* argument is made before all words are.
ArgsFit ==
    /\ todo \in Nat /\ todo >= 1
    /\ args \in Seq([of : Nat, file : Nat]) /\ Len(args) <= MaxToks
    /\ \A k \in DOMAIN args : args[k].of \in 1 .. todo - 1
    /\ WordsArrive
    /\ phase \notin {"globs", "done"} => args = <<>> /\ todo = 1

\* Both passes are in the same quotes; between words in none.
QuotesAgree ==
    /\ phase = "blanks" /\ More => q = 0
    /\ QuotesSeenAlike

WordsInv == WordsFit /\ ArgsFit /\ QuotesAgree

SeenAt == [q : 0 .. 2, jumped : BOOLEAN]

SeenStep(was, b) ==
    IF was.jumped THEN [was EXCEPT !.jumped = FALSE]
    ELSE IF was.q # 1 /\ b = "\\" THEN [was EXCEPT !.jumped = TRUE]
    ELSE [q |-> CASE was.q = 0 /\ b = "'"   -> 1
                  [] was.q = 0 /\ b = "\""  -> 2
                  [] was.q = 1 /\ b = "'"   -> 0
                  [] was.q = 2 /\ b = "\""  -> 0
                  [] OTHER -> was.q,
          jumped |-> FALSE]

SeenRule(t, f, k) == IF k = 0 THEN [q |-> 0, jumped |-> FALSE] ELSE SeenStep(f[k - 1], t[k])
SeenOf(t) == CHOOSE f : f = [k \in 0 .. Len(t) |-> SeenRule(t, f, k)]

LEMMA SeenIsOf == Seen = SeenOf(text)
BY DEF Seen, SeenOf, SeenRule, SeenStep

LEMMA SeenStays == ASSUME text' = text PROVE Seen' = Seen
<1>1. (Seen = SeenOf(text))'
  BY SeenIsOf, PTL
<1>2. Seen' = SeenOf(text')
  BY <1>1
<1> HIDE DEF Seen, SeenOf
<1> QED BY <1>2, SeenIsOf

NextQuotes(x, b) ==
    IF x = 0 /\ b = "'" THEN 1
    ELSE IF x = 0 /\ b = "\"" THEN 2
    ELSE IF (x = 1 /\ b = "'") \/ (x = 2 /\ b = "\"") THEN 0
    ELSE x

LEMMA SeenStepIs ==
    ASSUME NEW x \in 0 .. 2, NEW b
    PROVE  /\ SeenStep([q |-> x, jumped |-> TRUE], b) = [q |-> x, jumped |-> FALSE]
           /\ x # 1 /\ b = "\\" => SeenStep([q |-> x, jumped |-> FALSE], b) = [q |-> x, jumped |-> TRUE]
           /\ ~(x # 1 /\ b = "\\") =>
                SeenStep([q |-> x, jumped |-> FALSE], b) = [q |-> NextQuotes(x, b), jumped |-> FALSE]
           /\ NextQuotes(x, b) \in 0 .. 2
<1>1. SeenStep([q |-> x, jumped |-> TRUE], b) = [q |-> x, jumped |-> FALSE]
  BY DEF SeenStep
<1>2. x # 1 /\ b = "\\" => SeenStep([q |-> x, jumped |-> FALSE], b) = [q |-> x, jumped |-> TRUE]
  BY DEF SeenStep
<1>3. ~(x # 1 /\ b = "\\") =>
        SeenStep([q |-> x, jumped |-> FALSE], b) = [q |-> NextQuotes(x, b), jumped |-> FALSE]
  BY DEF SeenStep, NextQuotes
<1>4. NextQuotes(x, b) \in 0 .. 2
  <2>1. NextQuotes(x, b) \in {0, 1, 2, x}
    BY Zenon DEF NextQuotes
  <2> QED BY <2>1
<1> QED BY <1>1, <1>2, <1>3, <1>4

LEMMA SeenStepStays == ASSUME NEW was \in SeenAt, NEW b PROVE SeenStep(was, b) \in SeenAt
<1>1. was.q \in 0 .. 2 /\ was.jumped \in BOOLEAN
  BY DEF SeenAt
<1>2. was = [q |-> was.q, jumped |-> was.jumped]
  BY DEF SeenAt
<1> DEFINE x == was.q
<1>3. CASE was.jumped = TRUE
  <2>1. SeenStep(was, b) = [q |-> x, jumped |-> FALSE]
    BY <1>1, <1>2, <1>3, SeenStepIs
  <2> QED BY <1>1, <2>1 DEF SeenAt
<1>4. CASE was.jumped = FALSE
  <2>1. was = [q |-> x, jumped |-> FALSE]
    BY <1>2, <1>4
  <2>2. CASE x # 1 /\ b = "\\"
    <3>1. SeenStep(was, b) = [q |-> x, jumped |-> TRUE]
      BY <1>1, <2>1, <2>2, SeenStepIs
    <3> QED BY <1>1, <3>1 DEF SeenAt
  <2>3. CASE ~(x # 1 /\ b = "\\")
    <3>1. SeenStep(was, b) = [q |-> NextQuotes(x, b), jumped |-> FALSE]
      BY <1>1, <2>1, <2>3, SeenStepIs
    <3>2. NextQuotes(x, b) \in 0 .. 2
      BY <1>1, SeenStepIs
    <3> QED BY <3>1, <3>2 DEF SeenAt
  <2> QED BY <2>2, <2>3
<1> QED BY <1>1, <1>3, <1>4

LEMMA SeenExists ==
    ASSUME text \in Seq(Chars)
    PROVE  Seen = [k \in 0 .. Len(text) |-> SeenRule(text, Seen, k)]
<1> DEFINE n == Len(text)
           step == [y \in 0 + 1 .. n |-> [s \in SeenAt |-> SeenStep(s, text[y])]]
           c == [q |-> 0, jumped |-> FALSE]
<1>1. n \in Nat /\ 0 <= n
  BY LenProperties
<1>2. c \in SeenAt
  BY DEF SeenAt
<1>3. step \in Steps(0, n, SeenAt)
  BY SeenStepStays DEF Steps
<1> HIDE DEF c
<1>4. \A y \in 0 + 1 .. n, s \in SeenAt : step[y][s] = SeenStep(s, text[y])
  OBVIOUS
<1> HIDE DEF step, n
<1>5. PICK f : Follows(f, 0, n, SeenAt, c, step)
  BY <1>1, <1>2, <1>3, Iterates
<1>6. f \in [0 .. n -> SeenAt] /\ f[0] = c /\ \A y \in 0 + 1 .. n : f[y] = step[y][f[y - 1]]
  BY <1>5 DEF Follows
<1>7. ASSUME NEW k \in 0 .. n PROVE f[k] = SeenRule(text, f, k)
  <2>1. CASE k = 0
    BY <1>6, <2>1 DEF SeenRule, c
  <2>2. CASE k # 0
    <3>1. k \in 0 + 1 .. n /\ k - 1 \in 0 .. n
      BY <1>1, <2>2
    <3>2. f[k] = SeenStep(f[k - 1], text[k])
      BY <1>4, <1>6, <3>1
    <3> QED BY <2>2, <3>2 DEF SeenRule
  <2> QED BY <2>1, <2>2
<1>8. f = [k \in 0 .. n |-> SeenRule(text, f, k)]
  <2> DEFINE R(k) == SeenRule(text, f, k)
  <2>1. \A k \in 0 .. n : f[k] = R(k)
    BY <1>7
  <2> HIDE DEF R
  <2>2. f = [k \in 0 .. n |-> R(k)]
    BY <1>6, <2>1
  <2> QED BY <2>2 DEF R
<1>9. SeenOf(text) = [k \in 0 .. Len(text) |-> SeenRule(text, SeenOf(text), k)]
  BY <1>8, Zenon DEF SeenOf, n
<1> QED BY <1>9, SeenIsOf, Zenon

LEMMA SeenNext ==
    ASSUME text \in Seq(Chars), NEW k \in 0 .. Len(text), k < Len(text)
    PROVE  k + 1 \in 0 .. Len(text) /\ Seen[k + 1] = SeenStep(Seen[k], text[k + 1])
<1>1. k + 1 \in 0 .. Len(text) /\ k + 1 # 0 /\ (k + 1) - 1 = k
  BY LenProperties
<1> DEFINE R(x) == SeenRule(text, Seen, x)
           F == Seen
           n == Len(text)
<1>2. F = [x \in 0 .. n |-> R(x)]
  BY SeenExists
<1>3. R(k + 1) = SeenStep(Seen[k], text[k + 1])
  BY <1>1 DEF SeenRule
<1> HIDE DEF R, F
<1>4. F[k + 1] = R(k + 1)
  BY <1>1, <1>2
<1> QED BY <1>1, <1>3, <1>4 DEF F

LEMMA SeenStarts == ASSUME text \in Seq(Chars) PROVE Seen[0] = [q |-> 0, jumped |-> FALSE]
<1>1. 0 \in 0 .. Len(text)
  BY LenProperties
<1> DEFINE R(x) == SeenRule(text, Seen, x)
           F == Seen
<1>2. F = [x \in 0 .. Len(text) |-> R(x)]
  BY SeenExists
<1>3. R(0) = [q |-> 0, jumped |-> FALSE]
  BY DEF SeenRule
<1> HIDE DEF R, F
<1>4. F[0] = R(0)
  BY <1>1, <1>2
<1> QED BY <1>3, <1>4 DEF F

LEMMA WordsInitFits == WordsInit => WordsInv
<1> SUFFICES ASSUME WordsInit PROVE WordsInv
  OBVIOUS
<1>1. PICK n \in 0 .. MaxLen : text \in [1 .. n -> Chars]
  BY DEF WordsInit
<1>2. text \in Seq(Chars)
  <2>1. MaxLen \in Nat
    BY WordsAssumption DEF WordsAssumption
  <2> QED BY <1>1, <2>1
<1>3. Len(text) \in Nat /\ 0 \in 0 .. Len(text)
  BY <1>2, LenProperties
<1>4. i = 0 /\ q = 0 /\ tok = <<>> /\ toks = <<>> /\ phase = "blanks" /\ todo = 1 /\ args = <<>>
  BY DEF WordsInit
<1>5. TokCap \in Nat /\ MaxToks \in Nat
  BY WordsAssumption DEF WordsAssumption
<1>6. WordsFit
  BY <1>2, <1>3, <1>4, <1>5 DEF WordsFit
<1>7. ArgsFit
  <2>1. DOMAIN args = {} /\ Len(args) = 0 /\ args \in Seq([of : Nat, file : Nat])
    BY <1>4
  <2>2. WordsArrive
    BY <1>4, <2>1 DEF WordsArrive
  <2> QED BY <1>4, <1>5, <2>1, <2>2 DEF ArgsFit
<1>8. QuotesAgree
  BY <1>2, <1>4, SeenStarts DEF QuotesAgree, QuotesSeenAlike
<1> QED BY <1>6, <1>7, <1>8 DEF WordsInv

LEMMA QuotesAnew ==
    ASSUME text' = text,
           phase' = "blanks" /\ i' < Len(text) => q' = 0,
           phase' \in {"word", "rest", "blanks"} /\ i' < Len(text) => Seen[i'] = [q |-> q', jumped |-> FALSE]
    PROVE  QuotesAgree'
<1>1. Seen' = Seen
  BY SeenStays
<1> QED BY <1>1 DEF QuotesAgree, QuotesSeenAlike, More

LEMMA AtChar ==
    ASSUME WordsFit, More
    PROVE  /\ i \in 0 .. Len(text) /\ i < Len(text) /\ i + 1 \in 0 .. Len(text) /\ Len(text) \in Nat
           /\ Char \in Chars /\ Char = text[i + 1]
<1>1. text \in Seq(Chars) /\ Len(text) \in Nat /\ i \in 0 .. Len(text)
  BY LenProperties DEF WordsFit
<1>2. i < Len(text)
  BY DEF More
<1>3. i + 1 \in 1 .. Len(text)
  BY <1>1, <1>2
<1>4. text[i + 1] \in Chars
  BY <1>1, <1>3, ElementOfSeq
<1> QED BY <1>1, <1>2, <1>3, <1>4 DEF Char

\* find_unquoted() goes on as tokenize_env() does.
LEMMA SeenGoesOn ==
    ASSUME WordsInv, More, phase \in {"word", "rest"}
    PROVE  /\ Seen[i] = [q |-> q, jumped |-> FALSE]
           /\ q # 1 /\ Char = "\\" /\ i + 1 < Len(text) => Seen[i + 2] = [q |-> q, jumped |-> FALSE]
           /\ ~(q # 1 /\ Char = "\\") => Seen[i + 1] = [q |-> NextQuotes(q, Char), jumped |-> FALSE]
<1>1. /\ i \in 0 .. Len(text) /\ i < Len(text) /\ i + 1 \in 0 .. Len(text) /\ Len(text) \in Nat
      /\ Char = text[i + 1]
  BY AtChar DEF WordsInv
<1>2. text \in Seq(Chars) /\ q \in 0 .. 2
  BY DEF WordsInv, WordsFit
<1>3. Seen[i] = [q |-> q, jumped |-> FALSE]
  BY DEF WordsInv, QuotesAgree, QuotesSeenAlike
<1>4. Seen[i + 1] = SeenStep([q |-> q, jumped |-> FALSE], Char)
  BY <1>1, <1>2, <1>3, SeenNext
<1>5. ASSUME q # 1, Char = "\\", i + 1 < Len(text) PROVE Seen[i + 2] = [q |-> q, jumped |-> FALSE]
  <2>1. Seen[i + 1] = [q |-> q, jumped |-> TRUE]
    BY <1>2, <1>4, <1>5, SeenStepIs
  <2>2. Seen[(i + 1) + 1] = SeenStep(Seen[i + 1], text[(i + 1) + 1])
    BY <1>1, <1>2, <1>5, SeenNext
  <2>3. (i + 1) + 1 = i + 2
    BY <1>1
  <2>4. SeenStep([q |-> q, jumped |-> TRUE], text[(i + 1) + 1]) = [q |-> q, jumped |-> FALSE]
    BY <1>2, SeenStepIs
  <2> QED BY <2>1, <2>2, <2>3, <2>4
<1>6. ~(q # 1 /\ Char = "\\") => Seen[i + 1] = [q |-> NextQuotes(q, Char), jumped |-> FALSE]
  BY <1>2, <1>4, SeenStepIs
<1> QED BY <1>3, <1>5, <1>6

\* Where neither quotes nor backslashes are, nothing changes.
SeenIn(k, x) == Seen[k] = [q |-> x, jumped |-> FALSE]
Bland(k, n)  == \A j \in k + 1 .. n : text[j] \in {"x", " "}

LEMMA SeenPasses ==
    ASSUME text \in Seq(Chars), NEW k \in Nat, NEW n \in Nat, k <= n, n <= Len(text), NEW x \in 0 .. 2,
           SeenIn(k, x), Bland(k, n)
    PROVE  SeenIn(n, x)
<1> DEFINE B == {j \in k .. n : SeenIn(j, x)}
           l == Len(text)
<1>0. l \in Nat /\ n <= l
  BY LenProperties
<1> HIDE DEF l
<1>1. k \in B
  BY <1>0
<1>2. ASSUME NEW j \in k .. n, j \in B, j < n PROVE j + 1 \in B
  <2>0. j \in 0 .. l /\ j < l /\ j + 1 \in k + 1 .. n /\ j + 1 \in k .. n
    BY <1>0, <1>2
  <2>1. j \in 0 .. Len(text) /\ j < Len(text)
    BY <2>0 DEF l
  <2>2. Seen[j + 1] = SeenStep(Seen[j], text[j + 1])
    BY <2>1, SeenNext
  <2>3. text[j + 1] \in {"x", " "}
    BY <2>0 DEF Bland
  <2>4. text[j + 1] # "\\" /\ NextQuotes(x, text[j + 1]) = x
    BY <2>3 DEF NextQuotes
  <2>5. SeenStep([q |-> x, jumped |-> FALSE], text[j + 1]) = [q |-> x, jumped |-> FALSE]
    BY <2>4, SeenStepIs
  <2>6. Seen[j] = [q |-> x, jumped |-> FALSE]
    BY <1>2 DEF SeenIn
  <2>7. SeenIn(j + 1, x)
    BY <2>2, <2>5, <2>6 DEF SeenIn
  <2> QED BY <2>0, <2>7
<1> HIDE DEF B
<1>3. \A j \in k .. n : j \in B
  BY <1>1, <1>2, UpTo
<1>4. n \in k .. n
  OBVIOUS
<1> QED BY <1>3, <1>4 DEF B

\* A variable's name ends somewhere.
LEMMA NameEndIs ==
    ASSUME WordsFit, More
    PROVE  NameEnd \in i + 1 .. Len(text) /\ \A j \in i + 2 .. NameEnd : text[j] = "x"
<1>0. i \in 0 .. Len(text) /\ i < Len(text) /\ Len(text) \in Nat
  BY AtChar
<1> DEFINE Stops(k) == /\ \A j \in i + 2 .. k : text[j] = "x"
                       /\ k = Len(text) \/ text[k + 1] # "x"
           B == {k \in i + 1 .. Len(text) : \A j \in i + 2 .. k : text[j] = "x"}
<1>1. \E k \in i + 1 .. Len(text) : Stops(k)
  <2> SUFFICES ASSUME \A k \in i + 1 .. Len(text) : ~Stops(k) PROVE FALSE
    OBVIOUS
  <2>1. i + 1 \in B
    <3>1. i + 2 .. i + 1 = {} /\ i + 1 \in i + 1 .. Len(text)
      BY <1>0
    <3> QED BY <3>1
  <2>2. ASSUME NEW k \in i + 1 .. Len(text), k \in B, k < Len(text) PROVE k + 1 \in B
    <3>1. k + 1 \in i + 1 .. Len(text) /\ k # Len(text) /\ \A j \in i + 2 .. k + 1 : j \in i + 2 .. k \/ j = k + 1
      BY <1>0, <2>2
    <3>2. text[k + 1] = "x"
      BY <2>2, <3>1
    <3> QED BY <2>2, <3>1, <3>2
  <2> HIDE DEF B
  <2>3. i + 1 \in Nat /\ Len(text) \in i + 1 .. Len(text)
    BY <1>0
  <2>4. \A k \in i + 1 .. Len(text) : k \in B
    BY <1>0, <2>1, <2>2, <2>3, UpTo
  <2> QED BY <2>3, <2>4 DEF B
<1>2. NameEnd = CHOOSE k \in i + 1 .. Len(text) : Stops(k)
  BY DEF NameEnd
<1> HIDE DEF Stops
<1>3. NameEnd \in i + 1 .. Len(text) /\ Stops(NameEnd)
  BY <1>1, <1>2
<1> QED BY <1>3 DEF Stops

\* What the steps that split the line leave alone.
LEMMA ArgsWait ==
    ASSUME ArgsFit, phase \notin {"globs", "done"}, phase' # "done", UNCHANGED <<todo, args>>
    PROVE  ArgsFit'
<1>1. args = <<>> /\ todo = 1 /\ args' = <<>> /\ todo' = 1
  BY DEF ArgsFit
<1>2. MaxToks \in Nat
  BY WordsAssumption DEF WordsAssumption
<1>3. DOMAIN args' = {} /\ Len(args') = 0 /\ args' \in Seq([of : Nat, file : Nat])
  BY <1>1
<1>4. WordsArrive'
  BY <1>1, <1>3 DEF WordsArrive
<1> QED BY <1>1, <1>2, <1>3, <1>4 DEF ArgsFit

\* A step within a word.
LEMMA WithinWord ==
    ASSUME WordsInv, phase \in {"word", "rest"},
           text' = text, i' \in 0 .. Len(text), q' \in 0 .. 2, tok' \in Seq(WordChars), Len(tok') <= TokCap,
           toks' = toks, phase' = phase, UNCHANGED <<todo, args>>,
           i' < Len(text) => Seen[i'] = [q |-> q', jumped |-> FALSE]
    PROVE  WordsInv'
<1>1. WordsFit'
  BY DEF WordsInv, WordsFit
<1>2. ArgsFit'
  BY ArgsWait DEF WordsInv
<1>3. phase' # "blanks"
  OBVIOUS
<1>4. QuotesAgree'
  BY <1>3, QuotesAnew
<1> QED BY <1>1, <1>2, <1>4 DEF WordsInv

LEMMA TokGrows ==
    ASSUME WordsFit, Len(tok) < TokCap, NEW x \in Chars, NEW b \in BOOLEAN
    PROVE  /\ Append(tok, [c |-> x, lit |-> b]) \in Seq(WordChars)
           /\ Len(Append(tok, [c |-> x, lit |-> b])) <= TokCap
<1> DEFINE e == [c |-> x, lit |-> b]
<1>1. e \in WordChars
  BY DEF WordChars
<1> HIDE DEF e
<1>2. tok \in Seq(WordChars)
  BY DEF WordsFit
<1>3. Append(tok, e) \in Seq(WordChars) /\ Len(Append(tok, e)) = Len(tok) + 1
  BY <1>1, <1>2, AppendProperties
<1>4. Len(tok) \in Nat /\ TokCap \in Nat
  BY <1>2, LenProperties, WordsAssumption DEF WordsAssumption
<1>5. Len(tok) + 1 <= TokCap
  BY <1>4
<1> QED BY <1>3, <1>5 DEF e

LEMMA OpenKeeps == ASSUME WordsInv, Open \/ Close PROVE WordsInv'
<1>1. phase = "word" /\ More /\ Char \in {"'", "\""} /\ i' = i + 1
      /\ UNCHANGED <<text, tok, toks, phase, todo, args>>
  BY DEF Open, Close, InWord, Splitting
<1>2. /\ i \in 0 .. Len(text) /\ i < Len(text) /\ i + 1 \in 0 .. Len(text)
  BY <1>1, AtChar DEF WordsInv
<1>3. Seen[i + 1] = [q |-> NextQuotes(q, Char), jumped |-> FALSE]
  BY <1>1, SeenGoesOn
<1>4. q' = NextQuotes(q, Char) /\ q' \in 0 .. 2
  <2>0. q \in 0 .. 2
    BY DEF WordsInv, WordsFit
  <2>1. q' = NextQuotes(q, Char)
    <3>1. CASE Open
      <4>1. q = 0 /\ q' = Quotes
        BY <3>1 DEF Open
      <4>2. CASE Char = "'"
        BY <4>1, <4>2 DEF Quotes, NextQuotes
      <4>3. CASE Char = "\""
        BY <4>1, <4>3 DEF Quotes, NextQuotes
      <4> QED BY <1>1, <4>2, <4>3
    <3>2. CASE Close
      <4>1. q # 0 /\ q' = 0 /\ Quotes = q
        BY <3>2 DEF Close
      <4>2. CASE Char = "'"
        BY <4>1, <4>2 DEF Quotes, NextQuotes
      <4>3. CASE Char = "\""
        BY <4>1, <4>3 DEF Quotes, NextQuotes
      <4> QED BY <1>1, <4>2, <4>3
    <3> QED BY <3>1, <3>2
  <2> QED BY <2>0, <2>1, SeenStepIs
<1>5. tok \in Seq(WordChars) /\ Len(tok) <= TokCap
  BY DEF WordsInv, WordsFit
<1> QED BY <1>1, <1>2, <1>3, <1>4, <1>5, WithinWord

LEMMA EscapedKeeps == ASSUME WordsInv, Escaped PROVE WordsInv'
<1>1. phase = "word" /\ More /\ Len(tok) < TokCap /\ q # 1 /\ Char = "\\" /\ i + 1 < Len(text) /\ i' = i + 2
      /\ UNCHANGED <<text, q, toks, phase, todo, args>>
      /\ tok' = Append(tok, [c |-> text[i + 2], lit |-> TRUE])
  BY DEF Escaped, Escape, InWord, Splitting
<1>2. i \in 0 .. Len(text) /\ i + 1 \in 0 .. Len(text) /\ Len(text) \in Nat
  BY <1>1, AtChar DEF WordsInv
<1>3. Seen[i + 2] = [q |-> q, jumped |-> FALSE]
  BY <1>1, SeenGoesOn
<1>4. i + 2 \in 0 .. Len(text) /\ i + 2 \in 1 .. Len(text)
  BY <1>1, <1>2
<1>5. text[i + 2] \in Chars
  BY <1>4, ElementOfSeq DEF WordsInv, WordsFit
<1>6. tok' \in Seq(WordChars) /\ Len(tok') <= TokCap
  BY <1>1, <1>5, TokGrows DEF WordsInv
<1>7. q' \in 0 .. 2
  BY <1>1 DEF WordsInv, WordsFit
<1> QED BY <1>1, <1>3, <1>4, <1>6, <1>7, WithinWord

LEMMA PlainKeeps == ASSUME WordsInv, Plain PROVE WordsInv'
<1>1. phase = "word" /\ More /\ Len(tok) < TokCap /\ i' = i + 1
      /\ UNCHANGED <<text, q, toks, phase, todo, args>>
      /\ tok' = Append(tok, [c |-> Char, lit |-> q # 0])
  BY DEF Plain, InWord, Splitting
<1>0. q \in 0 .. 2
  BY DEF WordsInv, WordsFit
<1>2. i \in 0 .. Len(text) /\ i + 1 \in 0 .. Len(text) /\ Len(text) \in Nat /\ i < Len(text) /\ Char \in Chars
  BY <1>1, AtChar DEF WordsInv
<1>p. /\ q = 0 => Char \notin {" ", "'", "\"", "$"} /\ ~Escape
      /\ q = 1 => Char # "'"
      /\ q = 2 => Char \notin {"\"", "$"} /\ ~Escape
  <2>1. CASE q = 0
    <3>1. q # 1 /\ q # 2
      BY <2>1
    <3> QED BY <2>1, <3>1, Zenon DEF Plain
  <2>2. CASE q = 1
    <3>1. q # 0 /\ q # 2
      BY <2>2
    <3> QED BY <2>2, <3>1, Zenon DEF Plain
  <2>3. CASE q = 2
    <3>1. q # 0 /\ q # 1
      BY <2>3
    <3> QED BY <2>3, <3>1, Zenon DEF Plain
  <2> QED BY <2>1, <2>2, <2>3, Zenon
<1>3. CASE q # 1 /\ Char = "\\"
  <2>1. ~Escape
    BY <1>0, <1>3, <1>p
  <2>2. ~(i + 1 < Len(text))
    BY <1>1, <1>3, <2>1 DEF Escape, Plain
  <2>3. ~(i' < Len(text))
    BY <1>1, <2>2
  <2>4. tok' \in Seq(WordChars) /\ Len(tok') <= TokCap
    BY <1>1, <1>2, TokGrows DEF WordsInv
  <2> QED BY <1>0, <1>1, <1>2, <2>3, <2>4, WithinWord
<1>4. CASE ~(q # 1 /\ Char = "\\")
  <2>1. NextQuotes(q, Char) = q
    <3>1. CASE q = 0
      BY <1>p, <3>1 DEF NextQuotes
    <3>2. CASE q = 1
      BY <1>p, <3>2 DEF NextQuotes
    <3>3. CASE q = 2
      BY <1>p, <3>3 DEF NextQuotes
    <3> QED BY <1>0, <3>1, <3>2, <3>3
  <2>2. Seen[i + 1] = [q |-> q, jumped |-> FALSE]
    BY <1>1, <1>4, <2>1, SeenGoesOn
  <2>4. tok' \in Seq(WordChars) /\ Len(tok') <= TokCap
    BY <1>1, <1>2, TokGrows DEF WordsInv
  <2> QED BY <1>0, <1>1, <1>2, <2>2, <2>4, WithinWord
<1> QED BY <1>3, <1>4

LEMMA ClipFits ==
    ASSUME NEW T, NEW s \in Seq(T), NEW n \in Nat
    PROVE  Clip(n, s) \in Seq(T) /\ Len(Clip(n, s)) <= n
<1> DEFINE m == IF Len(s) < n THEN Len(s) ELSE n
<1>1. Len(s) \in Nat /\ m \in Nat /\ m <= Len(s) /\ m <= n
  BY LenProperties
<1>2. Clip(n, s) = SubSeq(s, 1, m)
  BY DEF Clip
<1> HIDE DEF m
<1>3. \A k \in 1 .. m : s[k] \in T
  BY <1>1, ElementOfSeq
<1>4. SubSeq(s, 1, m) \in Seq(T) /\ Len(SubSeq(s, 1, m)) = m
  BY <1>1, <1>3, SubSeqProperties
<1> QED BY <1>1, <1>2, <1>4

LEMMA VariableKeeps == ASSUME WordsInv, Variable PROVE WordsInv'
<1> DEFINE new == CASE NameEnd = i + 1 -> <<[c |-> "$", lit |-> TRUE]>>
                    [] NameEnd = i + 2 -> [k \in DOMAIN VarValue |-> [c |-> VarValue[k], lit |-> q = 2]]
                    [] OTHER -> <<>>
<1>1. phase = "word" /\ More /\ q # 1 /\ Char = "$" /\ i' = NameEnd
      /\ UNCHANGED <<text, q, toks, phase, todo, args>>
  BY DEF Variable, InWord, Splitting
<1>2. tok' = Clip(TokCap, tok \o new)
  BY DEF Variable
<1>3. new \in Seq(WordChars)
  <2>1. VarValue \in Seq(Chars)
    BY WordsAssumption DEF WordsAssumption
  <2> DEFINE val == [k \in DOMAIN VarValue |-> [c |-> VarValue[k], lit |-> q = 2]]
             one == <<[c |-> "$", lit |-> TRUE]>>
  <2>2. val \in Seq(WordChars)
    <3>1. DOMAIN VarValue = 1 .. Len(VarValue) /\ Len(VarValue) \in Nat /\ \A k \in DOMAIN VarValue : VarValue[k] \in Chars
      BY <2>1
    <3>2. \A k \in DOMAIN VarValue : [c |-> VarValue[k], lit |-> q = 2] \in WordChars
      BY <3>1 DEF WordChars
    <3> DEFINE f(k) == [c |-> VarValue[k], lit |-> q = 2]
    <3>3. \A k \in DOMAIN VarValue : f(k) \in WordChars
      BY <3>2
    <3> HIDE DEF f
    <3>4. [k \in DOMAIN VarValue |-> f(k)] \in [1 .. Len(VarValue) -> WordChars]
      BY <3>1, <3>3
    <3>5. [k \in DOMAIN VarValue |-> f(k)] \in Seq(WordChars)
      BY <3>1, <3>4
    <3> QED BY <3>5 DEF f
  <2>3. one \in Seq(WordChars)
    BY DEF WordChars, Chars
  <2>4. <<>> \in Seq(WordChars)
    OBVIOUS
  <2>5. new \in {one, val, <<>>}
    BY Zenon
  <2> HIDE DEF new, val, one
  <2> QED BY <2>2, <2>3, <2>4, <2>5
<1> HIDE DEF new
<1>4. tok' \in Seq(WordChars) /\ Len(tok') <= TokCap
  <2>1. tok \in Seq(WordChars) /\ TokCap \in Nat
    BY WordsAssumption DEF WordsAssumption, WordsInv, WordsFit
  <2>2. tok \o new \in Seq(WordChars)
    BY <1>3, <2>1, ConcatProperties
  <2> QED BY <1>2, <2>1, <2>2, ClipFits
<1>5. NameEnd \in i + 1 .. Len(text) /\ \A j \in i + 2 .. NameEnd : text[j] = "x"
  BY <1>1, NameEndIs DEF WordsInv
<1>6. i \in 0 .. Len(text) /\ i + 1 \in 0 .. Len(text) /\ Len(text) \in Nat /\ text \in Seq(Chars) /\ q \in 0 .. 2
  BY <1>1, AtChar DEF WordsInv, WordsFit
<1>7. SeenIn(i + 1, q)
  <2>1. Seen[i + 1] = [q |-> NextQuotes(q, Char), jumped |-> FALSE]
    BY <1>1, SeenGoesOn
  <2>2. NextQuotes(q, Char) = q
    BY <1>1 DEF NextQuotes
  <2> QED BY <2>1, <2>2 DEF SeenIn
<1> DEFINE n == NameEnd
<1>8. Bland(i + 1, n)
  <2>1. \A j \in i + 2 .. n : text[j] = "x"
    BY <1>5
  <2>2. (i + 1) + 1 = i + 2
    BY <1>6
  <2> QED BY <2>1, <2>2 DEF Bland
<1>9. n \in Nat /\ i + 1 \in Nat /\ i + 1 <= n /\ n <= Len(text) /\ n \in 0 .. Len(text)
  BY <1>5, <1>6
<1> HIDE DEF n
<1>10. SeenIn(n, q)
  BY <1>6, <1>7, <1>8, <1>9, SeenPasses
<1>11. Seen[NameEnd] = [q |-> q, jumped |-> FALSE]
  BY <1>10 DEF SeenIn, n
<1>12. NameEnd \in 0 .. Len(text)
  BY <1>9 DEF n
<1> QED BY <1>1, <1>4, <1>6, <1>11, <1>12, WithinWord

LEMMA RestKeeps == ASSUME WordsInv, Rest PROVE WordsInv'
<1> DEFINE f == q # 1 /\ Char = "\\"
<1>1. phase = "rest" /\ More /\ UNCHANGED <<text, tok, toks, phase, todo, args>>
  BY DEF Rest, Splitting
<1>2. /\ i' = IF f THEN (IF i + 2 < Len(text) THEN i + 2 ELSE Len(text)) ELSE i + 1
      /\ q' = IF q = 0 /\ Char \in {"'", "\""} THEN Quotes
              ELSE IF q # 0 /\ Char \in {"'", "\""} /\ Quotes = q THEN 0 ELSE q
  BY DEF Rest
<1>3. i \in 0 .. Len(text) /\ i < Len(text) /\ i + 1 \in 0 .. Len(text) /\ Len(text) \in Nat
  BY <1>1, AtChar DEF WordsInv
<1>4. q \in 0 .. 2 /\ tok \in Seq(WordChars) /\ Len(tok) <= TokCap
  BY DEF WordsInv, WordsFit
<1>5. q' = NextQuotes(q, Char) /\ q' \in 0 .. 2
  <2>1. q' = NextQuotes(q, Char)
    <3>1. CASE Char = "'"
      <4>1. Quotes = 1
        BY <3>1 DEF Quotes
      <4> QED BY <1>2, <1>4, <3>1, <4>1 DEF NextQuotes
    <3>2. CASE Char = "\""
      <4>1. Quotes = 2
        BY <3>2 DEF Quotes
      <4> QED BY <1>2, <1>4, <3>2, <4>1 DEF NextQuotes
    <3>3. CASE Char \notin {"'", "\""}
      BY <1>2, <3>3 DEF NextQuotes
    <3> QED BY <3>1, <3>2, <3>3
  <2> QED BY <1>4, <2>1, SeenStepIs
<1>6. CASE f
  <2>1. q' = q
    BY <1>5, <1>6 DEF NextQuotes
  <2>2. i' \in 0 .. Len(text) /\ (i' < Len(text) => i' = i + 2 /\ i + 1 < Len(text))
    BY <1>2, <1>3, <1>6
  <2>3. i' < Len(text) => Seen[i'] = [q |-> q, jumped |-> FALSE]
    BY <1>1, <1>6, <2>2, SeenGoesOn
  <2> QED BY <1>1, <1>4, <1>5, <2>1, <2>2, <2>3, WithinWord
<1>7. CASE ~f
  <2>1. i' = i + 1
    BY <1>2, <1>7
  <2>2. Seen[i + 1] = [q |-> NextQuotes(q, Char), jumped |-> FALSE]
    BY <1>1, <1>7, SeenGoesOn
  <2> QED BY <1>1, <1>3, <1>4, <1>5, <2>1, <2>2, WithinWord
<1> QED BY <1>6, <1>7

\* A word is put behind the others.
LEMMA WordEnds ==
    ASSUME WordsInv, phase \in {"word", "rest"}, ~More \/ Blank,
           toks' = Append(toks, tok), phase' = "blanks", UNCHANGED <<text, i, q, tok, todo, args>>
    PROVE  WordsInv'
<1>1. toks \in Seq(Seq(WordChars)) /\ tok \in Seq(WordChars) /\ Len(toks) < MaxToks /\ Len(tok) <= TokCap
  BY DEF WordsInv, WordsFit
<1>2. /\ toks' \in Seq(Seq(WordChars)) /\ Len(toks') = Len(toks) + 1
      /\ \A k \in 1 .. Len(toks) : toks'[k] = toks[k]
      /\ toks'[Len(toks) + 1] = tok
  BY <1>1, AppendProperties
<1>3. Len(toks) \in Nat /\ MaxToks \in Nat
  BY <1>1, LenProperties, WordsAssumption DEF WordsAssumption
<1>4. Len(toks') <= MaxToks
  <2>1. Len(toks) + 1 <= MaxToks
    BY <1>1, <1>3
  <2> QED BY <1>2, <2>1
<1>5. \A k \in DOMAIN toks' : Len(toks'[k]) <= TokCap
  <2> SUFFICES ASSUME NEW k \in DOMAIN toks' PROVE Len(toks'[k]) <= TokCap
    OBVIOUS
  <2>1. k \in 1 .. Len(toks) + 1
    BY <1>2
  <2>2. k \in 1 .. Len(toks) \/ k = Len(toks) + 1
    BY <1>3, <2>1
  <2>3. DOMAIN toks = 1 .. Len(toks)
    BY <1>1
  <2> QED BY <1>1, <1>2, <2>2, <2>3 DEF WordsInv, WordsFit
<1>6. WordsFit'
  BY <1>2, <1>4, <1>5 DEF WordsInv, WordsFit
<1>7. ArgsFit'
  BY ArgsWait DEF WordsInv
<1>8. More => q = 0
  BY DEF Blank
<1>9. QuotesAgree'
  <2>1. i' < Len(text) => More
    BY DEF More
  <2>2. More => Seen[i] = [q |-> q, jumped |-> FALSE]
    BY DEF WordsInv, QuotesAgree, QuotesSeenAlike
  <2> QED BY <1>8, <2>1, <2>2, QuotesAnew
<1> QED BY <1>6, <1>7, <1>9 DEF WordsInv

LEMMA EndWordKeeps == ASSUME WordsInv, EndWord \/ RestEnds PROVE WordsInv'
<1>1. CASE RestEnds
  BY <1>1, WordEnds DEF RestEnds, Splitting
<1>2. CASE EndWord /\ Len(tok) # TokCap
  BY <1>2, WordEnds DEF EndWord, Splitting
<1>3. CASE EndWord /\ Len(tok) = TokCap
  <2>1. phase = "word" /\ phase' = "rest" /\ q' = q /\ UNCHANGED <<text, i, tok, toks, todo, args>>
    BY <1>3 DEF EndWord, RestQuote, Splitting
  <2>2. WordsFit'
    BY <2>1 DEF WordsInv, WordsFit
  <2>3. ArgsFit'
    BY <2>1, ArgsWait DEF WordsInv
  <2>4. QuotesAgree'
    <3>1. i' < Len(text) => Seen[i] = [q |-> q, jumped |-> FALSE]
      BY <2>1 DEF WordsInv, QuotesAgree, QuotesSeenAlike, More
    <3> QED BY <2>1, <3>1, QuotesAnew
  <2> QED BY <2>2, <2>3, <2>4 DEF WordsInv
<1> QED BY <1>1, <1>2, <1>3

LEMMA NextWordKeeps == ASSUME WordsInv, NextWord PROVE WordsInv'
<1> DEFINE S == {k \in i .. Len(text) - 1 : text[k + 1] # " "}
<1>1. phase = "blanks" /\ tok' = <<>> /\ q' = 0 /\ UNCHANGED <<text, toks, todo, args>>
  BY DEF NextWord, Splitting
<1>2. text \in Seq(Chars) /\ Len(text) \in Nat /\ i \in 0 .. Len(text) /\ Len(toks) <= MaxToks
  BY LenProperties DEF WordsInv, WordsFit
<1>3. <<>> \in Seq(WordChars) /\ Len(<<>>) <= TokCap /\ MaxToks \in Nat
  BY WordsAssumption DEF WordsAssumption
<1>t. Len(toks) \in Nat
  BY LenProperties DEF WordsInv, WordsFit
<1>4. CASE S = {} \/ Len(toks) = MaxToks
  <2>1. phase' = "globs" /\ i' = i
    BY <1>4 DEF NextWord
  <2>2. WordsFit'
    BY <1>1, <1>3, <2>1 DEF WordsInv, WordsFit
  <2>3. ArgsFit'
    <3>1. args = <<>> /\ todo = 1 /\ args' = <<>> /\ todo' = 1
      BY <1>1 DEF WordsInv, ArgsFit
    <3>2. DOMAIN args' = {} /\ Len(args') = 0 /\ args' \in Seq([of : Nat, file : Nat])
      BY <3>1
    <3>3. WordsArrive'
      BY <2>1, <3>1, <3>2 DEF WordsArrive
    <3> QED BY <1>3, <3>1, <3>2, <3>3 DEF ArgsFit
  <2>4. QuotesAgree'
    BY <2>1 DEF QuotesAgree, QuotesSeenAlike
  <2> QED BY <2>2, <2>3, <2>4 DEF WordsInv
<1>5. CASE ~(S = {} \/ Len(toks) = MaxToks)
  <2> DEFINE k == CHOOSE e \in S : \A j \in S : e <= j
  <2>1. phase' = "word" /\ i' = k
    BY <1>5 DEF NextWord
  <2>2. k \in S /\ \A j \in S : k <= j
    <3>0. i \in Nat
      BY <1>2
    <3>2. S # {}
      BY <1>5
    <3> DEFINE n == Len(text) - 1
    <3>3. n \in Int
      BY <1>2
    <3>4. \A e \in S : e \in i .. n
      OBVIOUS
    <3> HIDE DEF n, S
    <3>5. \A e \in S : e \in Nat
      BY <3>0, <3>3, <3>4
    <3>1. S \in SUBSET Nat /\ S # {}
      BY <3>2, <3>5
    <3>6. \E e \in S : \A j \in S : e <= j
      BY <3>1, LeastExists
    <3> QED BY <3>6
  <2> HIDE DEF k
  <2>3. k \in i .. Len(text) - 1 /\ k \in Nat /\ i \in Nat /\ i <= k /\ k <= Len(text) /\ k \in 0 .. Len(text)
        /\ i < Len(text)
    <3>1. k \in i .. Len(text) - 1
      BY <2>2
    <3> QED BY <1>2, <3>1
  <2>4. Bland(i, k)
    <3>1. ASSUME NEW j \in i + 1 .. k PROVE text[j] = " "
      <4>1. j - 1 \in i .. Len(text) - 1 /\ ~(k <= j - 1) /\ (j - 1) + 1 = j
        BY <1>2, <2>3
      <4>2. j - 1 \notin S
        BY <2>2, <4>1
      <4> QED BY <4>1, <4>2
    <3> QED BY <3>1 DEF Bland
  <2>5. SeenIn(i, 0)
    BY <1>1, <2>3 DEF WordsInv, QuotesAgree, QuotesSeenAlike, More, SeenIn
  <2>6. 0 \in 0 .. 2
    OBVIOUS
  <2>7. SeenIn(k, 0)
    BY <1>2, <2>3, <2>4, <2>5, <2>6, SeenPasses
  <2>8. WordsFit'
    <3>0. Len(toks) # MaxToks
      BY <1>5
    <3>1. Len(toks) < MaxToks
      BY <1>2, <1>3, <1>t, <3>0
    <3> QED BY <1>1, <1>3, <2>1, <2>3, <3>1 DEF WordsInv, WordsFit
  <2>9. ArgsFit'
    BY <1>1, <2>1, ArgsWait DEF WordsInv
  <2>10. QuotesAgree'
    BY <1>1, <2>1, <2>7, QuotesAnew DEF SeenIn
  <2> QED BY <2>8, <2>9, <2>10 DEF WordsInv
<1> QED BY <1>4, <1>5

\* The arguments of one word are put behind the others.
LEMMA ArgsGrow ==
    ASSUME WordsInv, phase = "globs", NEW new \in Seq([of : Nat, file : Nat]),
           args' = args \o new, Len(new) > 0, Len(args) + Len(new) <= MaxToks,
           \A k \in DOMAIN new : new[k].of = todo,
           todo' = todo + 1, UNCHANGED <<text, i, q, tok, toks, phase>>
    PROVE  WordsInv'
<1> DEFINE m == Len(args)  n == Len(new)
<1>0. args \in Seq([of : Nat, file : Nat]) /\ todo \in Nat /\ todo >= 1
  BY DEF WordsInv, ArgsFit
<1>1. m \in Nat /\ n \in Nat /\ n > 0 /\ DOMAIN args = 1 .. m /\ DOMAIN new = 1 .. n
  BY <1>0, LenProperties
<1>2. /\ args' \in Seq([of : Nat, file : Nat]) /\ Len(args') = m + n
      /\ \A k \in 1 .. m : args'[k] = args[k]
      /\ \A k \in 1 .. n : args'[m + k] = new[k]
  BY <1>0, ConcatProperties
<1>3. DOMAIN args' = 1 .. m + n
  BY <1>2
<1> HIDE DEF m, n
<1>4. \A k \in 1 .. m : args'[k].of = args[k].of /\ args[k].of \in 1 .. todo - 1
  BY <1>1, <1>2 DEF WordsInv, ArgsFit
<1>5. \A k \in m + 1 .. m + n : args'[k].of = todo
  <2>1. ASSUME NEW k \in m + 1 .. m + n PROVE args'[k].of = todo
    <3>1. k - m \in 1 .. n /\ m + (k - m) = k
      BY <1>1
    <3>2. args'[k] = new[k - m]
      BY <1>2, <3>1
    <3> QED BY <1>1, <3>1, <3>2
  <2> QED BY <2>1
<1>6. \A k \in 1 .. m + n : k \in 1 .. m \/ k \in m + 1 .. m + n
  BY <1>1
<1>7. \A k \in 1 .. m + n : args'[k].of \in 1 .. todo
  <2>1. \A o : o \in 1 .. todo - 1 => o \in 1 .. todo
    BY <1>0
  <2>2. todo \in 1 .. todo
    BY <1>0
  <2> QED BY <1>4, <1>5, <1>6, <2>1, <2>2
<1>8. \A k, l \in 1 .. m + n : k <= l => args'[k].of <= args'[l].of
  <2>1. ASSUME NEW k \in 1 .. m + n, NEW l \in 1 .. m + n, k <= l PROVE args'[k].of <= args'[l].of
    <3>1. CASE l \in 1 .. m
      <4>1. k \in 1 .. m
        BY <1>1, <2>1, <3>1
      <4>2. args[k].of <= args[l].of
        BY <1>1, <2>1, <3>1, <4>1 DEF WordsInv, ArgsFit, WordsArrive
      <4> QED BY <1>4, <3>1, <4>1, <4>2
    <3>2. CASE l \in m + 1 .. m + n
      <4>1. args'[l].of = todo
        BY <1>5, <3>2
      <4> DEFINE o == args'[k].of
      <4>2. o \in 1 .. todo
        BY <1>7
      <4> HIDE DEF o
      <4>3. o <= todo
        BY <1>0, <4>2
      <4> QED BY <4>1, <4>3 DEF o
    <3> QED BY <1>6, <3>1, <3>2
  <2> QED BY <2>1
<1>9. \A t \in 1 .. todo : \E k \in 1 .. m + n : args'[k].of = t
  <2>1. ASSUME NEW t \in 1 .. todo PROVE \E k \in 1 .. m + n : args'[k].of = t
    <3>1. CASE t = todo
      <4>1. m + 1 \in m + 1 .. m + n /\ m + 1 \in 1 .. m + n
        BY <1>1
      <4> QED BY <1>5, <3>1, <4>1
    <3>2. CASE t # todo
      <4>1. t \in 1 .. todo - 1
        BY <1>0, <3>2
      <4>2. PICK k \in 1 .. m : args[k].of = t
        BY <1>1, <4>1 DEF WordsInv, ArgsFit, WordsArrive
      <4>3. k \in 1 .. m + n
        BY <1>1
      <4> QED BY <1>4, <4>2, <4>3
    <3> QED BY <3>1, <3>2
  <2> QED BY <2>1
<1>10. todo' - 1 = todo /\ todo' \in Nat /\ todo' >= 1 /\ phase' = "globs"
  BY <1>0
<1>11. WordsArrive'
  BY <1>3, <1>8, <1>9, <1>10 DEF WordsArrive
<1>12. ArgsFit'
  <2>1. Len(args') <= MaxToks
    BY <1>2 DEF m, n
  <2>2. \A k \in DOMAIN args' : args'[k].of \in 1 .. todo' - 1
    BY <1>3, <1>7, <1>10
  <2> QED BY <1>2, <1>10, <1>11, <2>1, <2>2 DEF ArgsFit
<1>13. WordsFit'
  BY DEF WordsInv, WordsFit
<1>14. QuotesAgree'
  BY DEF QuotesAgree, QuotesSeenAlike
<1> QED BY <1>12, <1>13, <1>14 DEF WordsInv

LEMMA ExpandKeeps == ASSUME WordsInv, Expand PROVE WordsInv'
<1> DEFINE c == Cardinality(Matched(todo))
           n == IF Globs(toks[todo]) THEN Least(c, RoomForNames) ELSE 0
<1>1. phase = "globs" /\ Len(args) < MaxToks /\ todo' = todo + 1
      /\ args' = (IF n = 0 THEN Kept(todo) ELSE Named(todo, n))
      /\ UNCHANGED <<text, i, q, tok, toks, phase>>
  BY DEF Expand
<1>2. args \in Seq([of : Nat, file : Nat]) /\ todo \in Nat /\ Len(args) \in Nat
  BY LenProperties DEF WordsInv, ArgsFit
<1>3. MaxToks \in Nat /\ GlobCap \in Nat /\ GlobCap <= MaxToks
  BY WordsAssumption DEF WordsAssumption
<1>4. CASE n = 0
  <2> DEFINE e == [of |-> todo, file |-> 0]
  <2>1. <<e>> \in Seq([of : Nat, file : Nat]) /\ Len(<<e>>) = 1 /\ args' = args \o <<e>>
    BY <1>1, <1>2, <1>4, AppendIsConcat DEF Kept
  <2>2. \A k \in DOMAIN <<e>> : <<e>>[k].of = todo
    <3>1. \A k \in DOMAIN <<e>> : <<e>>[k] = e
      OBVIOUS
    <3> QED BY <3>1
  <2> HIDE DEF e, n
  <2>3. Len(args) + Len(<<e>>) <= MaxToks
    <3>1. Len(args) + 1 <= MaxToks
      BY <1>1, <1>2, <1>3
    <3> QED BY <2>1, <3>1
  <2>4. Len(<<e>>) > 0
    BY <2>1
  <2> QED BY <1>1, <2>1, <2>2, <2>3, <2>4, ArgsGrow
<1>5. CASE n # 0
  <2> DEFINE new == [k \in 1 .. n |-> [of |-> todo, file |-> k]]
  <2>1. n \in Nat /\ n > 0 /\ Len(args) + n <= MaxToks
    <3>1. c \in Nat
      <4>1. IsFiniteSet(Files)
        BY WordsAssumption DEF WordsAssumption
      <4>2. Matched(todo) \subseteq Files
        BY DEF Matched
      <4>3. IsFiniteSet(Matched(todo))
        BY <4>1, <4>2, FS_Subset
      <4> QED BY <4>3, FS_CardinalityType
    <3> HIDE DEF c
    <3>2. RoomForNames \in Nat
      BY <1>2, <1>3 DEF RoomForNames
    <3>3. n = Least(c, RoomForNames)
      BY <1>5
    <3>4. n \in Nat /\ n <= RoomForNames
      BY <3>1, <3>2, <3>3 DEF Least
    <3> HIDE DEF n
    <3>5. RoomForNames = GlobCap - Len(args)
      BY <1>2, <1>3, <1>5, <3>2, <3>4 DEF RoomForNames
    <3> QED BY <1>2, <1>3, <1>5, <3>4, <3>5
  <2> HIDE DEF c, n
  <2>2. args' = args \o new
    BY <1>1, <1>5 DEF Named
  <2>3. new \in Seq([of : Nat, file : Nat]) /\ Len(new) = n
    <3>1. new \in [1 .. n -> [of : Nat, file : Nat]]
      BY <1>2, <2>1
    <3> QED BY <2>1, <3>1
  <2>4. \A k \in DOMAIN new : new[k].of = todo
    OBVIOUS
  <2> HIDE DEF new
  <2>5. Len(args) + Len(new) <= MaxToks /\ Len(new) > 0
    BY <2>1, <2>3
  <2> QED BY <1>1, <2>2, <2>3, <2>4, <2>5, ArgsGrow
<1> QED BY <1>4, <1>5

LEMMA WordsStepKeeps == WordsInv /\ [WordsNext]_wordVars => WordsInv'
<1> SUFFICES ASSUME WordsInv, [WordsNext]_wordVars PROVE WordsInv'
  OBVIOUS
<1>1. ASSUME UNCHANGED <<text, i, q, tok, toks, todo, args>>,
             \/ phase' = phase
             \/ phase = "globs" /\ phase' = "done" /\ (todo > Len(toks) \/ Len(args) >= MaxToks)
      PROVE  WordsInv'
  <2>1. WordsFit'
    BY <1>1 DEF WordsInv, WordsFit
  <2>2. ArgsFit'
    <3>1. Len(args) \in Nat /\ MaxToks \in Nat /\ Len(args) <= MaxToks
      BY WordsAssumption, LenProperties DEF WordsAssumption, WordsInv, ArgsFit
    <3>2. phase' = "done" => todo > Len(toks) \/ Len(args) = MaxToks
      <4>1. Len(args) >= MaxToks => Len(args) = MaxToks
        BY <3>1
      <4> QED BY <1>1, <4>1 DEF WordsInv, ArgsFit, WordsArrive
    <3>3. WordsArrive'
      BY <1>1, <3>2 DEF WordsInv, ArgsFit, WordsArrive
    <3> QED BY <1>1, <3>3 DEF WordsInv, ArgsFit
  <2>3. QuotesAgree'
    <3>1. CASE phase' = phase
      <4>1. (phase' = "blanks" /\ i' < Len(text) => q' = 0)
        BY <1>1, <3>1 DEF WordsInv, QuotesAgree, More
      <4>2. phase' \in {"word", "rest", "blanks"} /\ i' < Len(text) => Seen[i'] = [q |-> q', jumped |-> FALSE]
        BY <1>1, <3>1 DEF WordsInv, QuotesAgree, QuotesSeenAlike, More
      <4> QED BY <1>1, <4>1, <4>2, QuotesAnew
    <3>2. CASE phase' = "done"
      BY <3>2 DEF QuotesAgree, QuotesSeenAlike
    <3> QED BY <1>1, <3>1, <3>2
  <2> QED BY <2>1, <2>2, <2>3 DEF WordsInv
<1>2. CASE Expanded
  BY <1>1, <1>2 DEF Expanded
<1>3. CASE UNCHANGED wordVars
  BY <1>1, <1>3 DEF wordVars
<1>4. CASE WordsNext
  BY <1>2, <1>4, NextWordKeeps, OpenKeeps, EscapedKeeps, VariableKeeps, PlainKeeps, EndWordKeeps, RestKeeps,
     ExpandKeeps DEF WordsNext
<1> QED BY <1>3, <1>4

LEMMA WordsInvSuffices == WordsInv => QuotesSeenAlike /\ WordsArrive /\ BuffersFit
BY DEF WordsInv, WordsFit, ArgsFit, QuotesAgree, BuffersFit

\* Safety, for commands, values, directories and buffers of any sizes: find_unquoted() and
\* tokenize_env() agree on what is quoted, no buffer is overrun, and every word arrives in
\* its place until the arguments are full.
THEOREM LineIsReadAlike == WordsSpec => [](QuotesSeenAlike /\ WordsArrive /\ BuffersFit)
<1>1. WordsSpec => []WordsInv
  BY WordsInitFits, WordsStepKeeps, PTL DEF WordsSpec
<1> QED BY <1>1, WordsInvSuffices, PTL

----------------------------------------------------------------------------
(* All parts in one behaviour *)

PartsInv == JobsInv /\ EditInv /\ WordsInv /\ FnInv /\ EnvInv /\ HttpInv

LEMMA PartsInitFit == ShellInit => PartsInv
BY InitFits, EditInitFits, WordsInitFits, FnInitFits, EnvInitFits, HttpInitFits DEF ShellInit, PartsInv

LEMMA PartsStepKeeps == PartsInv /\ [ShellNext]_shellVars => PartsInv'
<1> SUFFICES ASSUME PartsInv, [ShellNext]_shellVars PROVE PartsInv'
  OBVIOUS
<1>1. /\ [JobsNext]_jobVars /\ [EditNext]_editVars /\ [WordsNext]_wordVars
      /\ [FnNext]_fnVars /\ [ShellEnvNext]_envVars /\ [HttpNext]_httpVars
  <2>1. CASE UNCHANGED shellVars
    BY <2>1 DEF shellVars
  <2>2. CASE Editing
    BY <2>2 DEF Editing, AndNet
  <2>3. CASE Parsing
    BY <2>3 DEF Parsing, AndNet
  <2>4. CASE Matching
    BY <2>4 DEF Matching, AndNet
  <2>5. CASE Exporting
    BY <2>5 DEF Exporting, AndNet
  <2>6. CASE OfJobs(JobsNext)
    BY <2>6 DEF OfJobs, AndNet
  <2>7. CASE Fetching
    BY <2>7 DEF Fetching, OfPrograms
  <2>8. CASE Securing
    BY <2>8 DEF Securing, OfPrograms
  <2> QED BY <2>1, <2>2, <2>3, <2>4, <2>5, <2>6, <2>7, <2>8 DEF ShellNext
<1> QED BY <1>1, StepKeeps, EditStepKeeps, WordsStepKeeps, FnStepKeeps, EnvStepKeeps,
         HttpStepKeeps DEF PartsInv

LEMMA PartsHold == ShellSpec => []PartsInv
<1>1. ShellSpec => ShellInit /\ [][ShellNext]_shellVars
  BY PTL DEF ShellSpec
<1>2. ShellInit /\ [][ShellNext]_shellVars => []PartsInv
  BY PartsInitFit, PartsStepKeeps, PTL
<1> QED BY <1>1, <1>2, PTL

\* Safety, whatever the sizes: the shell's table of jobs names children it has not reaped.
THEOREM TableStaysTrue == ShellSpec => []JobsAreChildren
<1>1. PartsInv => JobsAreChildren
  BY DEF PartsInv, JobsInv
<1> QED BY <1>1, PartsHold, PTL

\* Safety, whatever the sizes: the screen shows the line and the history its recent ones,
\* what cuts a line and what splits it see the same quotes, no word is lost, the buffers
\* hold, a pattern's verdict is right and a variable has the value it was given last.
THEOREM LineStaysUnderstood == ShellSpec => []LineIsUnderstood
<1>1. PartsInv => LineIsUnderstood
  BY EditIsEnough, WordsInvSuffices, FnInvSuffices, EnvIsEnough DEF PartsInv, LineIsUnderstood
<1> QED BY <1>1, PartsHold, PTL
============================================================================
