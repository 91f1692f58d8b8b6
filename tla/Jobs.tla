-------------------------------- MODULE Jobs --------------------------------
(***************************************************************************)
(* The processes of the shell (user/sh/src/main.rs) and of init, which     *)
(* starts it again when it has died (user/init/src/main.rs): commands run  *)
(* in the foreground, pipes, background jobs and their table, fg, kill,    *)
(* halt, and the foreground pid that Ctrl-C kills.                         *)
(*                                                                         *)
(* A process is one fork of init or of the shell; what it runs is left out *)
(* but for its end, which comes when it likes.  Pids do not repeat within  *)
(* a boot (task/mod.rs: next_pid).                                         *)
(***************************************************************************)
EXTENDS Naturals, Sequences, FiniteSets, SequencesExt

CONSTANTS
    MaxPid,   \* bound of the model: forks in a boot
    NJobs,    \* slots of the jobs table
    MaxCmds   \* bound of the model: commands given

ASSUME JobsAssumption == MaxPid \in Nat \ {0} /\ {NJobs, MaxCmds} \subseteq Nat

VARIABLES
    st,       \* pid -> "unborn", "live", "zombie" or "gone"
    par,      \* pid -> its parent's pid; Nobody is init
    killed,   \* processes marked by kill or Ctrl-C
    fg,       \* FG_PID
    initAt,   \* init: "fork" or "wait"
    shPid,    \* the shell init waits for
    doing,       \* the shell: "poll", "read", "wait", "capture", "drain", "off" or "dead"
    waits,    \* the pids it still has to wait for, Nobody for any (-1)
    refg,     \* it takes the foreground back after them
    jobs,     \* the table: slot -> pid or Nobody
    cmds      \* commands given so far

jobVars == <<st, par, killed, fg, initAt, shPid, doing, waits, refg, jobs, cmds>>

Pids   == 1 .. MaxPid
Nobody == 0
Slots  == 1 .. NJobs
NoJobs == [j \in Slots |-> Nobody]

Live(p)     == p \in Pids /\ st[p] = "live"
Children(p) == {c \in Pids : par[c] = p /\ st[c] \in {"live", "zombie"}}
Zombies(p)  == {c \in Children(p) : st[c] = "zombie"}
Next_(k)    == CHOOSE p \in Pids : Cardinality({q \in Pids : st[q] # "unborn"}) + k = p
CanFork(k)  == Cardinality({q \in Pids : st[q] # "unborn"}) + k <= MaxPid

\* Init has started the shell, and its autorun the web server or not (spawn_one).
JobsInit ==
    /\ \E server \in BOOLEAN :
         /\ st = [p \in Pids |-> IF p = 1 \/ (p = 2 /\ server) THEN "live" ELSE "unborn"]
         /\ par = [p \in Pids |-> IF p = 2 /\ server THEN 1 ELSE Nobody]
    /\ killed = {} /\ fg = 1
    /\ initAt = "wait" /\ shPid = 1
    /\ doing = "poll" /\ waits = <<>> /\ refg = FALSE
    /\ jobs = NoJobs /\ cmds = 0

----------------------------------------------------------------------------
(* Processes *)

Forked(P) ==
    /\ st' = [p \in Pids |-> IF p \in P THEN "live" ELSE st[p]]
    /\ par' = [p \in Pids |-> IF p \in P THEN shPid ELSE par[p]]

Reaped(c) == st' = [st EXCEPT ![c] = "gone"]

\* exit(): the children of the shell become init's.
Exit(p) ==
    /\ Live(p)
    /\ p = shPid => p \in killed
    /\ st' = [st EXCEPT ![p] = "zombie"]
    /\ par' = [c \in Pids |-> IF par[c] = p THEN Nobody ELSE par[c]]
    /\ IF p = shPid
         THEN doing' = "dead" /\ waits' = <<>> /\ refg' = FALSE /\ jobs' = NoJobs
         ELSE UNCHANGED <<doing, waits, refg, jobs>>
    /\ UNCHANGED <<killed, fg, initAt, shPid, cmds>>

\* kill_fg()
Interrupt ==
    /\ Live(fg)
    /\ killed' = killed \cup {fg}
    /\ UNCHANGED <<st, par, fg, initAt, shPid, doing, waits, refg, jobs, cmds>>

----------------------------------------------------------------------------
(* Init *)

InitForks ==
    /\ initAt = "fork" /\ CanFork(1)
    /\ shPid' = Next_(1)
    /\ st' = [st EXCEPT ![Next_(1)] = "live"]
    /\ fg' = Next_(1)
    /\ initAt' = "wait" /\ doing' = "poll"
    /\ UNCHANGED <<par, killed, waits, refg, jobs, cmds>>

\* Mutant: whoever is reaped, the shell is started again.
IsShell_Any(w) == TRUE

\* Orphans are reaped, and init keeps waiting for the shell.
IsShell(w) == w = shPid

InitReaps ==
    /\ initAt = "wait"
    /\ \E w \in Zombies(Nobody) :
         /\ Reaped(w)
         /\ initAt' = IF IsShell(w) THEN "fork" ELSE "wait"
    /\ UNCHANGED <<par, killed, fg, shPid, doing, waits, refg, jobs, cmds>>

----------------------------------------------------------------------------
(* The table of jobs *)

Without(pid) ==
    LET J == {j \in Slots : jobs[j] = pid}
    IN  IF J = {} THEN jobs ELSE [jobs EXCEPT ![CHOOSE j \in J : \A k \in J : j <= k] = Nobody]

FreeSlots == {j \in Slots : jobs[j] = Nobody}

JobsAdd(pid) == [jobs EXCEPT ![CHOOSE j \in FreeSlots : \A k \in FreeSlots : j <= k] = pid]

\* wait() and waitpid() take the first zombie of the list of children.
First(Z) == CHOOSE c \in Z : \A d \in Z : c <= d

\* Mutant: a blocking wait().
PollWaits_Blocking == Children(shPid) # {} /\ Zombies(shPid) = {}

\* WNOHANG: with no zombie there is nothing to wait for.
PollWaits == FALSE

\* reap_poll()
ReapPoll ==
    IF Zombies(shPid) = {} THEN UNCHANGED <<st, jobs>>
    ELSE Reaped(First(Zombies(shPid))) /\ jobs' = Without(First(Zombies(shPid)))

Poll ==
    /\ doing = "poll" /\ ~PollWaits
    /\ ReapPoll
    /\ doing' = "read"
    /\ UNCHANGED <<par, killed, fg, initAt, shPid, waits, refg, cmds>>

----------------------------------------------------------------------------
(* Commands *)

Given ==
    /\ doing = "read" /\ cmds < MaxCmds
    /\ cmds' = cmds + 1
    /\ UNCHANGED <<initAt, shPid>>

Waits(w, take) == doing' = "wait" /\ waits' = w /\ refg' = take
Prompts        == doing' = "poll" /\ UNCHANGED <<waits, refg>>

\* exec_cmd(), run_args(): without a child there is nothing to do.
Exec ==
    /\ Given /\ CanFork(1)
    /\ Forked({Next_(1)}) /\ fg' = Next_(1) /\ Waits(<<Next_(1)>>, TRUE)
    /\ UNCHANGED <<killed, jobs>>

\* A fork that fails.
ExecFails ==
    /\ Given /\ Prompts
    /\ UNCHANGED <<st, par, killed, fg, jobs>>

\* run_pipe(): the foreground is the second program, and the first is waited for first.
Pipe ==
    /\ Given /\ CanFork(2)
    /\ Forked({Next_(1), Next_(2)}) /\ fg' = Next_(2)
    /\ Waits(<<Next_(1), Next_(2)>>, TRUE)
    /\ UNCHANGED <<killed, jobs>>

\* The result of a fork that failed is waited for too, and -1 is any child.
PipeFails ==
    /\ Given
    /\ \/ /\ CanFork(1) /\ Forked({Next_(1)})
          /\ \/ fg' = Next_(1) /\ Waits(<<Nobody, Next_(1)>>, TRUE)
             \/ fg' = Nobody /\ Waits(<<Next_(1), Nobody>>, TRUE)
       \/ fg' = Nobody /\ Waits(<<Nobody, Nobody>>, TRUE) /\ UNCHANGED <<st, par>>
    /\ UNCHANGED <<killed, jobs>>

\* exec_bg(): when the table is full the job is waited for, the shell in the foreground.
Background ==
    /\ Given /\ CanFork(1)
    /\ Forked({Next_(1)})
    /\ IF FreeSlots = {} THEN Waits(<<Next_(1)>>, FALSE) /\ UNCHANGED jobs
       ELSE Prompts /\ jobs' = JobsAdd(Next_(1))
    /\ UNCHANGED <<killed, fg>>

\* fg_job(): one of the table, or the last in it.
LastJob == jobs[CHOOSE j \in Slots \ FreeSlots : \A k \in Slots \ FreeSlots : k <= j]

FgJob(p) ==
    /\ Given
    /\ p # Nobody /\ p \in Range(jobs)
    /\ fg' = p /\ Waits(<<p>>, TRUE)
    /\ UNCHANGED <<st, par, killed, jobs>>

FgLast == FreeSlots # Slots /\ FgJob(LastJob)

Kill(p) ==
    /\ Given /\ Prompts
    /\ Live(p) /\ killed' = killed \cup {p}
    /\ UNCHANGED <<st, par, fg, jobs>>

ListJobs ==
    /\ Given /\ Prompts
    /\ ReapPoll
    /\ UNCHANGED <<par, killed, fg>>

Halt ==
    /\ Given
    /\ doing' = "drain"
    /\ UNCHANGED <<st, par, killed, fg, waits, refg, jobs>>

\* run_capture(): the child runs a command line of its own, and its exec_cmd()
\* makes it the foreground in the end.
Capture ==
    /\ Given /\ CanFork(1)
    /\ Forked({Next_(1)}) /\ doing' = "capture" /\ waits' = <<Next_(1)>>
    /\ UNCHANGED <<killed, fg, refg, jobs>>

CaptureSetsFg ==
    /\ doing = "capture" /\ Live(Head(waits))
    /\ fg' = Head(waits)
    /\ UNCHANGED <<st, par, killed, initAt, shPid, doing, waits, refg, jobs, cmds>>

\* waitpid(pid, WNOHANG) until it is reaped; no bg_done().
CaptureEnds ==
    /\ doing = "capture" /\ st[Head(waits)] = "zombie"
    /\ Reaped(Head(waits)) /\ fg' = shPid
    /\ doing' = "poll" /\ waits' = <<>>
    /\ UNCHANGED <<par, killed, initAt, shPid, refg, jobs, cmds>>

----------------------------------------------------------------------------
(* Waiting *)

\* Mutant: the child waited for keeps its slot.
AfterWait_Kept(w) == jobs

AfterWait(w) == Without(w)

\* wait_foreground() of one child: it is reaped, or is no child any more.
WaitOne ==
    /\ doing = "wait" /\ waits # <<>> /\ Head(waits) # Nobody
    /\ LET w == Head(waits) IN
         IF w \in Children(shPid)
           THEN w \in Zombies(shPid) /\ Reaped(w) /\ jobs' = AfterWait(w)
           ELSE UNCHANGED <<st, jobs>>
    /\ waits' = Tail(waits)
    /\ UNCHANGED <<par, killed, fg, initAt, shPid, doing, refg, cmds>>

\* wait_foreground(-1): every child, until none is left.
WaitAny ==
    /\ doing = "wait" /\ waits # <<>> /\ Head(waits) = Nobody
    /\ IF Children(shPid) = {}
         THEN waits' = Tail(waits) /\ UNCHANGED <<st, jobs>>
         ELSE /\ Zombies(shPid) # {}
              /\ Reaped(First(Zombies(shPid))) /\ jobs' = Without(First(Zombies(shPid)))
              /\ UNCHANGED waits
    /\ UNCHANGED <<par, killed, fg, initAt, shPid, doing, refg, cmds>>

Waited ==
    /\ doing = "wait" /\ waits = <<>>
    /\ fg' = IF refg THEN shPid ELSE fg
    /\ doing' = "poll" /\ refg' = FALSE
    /\ UNCHANGED <<st, par, killed, initAt, shPid, waits, jobs, cmds>>

\* drain_jobs(), then shutdown().
Drain ==
    /\ doing = "drain"
    /\ IF jobs = NoJobs \/ Children(shPid) = {}
         THEN doing' = "off" /\ UNCHANGED <<st, jobs>>
         ELSE /\ Zombies(shPid) # {}
              /\ Reaped(First(Zombies(shPid))) /\ jobs' = Without(First(Zombies(shPid)))
              /\ UNCHANGED doing
    /\ UNCHANGED <<par, killed, fg, initAt, shPid, waits, refg, cmds>>

----------------------------------------------------------------------------

ShellRuns == Live(shPid) /\ doing # "off"

ShellSteps == Poll \/ CaptureEnds \/ WaitOne \/ WaitAny \/ Waited \/ Drain

JobsNext ==
    \/ /\ ShellRuns
       /\ \/ ShellSteps \/ CaptureSetsFg
          \/ Exec \/ ExecFails \/ Pipe \/ PipeFails \/ Background \/ FgLast
          \/ ListJobs \/ Halt \/ Capture
          \/ \E p \in Pids : FgJob(p) \/ Kill(p)
    \/ /\ doing # "off"
       /\ InitForks \/ InitReaps \/ Interrupt \/ \E p \in Pids : Exit(p)

\* The shell goes on when it can, and a program it waits for ends; others need not.
AwaitedEnds(p) == ShellRuns /\ p \in Range(waits) /\ Exit(p)
JobsFairness ==
    /\ WF_jobVars(ShellRuns /\ ShellSteps)
    /\ \A p \in Pids : WF_jobVars(AwaitedEnds(p))

JobsSpec     == JobsInit /\ [][JobsNext]_jobVars
FairJobsSpec == JobsSpec /\ JobsFairness

----------------------------------------------------------------------------

\* Safety.  The table names children of the shell that have not been reaped, each
\* once: a job that ended is not left in it, whichever wait found it (v0.7).
JobsAreChildren ==
    /\ \A j \in Slots : jobs[j] # Nobody => jobs[j] \in Children(shPid)
    /\ \A j, k \in Slots : jobs[j] = jobs[k] /\ j # k => jobs[j] = Nobody

\* Safety.  Init starts a shell when the last one is dead, whatever orphans it reaps.
OneShell == [][shPid' # shPid => ~Live(shPid)]_jobVars

\* Liveness.  The shell comes back to its prompt, background jobs and servers that
\* never end notwithstanding.
PromptReturns ==
    /\ doing = "poll" ~> doing # "poll"
    /\ doing = "wait" /\ Nobody \notin Range(waits) ~> doing # "wait"
    /\ doing = "capture" ~> doing # "capture"

\* Does not hold: after a fork of a pipe has failed, every child is waited for.
PromptAlwaysReturns == doing = "wait" ~> doing # "wait"
============================================================================
