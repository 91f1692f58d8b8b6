-------------------------------- MODULE Ctr --------------------------------
(***************************************************************************)
(* The containers of ctr (user/ctr/src/main.rs): run, stop, rm, restart    *)
(* and exec, over the rootfs /ctr/<name>, its state file .pid and its run  *)
(* specification .run, and over the processes and groups of the kernel.    *)
(*                                                                         *)
(* A step is one system call, or one pass over the file system, that       *)
(* another ctr, a kill or a reboot can come between.  cgkill is one step   *)
(* here (PidNs has its own); a container's program does not fork.  Of the  *)
(* flags of a run the model keeps its memory limit.  Start ticks of two    *)
(* boots differ: a start is the number of its boot.                        *)
(***************************************************************************)
EXTENDS Naturals, FiniteSets, FiniteSetsExt

CONSTANTS
    Cmds,      \* runs of ctr
    Cts,       \* names of containers
    Quotas,    \* memory limits asked for; 0 = none
    MaxPid,    \* bound of the model: pids of one boot
    MaxGroup,  \* MAX_CG
    MaxBoot,   \* bound of the model: boots
    MaxCmds,   \* bound of the model: commands given
    MaxTries   \* rounds of stop_kill's poll

ASSUME CtrAssumption ==
    /\ {MaxPid, MaxGroup, MaxBoot, MaxCmds, MaxTries} \subseteq Nat \ {0}
    /\ Quotas \subseteq Nat

VARIABLES
    root,    \* names whose rootfs is there
    state,   \* name -> the state file
    spec,    \* name -> the run specification
    task,    \* pid -> process of a container, or the forked child that becomes one
    group,   \* group -> [used, limit]
    at,      \* command -> what it does next
    job,     \* command -> what it works on
    boot,    \* number of the boot
    given,   \* commands given
    broken,  \* history: names a run of which was cut off, or overlapped with another run or an rm
    said     \* history: the answer of a command that ends with this step

ctrVars == <<root, state, spec, task, group, at, job, boot, given, broken, said>>

CtrPids  == 1 .. MaxPid
Slots    == 1 .. MaxGroup
NoState  == [pid |-> 0, start |-> 0, cg |-> 0]   \* missing or cut off
NoSpec   == [of |-> <<0, 0>>, quota |-> 0]
NoTask   == [life |-> "none", ct |-> "none", cg |-> 0, to |-> 0, step |-> "none", start |-> 0,
             killed |-> FALSE, quota |-> 0, via |-> 0]
NoGroup  == [made |-> FALSE, used |-> FALSE, limit |-> 0]
NoJob    == [op |-> "none", ct |-> "none", detached |-> FALSE, force |-> FALSE, quota |-> 0,
             cg |-> 0, pid |-> 0, start |-> 0, tries |-> 0, gone |-> FALSE]
Nothing  == [what |-> "nothing", pid |-> 0, ct |-> "none"]

CtrInit ==
    /\ root = Cts
    /\ state = [n \in Cts |-> NoState] /\ spec = [n \in Cts |-> NoSpec]
    /\ task = [p \in CtrPids |-> NoTask]
    /\ group = [g \in Slots |-> NoGroup]
    /\ at = [c \in Cmds |-> "idle"] /\ job = [c \in Cmds |-> NoJob]
    /\ boot = 1 /\ given = 0
    /\ broken = {} /\ said = Nothing

----------------------------------------------------------------------------
(* The kernel *)

InTable == {p \in CtrPids : task[p].life \in {"live", "zombie"}}
Living  == {p \in CtrPids : task[p].life = "live"}
In(g)   == {p \in InTable : task[p].cg = g}
Fresh   == {p \in CtrPids : task[p] = NoTask}

\* cgcreate(): a slot not made yet, or one that was entered and left.
Free == {g \in Slots : ~group[g].made \/ (group[g].used /\ In(g) = {})}

\* kill() marks the living.
Marked(S) == [p \in CtrPids |-> IF p \in S \cap Living THEN [task[p] EXCEPT !.killed = TRUE] ELSE task[p]]

\* pidinfo(): alive, and started when the state file says.
Alive(pid, start) == pid \in Living /\ task[pid].start = start

----------------------------------------------------------------------------
(* Commands *)

Files  == <<root, state, spec>>
Kernel == <<task, group, boot>>
J(c)   == job[c]
Does(c, l) == at[c] = l
Next_(c, l) == at' = [at EXCEPT ![c] = l]
Quiet_ == said' = Nothing

Ends(c, what) ==
    /\ at' = [at EXCEPT ![c] = "idle"]
    /\ job' = [job EXCEPT ![c] = NoJob]
    /\ said' = [what |-> what, pid |-> J(c).pid, ct |-> J(c).ct]

Running(n) == {c \in Cmds : J(c).ct = n /\ J(c).op = "run"}

Give(c, op, n, first) ==
    /\ Does(c, "idle") /\ given < MaxCmds
    /\ given' = given + 1
    /\ Next_(c, first) /\ Quiet_
    /\ broken' = broken \cup {m \in {n} : op = "run" /\ Running(n) # {}}
    /\ UNCHANGED <<Files, Kernel>>

\* ctr run: the probe of the rootfs never fails (getdents of nothing is empty);
\* the log of a detached run is opened in it.
Run(c, n, d, q) ==
    /\ d => n \in root
    /\ Give(c, "run", n, "create")
    /\ job' = [job EXCEPT ![c] = [NoJob EXCEPT !.op = "run", !.ct = n, !.detached = d, !.quota = q]]

\* ctr stop, rm, rm -f, restart and exec begin with the state file.
Begin(c, op, n, f) ==
    /\ Give(c, op, n, "read")
    /\ job' = [job EXCEPT ![c] = [NoJob EXCEPT !.op = op, !.ct = n, !.force = f]]

\* A private group, and its limit.
Create(c) ==
    /\ Does(c, "create")
    /\ IF Free = {} THEN Ends(c, "failed") /\ UNCHANGED group
       ELSE /\ group' = [group EXCEPT ![Min(Free)] = [made |-> TRUE, used |-> FALSE, limit |-> 0]]
            /\ job' = [job EXCEPT ![c].cg = Min(Free)]
            /\ Next_(c, "limit") /\ Quiet_
    /\ UNCHANGED <<Files, task, boot, given, broken>>

Limit(c) ==
    /\ Does(c, "limit")
    /\ group' = [group EXCEPT ![J(c).cg].limit = J(c).quota]
    /\ Next_(c, "fork") /\ Quiet_
    /\ UNCHANGED <<Files, task, boot, job, given, broken>>

\* fork(): the child enters the group and the jail by itself.
Fork(c) ==
    /\ Does(c, "fork") /\ Fresh # {}
    /\ LET p == Min(Fresh) IN
       /\ task' = [task EXCEPT ![p] = [life |-> "live", ct |-> J(c).ct, cg |-> 0, to |-> J(c).cg,
            step |-> IF J(c).op = "exec" THEN "nsenter" ELSE "cgenter",
            start |-> boot, killed |-> FALSE, quota |-> J(c).quota, via |-> J(c).pid]]
       /\ job' = [job EXCEPT ![c].pid = p]
    /\ Next_(c, IF J(c).op = "run" /\ J(c).detached THEN "info" ELSE "wait") /\ Quiet_
    /\ UNCHANGED <<Files, group, boot, given, broken>>

\* "ctr: fork failed": the group that was made stays, unused.
ForkFails(c) ==
    /\ Does(c, "fork")
    /\ Next_(c, "idle") /\ job' = [job EXCEPT ![c] = NoJob]
    /\ said' = [Nothing EXCEPT !.what = "failed"]  \* of no process
    /\ UNCHANGED <<Files, Kernel, given, broken>>

\* wait_for(), and the exit with the child's code.
Wait(c) ==
    /\ Does(c, "wait") /\ task[J(c).pid].life = "zombie"
    /\ task' = [task EXCEPT ![J(c).pid].life = "gone"]
    /\ Ends(c, "ended")
    /\ UNCHANGED <<Files, group, boot, given, broken>>

\* pidinfo() of the child: a zombie's is negative.
Info(c) ==
    /\ Does(c, "info")
    /\ IF J(c).pid \in Living
       THEN Next_(c, "truncate") /\ Quiet_ /\ job' = [job EXCEPT ![c].start = boot]
       ELSE Ends(c, "failed")
    /\ UNCHANGED <<Files, Kernel, given, broken>>

\* Mutant: the child of a run whose state cannot be written goes on.
Abandon_Run(p) == task

\* "never leave an orphan we cannot track"
Abandon(p) == Marked({p})

\* write_state() and write_runspec(): created or emptied, then written.
Open(c) ==
    LET n == J(c).ct  s == Does(c, "truncate") IN
    /\ Does(c, "truncate") \/ Does(c, "retruncate")
    /\ IF n \notin root
       THEN task' = Abandon(J(c).pid) /\ Ends(c, "failed") /\ UNCHANGED <<state, spec>>
       ELSE /\ state' = IF s THEN [state EXCEPT ![n] = NoState] ELSE state
            /\ spec' = IF s THEN spec ELSE [spec EXCEPT ![n] = NoSpec]
            /\ Next_(c, IF s THEN "state" ELSE "spec") /\ Quiet_ /\ UNCHANGED <<task, job>>
    /\ UNCHANGED <<root, group, boot, given, broken>>

\* The file may have been removed meanwhile: what is written is then lost.
WriteState(c) ==
    LET n == J(c).ct IN
    /\ Does(c, "state")
    /\ state' = IF n \in root THEN [state EXCEPT ![n] = [pid |-> J(c).pid, start |-> J(c).start, cg |-> J(c).cg]]
                ELSE state
    /\ Next_(c, "retruncate") /\ Quiet_
    /\ UNCHANGED <<root, spec, Kernel, job, given, broken>>

\* Mutant: the specification leaves the limit out.
Specified_Bare(j) == [of |-> <<boot, j.pid>>, quota |-> 0]

Specified(j) == [of |-> <<boot, j.pid>>, quota |-> j.quota]

WriteSpec(c) ==
    LET n == J(c).ct IN
    /\ Does(c, "spec")
    /\ spec' = IF n \in root THEN [spec EXCEPT ![n] = Specified(J(c))] ELSE spec
    /\ Ends(c, "detached")
    /\ UNCHANGED <<root, state, Kernel, given, broken>>

----------------------------------------------------------------------------
(* The child *)

Step(p, s) == p \in Living /\ ~task[p].killed /\ task[p].step = s
Dies(p)    == task' = [task EXCEPT ![p].life = "zombie"]
ChildKept  == UNCHANGED <<Files, boot, at, job, given, broken>> /\ Quiet_

\* exec: the pid namespace is that of the container's first process, alive or a zombie.
NsEnter_(p) ==
    /\ Step(p, "nsenter")
    /\ IF task[p].via \in InTable THEN task' = [task EXCEPT ![p].step = "cgenter"] ELSE Dies(p)
    /\ ChildKept /\ UNCHANGED group

CgEnter(p) ==
    /\ Step(p, "cgenter")
    /\ task' = [task EXCEPT ![p].cg = task[p].to, ![p].step = "jail"]
    /\ group' = [group EXCEPT ![task[p].to].used = TRUE]
    /\ ChildKept

\* The volumes, chroot, chdir, the log and exec.
Jail(p) ==
    /\ Step(p, "jail")
    /\ IF task[p].ct \in root THEN task' = [task EXCEPT ![p].step = "program"] ELSE Dies(p)
    /\ ChildKept /\ UNCHANGED group

\* The program ends, or a killed process leaves at its next trap.
Leaves(p) ==
    /\ p \in Living /\ (task[p].killed \/ task[p].step = "program")
    /\ Dies(p) /\ ChildKept /\ UNCHANGED group

\* init reaps what no command waits for.
InitReaps(p) ==
    /\ task[p].life = "zombie"
    /\ \A c \in Cmds : J(c).pid = p => J(c).op \notin {"run", "exec"}
    /\ task' = [task EXCEPT ![p].life = "gone"]
    /\ ChildKept /\ UNCHANGED group

----------------------------------------------------------------------------
(* stop, rm, restart, exec *)

\* read_state()
ReadState(c) ==
    LET s == state[J(c).ct] IN
    /\ Does(c, "read")
    /\ IF s = NoState /\ J(c).op # "rm" THEN Ends(c, "unknown")
       ELSE /\ job' = [job EXCEPT ![c].pid = s.pid, ![c].start = s.start, ![c].cg = s.cg]
            /\ Next_(c, IF J(c).op = "restart" THEN "readspec" ELSE IF s = NoState THEN "remove" ELSE "look")
            /\ Quiet_
    /\ UNCHANGED <<Files, Kernel, given, broken>>

ReadSpec(c) ==
    /\ Does(c, "readspec")
    /\ IF spec[J(c).ct] = NoSpec THEN Ends(c, "unknown")
       ELSE Next_(c, "look") /\ Quiet_ /\ job' = [job EXCEPT ![c].quota = spec[J(c).ct].quota]
    /\ UNCHANGED <<Files, Kernel, given, broken>>

\* What follows the stop of a container, or that it was not alive.
After(c, what) ==
    CASE J(c).op = "stop"    -> Ends(c, what)
      [] J(c).op = "rm"      -> Next_(c, "remove") /\ Quiet_ /\ UNCHANGED job
      [] J(c).op = "restart" ->
           /\ Next_(c, "create") /\ Quiet_
           /\ job' = [job EXCEPT ![c] = [NoJob EXCEPT !.op = "run", !.ct = J(c).ct,
                        !.detached = TRUE, !.quota = J(c).quota]]
      [] J(c).op = "exec"    -> Ends(c, "not running")

Restarts(c) == broken' = broken \cup {n \in {J(c).ct} : J(c).op = "restart" /\ Running(n) # {}}

\* state_alive() before anything is done.
Look(c) ==
    /\ Does(c, "look")
    /\ IF ~Alive(J(c).pid, J(c).start) THEN After(c, "already exited") /\ Restarts(c)
       ELSE /\ UNCHANGED broken
            /\ CASE J(c).op = "exec" -> Next_(c, "fork") /\ Quiet_ /\ UNCHANGED job
                 [] J(c).op = "rm" /\ ~J(c).force -> Ends(c, "running")
                 [] OTHER -> Next_(c, "kill") /\ Quiet_ /\ UNCHANGED job
    /\ UNCHANGED <<Files, Kernel, given>>

\* stop_kill() kills the group ...
KillGroup(c) ==
    /\ Does(c, "kill")
    /\ task' = Marked(In(J(c).cg))
    /\ Next_(c, "gone") /\ Quiet_
    /\ UNCHANGED <<Files, group, boot, job, given, broken>>

\* Mutant: a zombie counts as gone.
Gone_Zombie(p) == p \notin Living

\* pidinfo() = -1
Gone(p) == p \notin InTable

\* ... and polls until the first process is gone and the group, asked by killing it
\* again, is empty.
PollGone(c) ==
    /\ Does(c, "gone")
    /\ job' = [job EXCEPT ![c].gone = Gone(J(c).pid)]
    /\ Next_(c, "empty") /\ Quiet_
    /\ UNCHANGED <<Files, Kernel, given, broken>>

\* Mutant: only the group is waited for.
Done_Group(c) == In(J(c).cg) \cap Living = {}

Done(c) == J(c).gone /\ In(J(c).cg) \cap Living = {}

PollEmpty(c) ==
    /\ Does(c, "empty")
    /\ task' = Marked(In(J(c).cg))
    /\ IF Done(c) THEN After(c, "stopped") /\ Restarts(c)
       ELSE /\ UNCHANGED broken
            /\ IF J(c).tries + 1 = MaxTries THEN Ends(c, "timeout")
               ELSE Next_(c, "gone") /\ Quiet_ /\ job' = [job EXCEPT ![c].tries = @ + 1]
    /\ UNCHANGED <<Files, group, boot, given>>

\* rm_all()
RemoveRootfs(c) ==
    LET n == J(c).ct IN
    /\ Does(c, "remove")
    /\ root' = root \ {n}
    /\ state' = [state EXCEPT ![n] = NoState]
    /\ spec' = [spec EXCEPT ![n] = NoSpec]
    /\ Ends(c, IF n \in root THEN "removed" ELSE "failed")
    /\ broken' = broken \cup {m \in {n} : Running(n) # {}}
    /\ UNCHANGED <<Kernel, given>>

----------------------------------------------------------------------------
(* Faults, and ctr pull *)

\* kill -9 of ctr itself.
Cut(c) ==
    /\ at[c] # "idle"
    /\ Ends(c, "cut off")
    /\ broken' = broken \cup {n \in {J(c).ct} : J(c).op = "run"}
    /\ UNCHANGED <<Files, Kernel, given>>

\* Processes and groups go, the files stay.
Reboot ==
    /\ boot < MaxBoot /\ boot' = boot + 1
    /\ task' = [p \in CtrPids |-> NoTask]
    /\ group' = [g \in Slots |-> NoGroup]
    /\ at' = [c \in Cmds |-> "idle"] /\ job' = [c \in Cmds |-> NoJob]
    /\ broken' = broken \cup {J(c).ct : c \in {d \in Cmds : J(d).op = "run"}}
    /\ Quiet_
    /\ UNCHANGED <<Files, given>>

\* ctr pull unpacks the image into the rootfs.
Pull(c, n) ==
    /\ Does(c, "idle") /\ given < MaxCmds
    /\ given' = given + 1
    /\ root' = root \cup {n}
    /\ Quiet_
    /\ UNCHANGED <<state, spec, Kernel, at, job, broken>>

CtrNext ==
    \/ \E c \in Cmds :
         \/ \E n \in Cts :
              \/ \E d \in BOOLEAN, q \in Quotas : Run(c, n, d, q)
              \/ \E op \in {"stop", "restart", "exec"} : Begin(c, op, n, FALSE)
              \/ \E f \in BOOLEAN : Begin(c, "rm", n, f)
              \/ Pull(c, n)
         \/ Create(c) \/ Limit(c) \/ Fork(c) \/ ForkFails(c) \/ Wait(c) \/ Info(c)
         \/ Open(c) \/ WriteState(c) \/ WriteSpec(c)
         \/ ReadState(c) \/ ReadSpec(c) \/ Look(c) \/ KillGroup(c) \/ PollGone(c) \/ PollEmpty(c)
         \/ RemoveRootfs(c) \/ Cut(c)
    \/ \E p \in CtrPids : NsEnter_(p) \/ CgEnter(p) \/ Jail(p) \/ Leaves(p) \/ InitReaps(p)
    \/ Reboot

CtrSpec == CtrInit /\ [][CtrNext]_ctrVars

----------------------------------------------------------------------------

\* Safety.  When stop says "stopped", no process of that container runs its program
\* or can come to, but one that ctr exec is about to bring into the group, or one of
\* another run of the name (stop_kill, though the first process may enter its group late).
StoppedIsOver ==
    said.what = "stopped" =>
      /\ said.pid \notin InTable
      /\ \A p \in Living : task[p].via = said.pid => task[p].step \in {"nsenter", "cgenter"}

\* Safety.  A detached run leaves no process nobody can stop: when it fails its child
\* is dead or marked; when it succeeds the state file names it, or the child of a
\* later run, unless an rm came between (cmd_run, "never leave an orphan we cannot track").
TrackedOrKilled ==
    /\ said.what = "failed" /\ said.pid # 0 => said.pid \notin Living \/ task[said.pid].killed
    /\ said.what = "detached" /\ said.ct \notin broken => state[said.ct].pid = said.pid

\* Safety.  restart repeats the run the state file is of, with its limit: the
\* specification is of the same run when that is done, unless it was cut off or
\* overlapped with another run or an rm.
RestartRepeats ==
    \A n \in Cts \ broken : state[n] # NoState /\ Running(n) = {} =>
      /\ spec[n].of = <<state[n].start, state[n].pid>>
      /\ Alive(state[n].pid, state[n].start) => spec[n].quota = task[state[n].pid].quota

\* Does not hold: requested is effective.  A program brought in by exec before the
\* container's first process has entered the group leaves it used and empty: the next
\* run gets the group, and the first process enters it all the same (main.rs:238).
QuotaIsEffective ==
    \A p \in Living : task[p].via = 0 /\ task[p].step \in {"jail", "program"} =>
      group[task[p].cg].limit = task[p].quota

\* Does not hold: a run in the foreground has no state file, and a second run -d
\* replaces the first one's (main.rs:1507, "refuse to delete a live container").
RemoveSparesTheLiving ==
    said.what = "removed" => \A p \in Living : task[p].ct = said.ct => task[p].killed

\* Does not hold: while stop polls the group may be emptied and become another
\* container's (main.rs:1383, "groups are never deleted ... never kill blind").
StopKillsItsOwn ==
    [][\A c \in Cmds, p \in CtrPids :
         at[c] \in {"kill", "empty"} /\ at'[c] # at[c] /\ ~task[p].killed /\ task'[p].killed =>
           task[p].ct = J(c).ct]_ctrVars
============================================================================
