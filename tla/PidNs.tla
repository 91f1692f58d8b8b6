------------------------------- MODULE PidNs -------------------------------
(***************************************************************************)
(* Process identities: pid namespaces (unshare, nsenter, placement at      *)
(* fork), the names kill, waitpid and the Ctrl-C target resolve, cg_kill,  *)
(* and the log of exit codes that keeps a pid known after it was reaped    *)
(* (kernel/src/task/mod.rs).                                               *)
(*                                                                         *)
(* fork takes a pid and copies the parent's group in one critical section  *)
(* and inserts the child in a later one; cg_kill collects its targets in   *)
(* one and marks each in its own; every other operation is one step.  The  *)
(* code of a zombie is told by its mark: -9 if it was killed, else its own. *)
(***************************************************************************)
EXTENDS Naturals, Sequences, FiniteSets, FiniteSetsExt, Functions

CONSTANTS
    MaxPid,   \* bound of the model: pids handed out
    MaxNs,    \* bound of the model: namespaces besides the root's
    MaxCalls, \* bound of the model: calls of unshare, nsenter, cgenter, kill, cg_kill
    MaxLpid,  \* bound of the model: pids of one namespace
    LogLen,   \* length of REAPLOG
    NsBusy    \* tasks in the middle of fork or cg_kill at once: the harts

ASSUME NsAssumption == {MaxPid, MaxNs, MaxLpid, MaxCalls, LogLen, NsBusy} \subseteq Nat \ {0}

VARIABLES
    task,     \* procs: pid -> entry or Nobody
    nextPid,  \* next_pid
    ns,       \* ns[1..]: the next pid of every namespace but the root's
    reaplog,  \* REAPLOG, newest last
    forking,  \* per pid: the child fork is building, with the group it copied
    targets,  \* per pid: what cg_kill collected and has not marked yet
    marked,   \* per pid: how many it marked
    calls,    \* history: calls made of those MaxCalls bounds
    reaped,   \* history: all that was logged
    bornIn,   \* history: who came into group 1 since cg_kill collected
    emptied,  \* history: since then the group had no live member at some moment
    stopped   \* history: what cg_kill said when it returned, in that state only

nsVars == <<task, nextPid, ns, reaplog, forking, targets, marked,
            calls, reaped, bornIn, emptied, stopped>>

Pids   == 1 .. MaxPid
Nothing == [child |-> 0, cg |-> 0]
Group  == 1   \* the one control group besides the root's
Init1  == 1   \* init's pid

NewTask(par, n, l, g) ==
    [st |-> "Live", parent |-> par, ns |-> n, lpid |-> l, cg |-> g,
     pending |-> FALSE, killed |-> FALSE]
Nobody == [NewTask(0, 0, 0, 0) EXCEPT !.st = "None"]

Here      == {p \in Pids : task[p] # Nobody}
Zombie(p) == task[p].st = "Zombie"
Alive     == {p \in Here : ~Zombie(p)}

NsInit ==
    /\ task = [p \in Pids |-> IF p = Init1 THEN NewTask(0, 0, Init1, 0) ELSE Nobody]
    /\ nextPid = 2
    /\ ns = <<>>
    /\ reaplog = <<>>
    /\ forking = [p \in Pids |-> Nothing]
    /\ targets = [p \in Pids |-> {}]
    /\ marked = [p \in Pids |-> 0]
    /\ reaped = <<>>
    /\ calls = 0
    /\ bornIn = {}
    /\ emptied = FALSE
    /\ stopped = "unknown"

\* A task may start a system call: a killed one exits at the trap instead.
Calls(p) ==
    /\ p \in Alive
    /\ ~task[p].killed
    /\ forking[p] = Nothing
    /\ targets[p] = {}

Counted == calls < MaxCalls /\ calls' = calls + 1

MayStay == Cardinality({p \in Pids : forking[p] # Nothing \/ targets[p] # {}}) < NsBusy

Set(p, f, v) == task' = [task EXCEPT ![p][f] = v]
NamesKept == UNCHANGED <<nextPid, ns, reaplog, reaped>>
Stopping  == \E p \in Pids : targets[p] # {}
Deserted  == \A q \in Alive : task[q].cg # Group
Came(new) ==
    /\ bornIn' = IF Stopping THEN bornIn \cup new ELSE {}
    /\ emptied' = (Stopping /\ (emptied \/ Deserted'))
KillKept  == UNCHANGED <<targets, marked>> /\ Came({}) /\ stopped' = "unknown"

----------------------------------------------------------------------------
(* fork, unshare, nsenter *)

\* new_proc(), with the group of the parent copied before.
ForkPid(p) ==
    /\ Calls(p)
    /\ nextPid <= MaxPid
    /\ MayStay
    /\ nextPid' = nextPid + 1
    /\ forking' = [forking EXCEPT ![p] = [child |-> nextPid, cg |-> task[p].cg]]
    /\ UNCHANGED <<task, ns, reaplog, reaped, calls>> /\ KillKept

InNs(n) == {p \in Here : task[p].ns = n}

\* Mutant: zombies do not hold a namespace.
DeadNs_Alive == {n \in DOMAIN ns : {p \in Alive : task[p].ns = n} = {}}

\* Namespaces nobody in the table is in: the first is taken again.
DeadNs == {n \in DOMAIN ns : InNs(n) = {}}

NewNs == IF DeadNs = {} THEN Len(ns) + 1 ELSE Min(DeadNs)

\* Mutant: pids of a reused namespace go on from one.
Founded_One(n) == IF n > Len(ns) THEN Append(ns, 2) ELSE [ns EXCEPT ![n] = 1]

Founded(n) == IF n > Len(ns) THEN Append(ns, 2) ELSE [ns EXCEPT ![n] = 2]

Insert(p, entry) ==
    LET c == forking[p].child IN
    /\ task' = [task EXCEPT ![c] = entry, ![p].pending = FALSE]
    /\ forking' = [forking EXCEPT ![p] = Nothing]
    /\ Came(IF entry.cg = Group THEN {c} ELSE {})
    /\ stopped' = "unknown"
    /\ UNCHANGED <<nextPid, reaplog, targets, marked, reaped, calls>>

ForkFounds(p) ==
    /\ p \in Alive /\ forking[p] # Nothing /\ task[p].pending
    /\ NewNs <= MaxNs
    /\ ns' = Founded(NewNs)
    /\ Insert(p, NewTask(p, NewNs, 1, forking[p].cg))

ForkInherits(p) ==
    LET n == task[p].ns IN
    /\ p \in Alive /\ forking[p] # Nothing /\ ~task[p].pending
    /\ IF n = 0
       THEN ns' = ns /\ Insert(p, NewTask(p, 0, forking[p].child, forking[p].cg))
       ELSE /\ ns[n] <= MaxLpid
            /\ ns' = [ns EXCEPT ![n] = @ + 1]
            /\ Insert(p, NewTask(p, n, ns[n], forking[p].cg))

Unshare(p) ==
    /\ Calls(p)
    /\ Counted
    /\ Set(p, "pending", TRUE)
    /\ NamesKept /\ KillKept /\ UNCHANGED forking

\* Mutant: a namespace entered twice gives out the same pid twice.
Entered_Same(n) == ns

Entered(n) == [ns EXCEPT ![n] = @ + 1]

NsEnter(p, t) ==
    /\ Calls(p)
    /\ Counted
    /\ t \in Here
    /\ task[t].ns # 0
    /\ ns[task[t].ns] <= MaxLpid
    /\ task' = [task EXCEPT ![p].ns = task[t].ns, ![p].lpid = ns[task[t].ns]]
    /\ ns' = Entered(task[t].ns)
    /\ KillKept /\ UNCHANGED <<nextPid, reaplog, forking, reaped>>

\* cgenter(), of group 1 only.
CgJoin(p) ==
    /\ Calls(p)
    /\ Counted
    /\ Set(p, "cg", Group)
    /\ Came({p})
    /\ stopped' = "unknown"
    /\ NamesKept /\ UNCHANGED <<forking, targets, marked>>

----------------------------------------------------------------------------
(* kill, cg_kill *)

\* resolve_kill_target(): the caller's namespace first, else the global pid.
Resolve(p, n) ==
    LET own == {q \in InNs(task[p].ns) : task[q].lpid = n}
    IN IF own # {} THEN Min(own) ELSE n

\* Mutant: whatever happens to be in the slot is killed.
Mortal_Zombie(t) == t \in Here

\* kill_with() marks a task that is there and not a zombie.
Mortal(t) == t \in Alive

Kill(p, n) ==
    /\ Calls(p)
    /\ Counted
    /\ LET t == Resolve(p, n) IN Mortal(t) /\ Set(t, "killed", TRUE)
    /\ NamesKept /\ KillKept /\ UNCHANGED forking

\* Mutant: only the tasks the caller can see.
Victims_Seen(p) == {q \in Alive \ {p} : task[q].cg = Group /\ task[q].ns = task[p].ns}

Victims(p) == {q \in Alive \ {p} : task[q].cg = Group}

\* cg_kill(1) called from outside the group: what is in it, under the lock.
CgKillCollect(p) ==
    /\ Calls(p)
    /\ Counted
    /\ task[p].cg # Group
    /\ MayStay
    /\ ~Stopping
    /\ targets' = [targets EXCEPT ![p] = Victims(p)]
    /\ marked' = [marked EXCEPT ![p] = 0]
    /\ bornIn' = {}
    /\ emptied' = (Victims(p) = {})
    /\ stopped' = IF Victims(p) = {} THEN "empty" ELSE "unknown"
    /\ NamesKept /\ UNCHANGED <<task, forking>>

\* ... then one after the other, each in a critical section of its own.
CgKillOne(p) ==
    /\ p \in Alive
    /\ targets[p] # {}
    /\ LET t == Min(targets[p])
           n == marked[p] + (IF Mortal(t) THEN 1 ELSE 0)
           last == targets[p] = {t} IN
       /\ targets' = [targets EXCEPT ![p] = @ \ {t}]
       /\ marked' = [marked EXCEPT ![p] = IF last THEN 0 ELSE n]
       /\ IF Mortal(t) THEN Set(t, "killed", TRUE) ELSE task' = task
       /\ stopped' = IF ~last THEN "unknown" ELSE IF n = 0 THEN "none" ELSE "marked"
    /\ NamesKept /\ UNCHANGED <<forking, bornIn, emptied, calls>>

----------------------------------------------------------------------------
(* exit, waitpid *)

Orphans(p) == {q \in Here : task[q].parent = p}

\* exit(), by the task or for it at its next trap when it was killed.
Leave(p) ==
    /\ p \in Alive \ {Init1}
    /\ forking[p] = Nothing /\ targets[p] = {}
    /\ task' = [q \in Pids |->
         IF q = p THEN [task[q] EXCEPT !.st = "Zombie"]
         ELSE IF q \in Orphans(p) THEN [task[q] EXCEPT !.parent = Init1] ELSE task[q]]
    /\ KillKept /\ UNCHANGED <<nextPid, ns, reaplog, forking, reaped, calls>>

\* child_matches(): by global pid, or by pid within the waiter's namespace.
ChildMatches(p, n, c) == c = n \/ (task[c].ns = task[p].ns /\ task[c].lpid = n)

\* Mutant: the entry goes to the end of a full ring.
Logged_Stuck(e) == IF Len(reaplog) = LogLen THEN reaplog ELSE Append(reaplog, e)

\* Mutant: the ring grows.
Logged_Long(e) == Append(reaplog, e)

Logged(e) ==
    IF Len(reaplog) = LogLen THEN Append(Tail(reaplog), e) ELSE Append(reaplog, e)

\* waitpid(n) takes some zombie that matches out of the table and logs it, in
\* one critical section; n = 0 stands for any child.
WaitPid(p, n) ==
    \E c \in Orphans(p) :
      /\ Calls(p)
      /\ n = 0 \/ ChildMatches(p, n, c)
      /\ Zombie(c)
      /\ task' = [task EXCEPT ![c] = Nobody]
      /\ reaped' = Append(reaped, [pid |-> c, killed |-> task[c].killed])
      /\ reaplog' = Logged([pid |-> c, killed |-> task[c].killed])
      /\ KillKept /\ UNCHANGED <<nextPid, ns, forking, calls>>

NsNext ==
    \/ \E p \in Pids :
         \/ ForkPid(p) \/ ForkFounds(p) \/ ForkInherits(p)
         \/ Unshare(p) \/ CgJoin(p) \/ CgKillCollect(p) \/ CgKillOne(p) \/ Leave(p)
         \/ \E t \in Pids : NsEnter(p, t) \/ Kill(p, t)
         \/ \E n \in 0 .. MaxPid : WaitPid(p, n)

NsSpec == NsInit /\ [][NsNext]_nsVars

----------------------------------------------------------------------------

NsTypeOK ==
    /\ \A p \in Here : task[p].ns \in 0 .. Len(ns) /\ task[p].lpid \in Nat \ {0}
    /\ Len(reaplog) <= LogLen
    /\ nextPid \in 2 .. MaxPid + 1
    /\ \A p \in Pids : forking[p].child # 0 => task[forking[p].child] = Nobody

\* Safety.  Within a namespace no two tasks, zombies included, have one pid; in
\* the root namespace it is the global pid (fork, nsenter, reuse of dead slots).
LpidsUnique ==
    /\ \A p, q \in Here : p # q /\ task[p].ns = task[q].ns => task[p].lpid # task[q].lpid
    /\ \A p \in InNs(0) : task[p].lpid = p

\* Safety.  A pid fork has returned stays known: it is in the table, or the log
\* has the code it exited with, or as many others as the log is long were reaped
\* after it (waitpid, reapstat, pidinfo).
NoIdentityGap ==
    \A p \in Pids : p < nextPid /\ task[p] = Nobody /\ (\A q \in Pids : forking[q].child # p) =>
      \E i \in DOMAIN reaped :
        /\ reaped[i].pid = p
        /\ \/ reaped[i] \in Range(reaplog)
           \/ Len(reaped) - i >= LogLen

\* Safety.  After cg_kill returned, a member of the group that is not marked was
\* forked or entered since the members were collected.
StragglersAreNew ==
    stopped # "unknown" =>
      \A p \in Alive : task[p].cg = Group /\ ~task[p].killed => p \in bornIn

\* Action property.  Whatever name it is called by, a zombie is not marked: the
\* only things that happen to it are a new parent and its removal (kill_with).
ZombiesRest ==
    [][\A p \in Here : Zombie(p) =>
         task'[p] \in {task[p], [task[p] EXCEPT !.parent = Init1], Nobody}]_nsVars

\* Does not hold: "Prevents cross-namespace kills by small numbers"
\* (kernel/src/task/mod.rs:1708): a task inside a namespace marks only tasks of it.
KillStaysInside ==
    [][\A p, n \in Pids : Kill(p, n) /\ task[p].ns # 0 =>
         task[Resolve(p, n)].ns = task[p].ns]_nsVars

\* Does not hold: "an empty group returns 0, doubling as an 'is empty' probe"
\* (kernel/src/task/mod.rs:1670): when cg_kill marked nobody the group had no
\* live member at some moment of the call.
ZeroMeansEmpty == stopped \in {"empty", "none"} => emptied

\* Does not hold: kill(2) of the pid fork returned marks that child.
ForkedPidNamesChild ==
    \A p \in Alive : \A c \in Orphans(p) \cap Alive : Resolve(p, c) = c
============================================================================
