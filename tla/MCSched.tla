------------------------------ MODULE MCSched ------------------------------
\* Sched and RunQueue, one of them in a behaviour: all harts of Sched, one hart of it
\* alone (part is that hart), or the NHarts harts of RunQueue.
EXTENDS Sched, TLC

CONSTANTS  \* of RunQueue, declared there
    NHarts, Tasks, NoTask, Groups, NoGroup, GroupOf, Window, StashCap, Uncapped, Caps, Shares, UseCap

\* waitpid(-1) and waitpid of one pid.
AnyOrOne == {Pids} \cup {{p} : p \in Pids}
AnyChild == {Pids}

VARIABLES
    part,
    live, taskQueues, runs, at, charge, inTime, now, fresh, use, cap, share  \* of RunQueue

\* RunQueueProofs extends RunQueue: what it proves is about this very instance.
Queues == INSTANCE RunQueueProofs WITH queues <- taskQueues, current <- runs, pc <- at

ASSUME MCSchedAssumption == Queues!RunQueueAssumption /\ {"harts", "queues"} \cap Harts = {}

\* Each task in a group of its own.
GroupEach == CHOOSE f \in [Tasks -> Groups] : \A s, t \in Tasks : f[s] = f[t] => s = t

queueVars == <<live, taskQueues, runs, at, charge, inTime, now, fresh, use, cap, share>>
mcVars == <<part, vars, queueVars>>

\* Harts are interchangeable, so are the pids other than init.
Symmetry == Permutations(Harts) \cup Permutations(Pids \ {init})

MCInit ==
    /\ part \in {"harts", "queues"} \cup Harts
    /\ Init /\ Queues!Init
    /\ part \in Harts => queues[part][init] = 1
    /\ part = "queues" => queues[CHOOSE h \in Harts : TRUE][init] = 1
    /\ part # "queues" => live = {CHOOSE t \in Tasks : TRUE}

Input ==
    /\ part # "queues" /\ UartReceive
    /\ part = "harts" => rx' = rx  \* Ctrl-C only
    /\ UNCHANGED <<part, queueVars>>
OnHart(h) ==
    /\ part \in {"harts", h} /\ HartStep(h)
    /\ part = "harts" => \A p \in Pids : wait_for'[p] \in {{}, Pids}  \* waitpid(-1)
    /\ UNCHANGED <<part, queueVars>>

InQueues == part = "queues" /\ Queues!Next /\ UNCHANGED <<part, vars>>

MCNext == Input \/ InQueues \/ \E h \in Harts : OnHart(h)

MCSpec == MCInit /\ [][MCNext]_mcVars

----------------------------------------------------------------------------

\* Safety: with one hart nothing can come between sys_read's look at the ring and
\* its sleep, nor between a trap entry and a sleep.
OneHartWakes == part \in Harts => NoReaderSleepsOnInput /\ KilledTaskIsNotAsleep

\* Safety: NoEntryLost of RunQueue, whose stash overflows where StashCap < Cardinality(Tasks).
EntriesKept == Queues!NoEntryLost

\* Safety: nothing that should run is forgotten, neither asleep on input that has come
\* nor as an entry that is in no queue, no stash and no hart's hands.
NobodyForgotten == OneHartWakes /\ EntriesKept

\* Action property: CapsComeFirst and IdleMeansNoWork of RunQueue, across harts that steal
\* from each other.
CapsComeFirstAnywhere == [][Queues!CapsRespected /\ Queues!IdleOnlyWhenEmpty]_queueVars
============================================================================
