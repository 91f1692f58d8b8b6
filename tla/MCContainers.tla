--------------------------- MODULE MCContainers ----------------------------
\* Small instances of CgSlots, PidNs and Paths, one of them in a behaviour.
EXTENDS CgSlots, PidNs, Paths, TLC

VARIABLE part

ctVars == <<part, vars, nsVars, pathVars>>

CtInit ==
    /\ part \in {"groups", "namespaces", "paths"}
    /\ Init /\ NsInit /\ PathInit

ControlGroups == part = "groups" /\ Next /\ UNCHANGED <<part, nsVars, pathVars>>
Namespaces == part = "namespaces" /\ NsNext /\ UNCHANGED <<part, vars, pathVars>>
Resolution == part = "paths" /\ PathNext /\ UNCHANGED <<part, vars, nsVars>>

CtNext == ControlGroups \/ Namespaces \/ Resolution

CtSpec == CtInit /\ [][CtNext]_ctVars

\* The names of Paths are one letter and two.
MCSplits == {<<"a", "aa", "a">>}

\* The processes of CgSlots other than the first are interchangeable.
Symmetry == Permutations(Procs \ {first})

----------------------------------------------------------------------------

\* Safety: a name means one thing to the process that uses it.  A pid names one task of its
\* namespace, and who was there is known or among the last reaped; who is left in a group
\* that was killed came after the kill; whatever a jailed process passes to a system call
\* lies below its jail or a volume bound before; and while nothing is bound, its working
\* directory is there unless it or one above it was unlinked.
Confined ==
    /\ NsTypeOK /\ LpidsUnique /\ NoIdentityGap /\ StragglersAreNew
    /\ PathTypeOK /\ NoEscape /\ CwdIsThere

\* Action properties: a zombie stays as it is until it is reaped, and a process that went to
\* a directory while nothing was bound is there (ChdirArrives of Paths).
StaysPut == ZombiesRest /\ [][part = "paths" => Arrives]_ctVars
============================================================================
