------------------------------ MODULE MCTool -------------------------------
\* Small instances of Ctr, Pkg and Layers, one of them in a behaviour.
EXTENDS Ctr, Pkg, Layers, TLC

VARIABLE part

toolVars == <<part, ctrVars, pkgVars, layerVars>>

----------------------------------------------------------------------------
(* Constants of Pkg *)

D(p, op, v) == [pkg |-> p, op |-> op, ver |-> v]

\* Programs of two packages: the second version of "a" has the one of "b" too.
MCBins == [p \in Pkgs |-> [v \in Versions |->
             IF p = "b" THEN {"x"} ELSE IF v = 1 THEN {"y"} ELSE {"x", "z"}]]

\* "a" depends on "b", in its first version or in its second, on any or a certain one.
Registry(one, two) == [p \in Pkgs |-> [v \in Versions |->
    IF p = "b" THEN <<>> ELSE IF v = 1 THEN one ELSE two]]

MCDeps == {Registry(one, two) : two \in {<<>>, <<D("b", "any", 0)>>, <<D("b", "exact", 1)>>},
            one \in {<<>>, <<D("b", "any", 0)>>, <<D("b", "exact", 1)>>, <<D("b", "atleast", 2)>>}}

\* "a" and "b" depend on each other.
MCCycle == {[p \in Pkgs |-> [v \in Versions |->
              IF p = "a" THEN <<D("b", "any", 0)>> ELSE <<D("a", "any", 0)>>]]}

MCAllDeps == MCDeps \cup MCCycle

----------------------------------------------------------------------------
(* Constants of Layers *)

H(p, k, m) == [path |-> p, kind |-> k, magic |-> m]
Heads == {H("a", "file", TRUE), H("b", "file", TRUE), H("../x", "file", TRUE), H("../x", "dir", TRUE),
          H("d", "dir", TRUE), H("x", "other", TRUE), H("a", "file", FALSE)}
HeadSeqs == {<<h>> : h \in Heads} \cup {<<h, k>> : h, k \in Heads}
MCLayer == {[heads |-> s, end |-> e] : s \in HeadSeqs, e \in {"marker", "header"}}
           \cup {[heads |-> <<H("a", "file", TRUE)>>, end |-> "data"]}
MCSecond == {[heads |-> <<H(p, "file", TRUE)>>, end |-> "marker"] : p \in {"a", "b"}}
MCLayerSets == {<<l>> : l \in MCLayer} \cup {<<l, k>> : l \in MCLayer, k \in MCSecond}

----------------------------------------------------------------------------

ToolInit ==
    /\ part \in {"containers", "packages", "layers"}
    /\ CtrInit /\ PkgInit /\ LayersInit
    /\ part # "packages" => deps = Registry(<<>>, <<>>) /\ \A p \in Pkgs : index[p] = {1}
    /\ part # "layers" => layers = <<CHOOSE l \in MCLayer : TRUE>> /\ had /\ hash = "right"

Containers == part = "containers" /\ CtrNext /\ UNCHANGED <<part, pkgVars, layerVars>>
Packages == part = "packages" /\ PkgNext /\ UNCHANGED <<part, ctrVars, layerVars>>
Staging == part = "layers" /\ LayersNext /\ UNCHANGED <<part, ctrVars, pkgVars>>

ToolNext == Containers \/ Packages \/ Staging

ToolSpec == ToolInit /\ [][ToolNext]_toolVars

\* Runs of ctr are interchangeable.
CmdSymmetry == Permutations(Cmds)

----------------------------------------------------------------------------

\* Safety: ctr keeps track of what it starts.  A container it says is stopped has nothing
\* running, a process it started is listed or killed, a restart repeats the first start.
ContainersTracked == StoppedIsOver /\ TrackedOrKilled /\ RestartRepeats

\* Safety: the package database is what is installed, over runs that are killed and steps
\* that fail anywhere.  What it lists is there and whole, every program belongs to a listed
\* package, dependencies are held, and a package is what its layers say; excused are the
\* package being changed when its run was cut, until it is installed again, and the
\* programs such a run left behind (torn and strays of Pkg).
PackagesHold == ListedIsInstalled /\ BinIsListed /\ DependenciesHeld /\ InstalledIsPackage
============================================================================
