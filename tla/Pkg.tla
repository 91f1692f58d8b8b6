-------------------------------- MODULE Pkg --------------------------------
(***************************************************************************)
(* The packages of ctr (user/ctr/src/main.rs): install with dependencies,  *)
(* upgrade, remove and autoremove, over the database /pkg/db, the stores   *)
(* /pkg/<p>, the staging directories /pkg/<p>.new and the links in /bin.   *)
(*                                                                         *)
(* A store holds the programs of a version, its manifest and its file      *)
(* list; of a file the model keeps the version it came with.  A program is *)
(* moved, collected, linked and unlinked one call at a time, and a run may *)
(* be killed before every call.  Read and written as one are only the      *)
(* unpacked layers, the manifest, the file list, and the database: of one  *)
(* cut while it is written back nothing is left but what came after.       *)
(***************************************************************************)
EXTENDS Integers, Sequences, FiniteSets, SequencesExt

CONSTANTS
    Procs,      \* runs of ctr
    Pkgs,       \* names of packages
    Names,      \* names of programs
    MaxVer,     \* versions are 1 .. MaxVer
    Bins,       \* package -> version -> the set of its programs
    DepChoices, \* package -> version -> the sequence of its dependencies: the registries considered
    MaxRuns     \* bound of the model: commands given

Versions == 1 .. MaxVer

ASSUME PkgAssumption ==
    /\ {MaxVer, MaxRuns} \subseteq Nat \ {0}
    /\ Bins \in [Pkgs -> [Versions -> SUBSET Names]]

VARIABLES
    deps,    \* the registry's dependencies, of DepChoices
    index,   \* package -> the versions its index lists
    db,      \* lines of /pkg/db
    live,    \* package -> its store
    stage,   \* package -> its staging directory
    bin,     \* program -> [pkg, ver] of the file linked in /bin
    pc,      \* run -> what it does next
    frames,  \* run -> the packages it is at, the last one on top
    req,     \* run -> the request install_one is called with
    left,    \* run -> programs still to be moved, linked or unlinked
    held,    \* run -> what it read: the database, or the old file list
    runs,    \* commands given
    stager,  \* history: package -> the run that made its staging directory
    shared,  \* history: a run used a staging directory of another's making
    torn,    \* history: packages a run was cut at while it changed them, not installed since
    strays   \* history: programs such a run left in its store or in /bin

cuts    == <<torn, strays>>
history == <<stager, shared, cuts>>
pkgVars == <<deps, index, db, live, stage, bin, pc, frames, req, left, held, runs, history>>

NoFile == [pkg |-> "none", ver |-> 0]
NoDir  == [made |-> FALSE, bins |-> [n \in Names |-> 0], man |-> 0, list |-> 0]
NoReq  == [pkg |-> "none", op |-> "any", ver |-> 0, manual |-> FALSE]
Nobody == 0

PkgInit ==
    /\ deps \in DepChoices
    /\ index \in {[p \in Pkgs |-> {1}], [p \in Pkgs |-> Versions]}
    /\ db = {}
    /\ live = [p \in Pkgs |-> NoDir] /\ stage = [p \in Pkgs |-> NoDir]
    /\ bin = [n \in Names |-> NoFile]
    /\ pc = [i \in Procs |-> "idle"] /\ frames = [i \in Procs |-> <<>>]
    /\ req = [i \in Procs |-> NoReq] /\ left = [i \in Procs |-> {}]
    /\ held = [i \in Procs |-> {}]
    /\ runs = 0
    /\ stager = [p \in Pkgs |-> Nobody] /\ shared = FALSE
    /\ torn = {} /\ strays = {}

----------------------------------------------------------------------------
(* What the database and the stores say *)

DbHas(p) == \E l \in db : l.pkg = p
Line(p)  == CHOOSE l \in db : l.pkg = p

\* ver_sat()
VerSat(have, op, ver) ==
    CASE op = "any"     -> TRUE
      [] op = "atleast" -> have >= ver
      [] op = "exact"   -> have = ver

Max2(S) == CHOOSE v \in S : \A w \in S : w <= v

\* The manifests under /pkg, of stores and of staging directories.
Manifests == {<<p, live[p].man>> : p \in {q \in Pkgs : live[q].man # 0}}
             \cup {<<p, stage[p].man>> : p \in {q \in Pkgs : stage[q].man # 0}}

DepsOf(m) == Range(deps[m[1]][m[2]])

\* pkg_needed_by() cuts the name of a dependency at "=": of "foo>=1" it compares "foo>".
NeededBy(p) == {m \in Manifests : m[1] # p /\ \E d \in DepsOf(m) : d.pkg = p /\ d.op # "atleast"}

\* Mutant: nothing holds an upgrade.
PinViolated_Never(p, v) == FALSE

\* pkg_pin_violated()
PinViolated(p, v) ==
    \E m \in Manifests : m[1] # p /\ \E d \in DepsOf(m) : d.pkg = p /\ ~VerSat(v, d.op, d.ver)

----------------------------------------------------------------------------
(* Runs *)

Top(i)    == frames[i][Len(frames[i])]
Below(i)  == SubSeq(frames[i], 1, Len(frames[i]) - 1)
At(i, l)  == pc[i] = l
Go(i, l)  == pc' = [pc EXCEPT ![i] = l]
NewStore(i) == ~Top(i).up /\ ~Top(i).had
PkgFiles     == <<db, live, stage, bin>>

\* exit(1), or exit(0) at the end; the files stay as they are.
Exits(i) ==
    /\ pc' = [pc EXCEPT ![i] = "idle"]
    /\ frames' = [frames EXCEPT ![i] = <<>>]
    /\ req' = [req EXCEPT ![i] = NoReq]
    /\ left' = [left EXCEPT ![i] = {}]
    /\ held' = [held EXCEPT ![i] = {}]

\* What a package has left in its store or in /bin.
Traces(p) == {n \in Names : live[p].bins[n] # 0 \/ bin[n].pkg = p}

\* A run ends at its package and leaves these programs behind; without their lines in
\* the database others end with it.
CutShort(pkgs, progs) == torn' = torn \cup pkgs /\ strays' = strays \cup progs

Given(i) == At(i, "idle") /\ runs < MaxRuns /\ runs' = runs + 1

\* ctr install <pkg>, <pkg>=ver, <pkg>>=ver
Install(i, p, op, v) ==
    /\ Given(i)
    /\ ~DbHas(p)
    /\ Go(i, "one")
    /\ req' = [req EXCEPT ![i] = [pkg |-> p, op |-> op, ver |-> v, manual |-> TRUE]]
    /\ UNCHANGED <<deps, index, PkgFiles, frames, left, held, history>>

\* An installed package does if its version does, else the run fails; a package
\* further up the chain is a cycle.
InstallHave(i) ==
    /\ At(i, "one") /\ DbHas(req[i].pkg)
    /\ IF VerSat(Line(req[i].pkg).ver, req[i].op, req[i].ver) /\ frames[i] # <<>>
       THEN Go(i, "deps") /\ UNCHANGED <<frames, req, left, held>>
       ELSE Exits(i)
    /\ UNCHANGED <<deps, index, PkgFiles, runs, history>>

InstallCycle(i) ==
    /\ At(i, "one") /\ ~DbHas(req[i].pkg)
    /\ \E f \in Range(frames[i]) : f.pkg = req[i].pkg
    /\ Exits(i)
    /\ UNCHANGED <<deps, index, PkgFiles, runs, history>>

\* A pinned version is fetched directly, else the newest that satisfies.
Resolved(i) ==
    IF req[i].op = "exact" THEN req[i].ver
    ELSE Max2({v \in index[req[i].pkg] : VerSat(v, req[i].op, req[i].ver)})

Resolvable(i) ==
    \E v \in index[req[i].pkg] : VerSat(v, req[i].op, req[i].ver)

\* The manifest of the version is fetched, then its dependencies come first.
InstallOne(i) ==
    /\ At(i, "one") /\ ~DbHas(req[i].pkg)
    /\ \A f \in Range(frames[i]) : f.pkg # req[i].pkg
    /\ IF Resolvable(i)
       THEN LET p == req[i].pkg IN
            /\ frames' = [frames EXCEPT ![i] = Append(@,
                 [pkg |-> p, ver |-> Resolved(i), manual |-> req[i].manual, up |-> FALSE,
                  todo |-> deps[p][Resolved(i)], had |-> FALSE])]
            /\ Go(i, "deps")
            /\ UNCHANGED <<req, left, held>>
       ELSE Exits(i)
    /\ UNCHANGED <<deps, index, PkgFiles, runs, history>>

\* upgrade_one(): a newer version that no dependent's pin refuses.
Upgrade(i, p) ==
    /\ Given(i) /\ DbHas(p)
    /\ Max2(index[p]) > Line(p).ver /\ ~PinViolated(p, Max2(index[p]))
    /\ frames' = [frames EXCEPT ![i] =
         <<[pkg |-> p, ver |-> Max2(index[p]), manual |-> Line(p).manual, up |-> TRUE,
            todo |-> deps[p][Max2(index[p])], had |-> TRUE]>>]
    /\ Go(i, "deps")
    /\ UNCHANGED <<deps, index, PkgFiles, req, left, held, history>>

NextDep(i) == Top(i).todo

\* The next dependency is installed automatically; after the last one the package itself.
Deps(i) ==
    /\ At(i, "deps")
    /\ IF NextDep(i) = <<>>
       THEN Go(i, "clear") /\ UNCHANGED <<frames, req>>
       ELSE LET d == Head(NextDep(i)) IN
            /\ req' = [req EXCEPT ![i] = [pkg |-> d.pkg, op |-> d.op, ver |-> d.ver, manual |-> FALSE]]
            /\ frames' = [frames EXCEPT ![i][Len(frames[i])].todo = Tail(@)]
            /\ Go(i, "one")
    /\ UNCHANGED <<deps, index, PkgFiles, left, held, runs, history>>

----------------------------------------------------------------------------
(* Staging *)

\* Residue is removed; the directory must then be new.
ClearStage(i) ==
    /\ At(i, "clear")
    /\ stage' = [stage EXCEPT ![Top(i).pkg] = NoDir]
    /\ Go(i, "mkdir")
    /\ UNCHANGED <<deps, index, db, live, bin, frames, req, left, held, runs, history>>

MakeStage(i) ==
    LET p == Top(i).pkg IN
    /\ At(i, "mkdir")
    /\ IF stage[p].made
       THEN Exits(i) /\ UNCHANGED <<stage, stager>>
       ELSE /\ stage' = [stage EXCEPT ![p].made = TRUE]
            /\ stager' = [stager EXCEPT ![p] = i]
            /\ frames' = [frames EXCEPT ![i][Len(frames[i])].had = live[p].made]
            /\ Go(i, "fetch")
            /\ UNCHANGED <<req, left, held>>
    /\ UNCHANGED <<deps, index, db, live, bin, runs, shared, cuts>>

\* rollback(): staging goes, and the store if there was none; an upgrade leaves it.
Rollback(i) ==
    LET p == Top(i).pkg IN
    /\ stage' = [stage EXCEPT ![p] = NoDir]
    /\ live' = IF Top(i).up \/ Top(i).had THEN live ELSE [live EXCEPT ![p] = NoDir]
    /\ Exits(i)

\* A layer that cannot be fetched, verified, unpacked or scanned.
StageFails(i) ==
    /\ At(i, "fetch")
    /\ Rollback(i)
    /\ UNCHANGED <<deps, index, db, bin, runs, history>>

\* The layers are fetched and verified, and unpacked with the manifest and the list.
Unpack(i) ==
    LET p == Top(i).pkg  v == Top(i).ver IN
    /\ At(i, "fetch")
    /\ stage' = [stage EXCEPT ![p] =
         [made |-> TRUE, bins |-> [n \in Names |-> IF n \in Bins[p][v] THEN v ELSE @.bins[n]],
          man |-> v, list |-> v]]
    /\ shared' = (shared \/ stager[p] # i)
    /\ Go(i, "shadow")
    /\ UNCHANGED <<deps, index, db, live, bin, frames, req, left, held, runs, stager, cuts>>

\* Mutant: an upgrade's new programs are not looked for.
Checked_Install(i) == IF Top(i).up THEN {} ELSE Bins[Top(i).pkg][Top(i).ver]

\* The programs that must not be in /bin: those staged, or those new in an upgrade.
Checked(i) ==
    LET p == Top(i).pkg IN
    IF ~Top(i).up THEN {n \in Names : stage[p].bins[n] # 0}
    ELSE Bins[p][Top(i).ver] \ (IF live[p].list = 0 THEN {} ELSE Bins[p][live[p].list])

Shadow(i) ==
    LET p == Top(i).pkg IN
    /\ At(i, "shadow")
    /\ IF \E n \in Checked(i) : bin[n] # NoFile
       THEN /\ stage' = [stage EXCEPT ![p] = NoDir]
            /\ Exits(i)
            /\ UNCHANGED live
       ELSE /\ live' = [live EXCEPT ![p].made = TRUE]
            /\ Go(i, "commit")
            /\ left' = [left EXCEPT ![i] = Bins[p][Top(i).ver]]
            /\ held' = [held EXCEPT ![i] =
                 IF Top(i).up /\ live[p].list # 0 THEN Bins[p][live[p].list] ELSE {}]
            /\ UNCHANGED <<stage, frames, req>>
    /\ UNCHANGED <<deps, index, db, bin, runs, history>>

----------------------------------------------------------------------------
(* Commit: file by file from staging to the store, the metadata last *)

\* What the store has under the name goes first.
MakeRoom(i) ==
    LET p == Top(i).pkg IN
    /\ At(i, "commit")
    /\ \E n \in left[i] : live[p].bins[n] # 0 /\ live' = [live EXCEPT ![p].bins[n] = 0]
    /\ UNCHANGED <<deps, index, db, stage, bin, pc, frames, req, left, held, runs, history>>

MoveFile(i) ==
    LET p == Top(i).pkg IN
    /\ At(i, "commit")
    /\ \E n \in left[i] :
         /\ live[p].bins[n] = 0
         /\ live' = [live EXCEPT ![p].bins[n] = stage[p].bins[n]]
         /\ stage' = [stage EXCEPT ![p].bins[n] = 0]
         /\ left' = [left EXCEPT ![i] = @ \ {n}]
    /\ UNCHANGED <<deps, index, db, bin, pc, frames, req, held, runs, history>>

MoveManifest(i) ==
    LET p == Top(i).pkg IN
    /\ At(i, "commit") /\ left[i] = {}
    /\ live' = [live EXCEPT ![p].man = stage[p].man]
    /\ stage' = [stage EXCEPT ![p].man = 0]
    /\ Go(i, "list")
    /\ UNCHANGED <<deps, index, db, bin, frames, req, left, held, runs, history>>

\* After the file list the links are next, of every program the store has.
MoveList(i) ==
    LET p == Top(i).pkg IN
    /\ At(i, "list")
    /\ live' = [live EXCEPT ![p].list = stage[p].list]
    /\ stage' = [stage EXCEPT ![p].list = 0]
    /\ IF Top(i).up THEN Go(i, "gc") /\ UNCHANGED left
       ELSE Go(i, "link") /\ left' = [left EXCEPT ![i] = {n \in Names : live[p].bins[n] # 0}]
    /\ UNCHANGED <<deps, index, db, bin, frames, req, held, runs, history>>

\* Mutant: the links of files that are gone stay.
Stale_Files(i) == {}

\* gc_stale_files(): in the old list and not in the new.
Stale(i) == held[i] \ Bins[Top(i).pkg][Top(i).ver]

\* The file goes from the store, then its link from /bin.
CollectFile(i) ==
    LET p == Top(i).pkg IN
    /\ At(i, "gc")
    /\ \E n \in Stale(i) : live[p].bins[n] # 0 /\ live' = [live EXCEPT ![p].bins[n] = 0]
    /\ UNCHANGED <<deps, index, db, stage, bin, pc, frames, req, left, held, runs, history>>

CollectLink(i) ==
    /\ At(i, "gc")
    /\ \E n \in Stale(i) :
         live[Top(i).pkg].bins[n] = 0 /\ bin[n] # NoFile /\ bin' = [bin EXCEPT ![n] = NoFile]
    /\ UNCHANGED <<deps, index, db, live, stage, pc, frames, req, left, held, runs, history>>

Collected(i) ==
    LET p == Top(i).pkg IN
    /\ At(i, "gc")
    /\ \A n \in Stale(i) : live[p].bins[n] = 0 /\ bin[n] = NoFile
    /\ left' = [left EXCEPT ![i] = {n \in Names : live[p].bins[n] # 0}]
    /\ Go(i, "link")
    /\ UNCHANGED <<deps, index, PkgFiles, frames, req, held, runs, history>>

\* relink_bin(): every program of the store, over whatever /bin has.
Unlink(i) ==
    /\ At(i, "link")
    /\ \E n \in left[i] :
         bin[n] # NoFile /\ bin' = [bin EXCEPT ![n] = NoFile]
    /\ UNCHANGED <<deps, index, db, live, stage, pc, frames, req, left, held, runs, history>>

Relink(i) ==
    LET p == Top(i).pkg IN
    /\ At(i, "link")
    /\ \E n \in left[i] :
         /\ bin[n] = NoFile
         /\ bin' = [bin EXCEPT ![n] = [pkg |-> p, ver |-> live[p].bins[n]]]
         /\ left' = [left EXCEPT ![i] = @ \ {n}]
    /\ UNCHANGED <<deps, index, db, live, stage, pc, frames, req, held, runs, history>>

Linked(i) ==
    /\ At(i, "link") /\ left[i] = {}
    /\ Go(i, IF Top(i).up THEN "dbread" ELSE "dbadd")
    /\ UNCHANGED <<deps, index, PkgFiles, frames, req, left, held, runs, history>>

\* A file that cannot be moved, or a link that cannot be made.  An install takes its
\* store back if there was none before, and leaves the links it made.
PutFails(i) ==
    LET p == Top(i).pkg IN
    /\ pc[i] \in {"commit", "list", "link"}
    /\ IF Top(i).up THEN Exits(i) /\ UNCHANGED <<live, stage>> ELSE Rollback(i)
    /\ CutShort({p}, IF NewStore(i) THEN {n \in Names : bin[n].pkg = p} ELSE Traces(p))
    /\ UNCHANGED <<deps, index, db, bin, runs, stager, shared>>

\* pkg_db_add(): one line, appended; what was pushed for the package is done.
DbAdd(i) ==
    LET f == Top(i) IN
    /\ At(i, "dbadd")
    /\ db' = db \cup {[pkg |-> f.pkg, ver |-> f.ver, manual |-> f.manual]}
    /\ stage' = [stage EXCEPT ![f.pkg] = NoDir]
    /\ IF Below(i) = <<>> THEN Exits(i)
       ELSE /\ frames' = [frames EXCEPT ![i] = Below(i)]
            /\ Go(i, "deps")
            /\ UNCHANGED <<req, left, held>>
    /\ torn' = torn \ {f.pkg}
    /\ UNCHANGED <<deps, index, live, bin, runs, stager, shared, strays>>

\* Mutant: the links stay.
TakesBack_Links(i) == {}

\* The links an install takes back when the database cannot be written.
TakesBack(i) == IF Top(i).up THEN {} ELSE {n \in Names : live[Top(i).pkg].bins[n] # 0}

DbAddFails(i) ==
    LET p == Top(i).pkg IN
    /\ At(i, "dbadd")
    /\ bin' = [n \in Names |-> IF n \in TakesBack(i) THEN NoFile ELSE bin[n]]
    /\ IF Top(i).up THEN Exits(i) /\ UNCHANGED <<live, stage>> ELSE Rollback(i)
    /\ CutShort({p}, IF NewStore(i) THEN {} ELSE Traces(p))
    /\ UNCHANGED <<deps, index, db, runs, stager, shared>>

\* pkg_db_del(): the lines are read, the file truncated, the others written back.
DbRead(i) ==
    /\ At(i, "dbread")
    /\ held' = [held EXCEPT ![i] = {l \in db : l.pkg # Top(i).pkg}]
    /\ db' = {}
    /\ Go(i, "dbwrite")
    /\ UNCHANGED <<deps, index, live, stage, bin, frames, req, left, runs, history>>

DbWrite(i) ==
    /\ At(i, "dbwrite")
    /\ db' = db \cup held[i]
    /\ held' = [held EXCEPT ![i] = {}]
    /\ IF Top(i).up THEN Go(i, "dbadd") /\ UNCHANGED frames
       ELSE /\ frames' = [frames EXCEPT ![i] = <<>>]
            /\ Go(i, IF Top(i).manual THEN "idle" ELSE "auto")
    /\ UNCHANGED <<deps, index, live, stage, bin, req, left, runs, history>>

----------------------------------------------------------------------------
(* ctr remove, ctr autoremove *)

\* What pkg_remove_files() finds in the store is unlinked from /bin.
Removes(i, p, asked) ==
    /\ frames' = [frames EXCEPT ![i] =
         <<[pkg |-> p, ver |-> 0, manual |-> asked, up |-> FALSE, todo |-> <<>>, had |-> TRUE]>>]
    /\ left' = [left EXCEPT ![i] = {n \in Names : live[p].bins[n] # 0}]

RemovePkg(i, p) ==
    /\ Given(i) /\ DbHas(p) /\ NeededBy(p) = {}
    /\ Removes(i, p, TRUE)
    /\ Go(i, "unlink")
    /\ UNCHANGED <<deps, index, PkgFiles, req, held, history>>

\* Packages that came as dependencies and that no manifest needs, until there are none.
Autoremove(i) ==
    /\ Given(i)
    /\ Go(i, "auto")
    /\ UNCHANGED <<deps, index, PkgFiles, frames, req, left, held, history>>

Orphans == {l.pkg : l \in {k \in db : ~k.manual /\ NeededBy(k.pkg) = {}}}

AutoNext(i) ==
    /\ At(i, "auto")
    /\ IF Orphans = {} THEN Go(i, "idle") /\ UNCHANGED <<frames, left>>
       ELSE \E p \in Orphans : Removes(i, p, FALSE) /\ Go(i, "unlink")
    /\ UNCHANGED <<deps, index, PkgFiles, req, held, runs, history>>

\* pkg_remove_files(): the links, then the store.
RemoveLink(i) ==
    /\ At(i, "unlink")
    /\ \E n \in left[i] :
         /\ bin' = [bin EXCEPT ![n] = NoFile]
         /\ left' = [left EXCEPT ![i] = @ \ {n}]
    /\ UNCHANGED <<deps, index, db, live, stage, pc, frames, req, held, runs, history>>

RemoveStore(i) ==
    LET p == Top(i).pkg IN
    /\ At(i, "unlink") /\ left[i] = {}
    /\ live[p].made
    /\ live' = [live EXCEPT ![p] = NoDir]
    /\ Go(i, "dbread")
    /\ UNCHANGED <<deps, index, db, stage, bin, frames, req, left, held, runs, history>>

\* rm_all() fails, at once if there is no store, or is killed: any part of it may be left.
RemoveStoreCut(i) ==
    LET p == Top(i).pkg IN
    /\ At(i, "unlink") /\ left[i] = {}
    /\ \E gone \in SUBSET Names, m \in {0, live[p].man}, l \in {0, live[p].list} :
         live' = [live EXCEPT ![p].bins = [n \in Names |-> IF n \in gone THEN 0 ELSE @[n]],
                              ![p].man = m, ![p].list = l]
    /\ Exits(i)
    /\ CutShort({p}, Traces(p))
    /\ UNCHANGED <<deps, index, db, stage, bin, runs, stager, shared>>

\* Where a run has begun to change what is installed.
Changing == {"commit", "list", "gc", "link", "dbread", "dbwrite", "dbadd", "unlink"}

\* The lines that are in nobody's hands but the run's.
Lost(i) == IF At(i, "dbwrite") THEN {l.pkg : l \in held[i]} ELSE {}

\* kill -9, or a database that cannot be opened or written back.
Killed(i) ==
    /\ pc[i] # "idle"
    /\ Exits(i)
    /\ IF pc[i] \in Changing
       THEN LET hurt == {Top(i).pkg} \cup Lost(i) IN CutShort(hurt, UNION {Traces(p) : p \in hurt})
       ELSE UNCHANGED cuts
    /\ UNCHANGED <<deps, index, PkgFiles, runs, stager, shared>>

\* The registry publishes a version.
Publish(p) ==
    /\ Cardinality(index[p]) < MaxVer
    /\ index' = [index EXCEPT ![p] = @ \cup {Cardinality(@) + 1}]
    /\ UNCHANGED <<deps, PkgFiles, pc, frames, req, left, held, runs, history>>

PkgNext ==
    \/ \E p \in Pkgs : Publish(p)
    \/ \E i \in Procs :
         \/ \E p \in Pkgs :
              \/ \E op \in {"any", "exact", "atleast"}, v \in Versions : Install(i, p, op, v)
              \/ Upgrade(i, p) \/ RemovePkg(i, p)
         \/ InstallHave(i) \/ InstallCycle(i) \/ InstallOne(i) \/ Deps(i)
         \/ ClearStage(i) \/ MakeStage(i) \/ StageFails(i) \/ Unpack(i) \/ Shadow(i)
         \/ MakeRoom(i) \/ MoveFile(i) \/ MoveManifest(i) \/ MoveList(i)
         \/ CollectFile(i) \/ CollectLink(i) \/ Collected(i)
         \/ Unlink(i) \/ Relink(i) \/ Linked(i) \/ PutFails(i)
         \/ DbAdd(i) \/ DbAddFails(i) \/ DbRead(i) \/ DbWrite(i)
         \/ Autoremove(i) \/ AutoNext(i) \/ RemoveLink(i) \/ RemoveStore(i) \/ RemoveStoreCut(i)
         \/ Killed(i)

PkgSpec == PkgInit /\ [][PkgNext]_pkgVars

----------------------------------------------------------------------------

Quiet == \A i \in Procs : pc[i] = "idle"

\* ctr verify: the store, its list and manifest, every file listed, every link.
Healthy(p) ==
    /\ live[p].made /\ live[p].list # 0 /\ live[p].man # 0
    /\ \A n \in Bins[p][live[p].list] : live[p].bins[n] # 0
    /\ \A n \in Names : live[p].bins[n] # 0 => bin[n] # NoFile

\* Safety.  Between commands, what the database lists is installed: the store holds the
\* files, the list and the manifest of that version, /bin links to those very files, and
\* ctr verify is content (main.rs:2693, "db entry <=> fully installed").  Runs are killed
\* and steps fail anywhere: excused is the package that was being changed then, until an
\* install or upgrade of it ends, the packages whose lines were cut out of the database
\* with it, and of others the links to programs such a run had left behind.
ListedIsInstalled ==
    Quiet => \A l \in db : l.pkg \notin torn =>
      /\ live[l.pkg].man = l.ver /\ live[l.pkg].list = l.ver
      /\ \A n \in Bins[l.pkg][l.ver] :
           /\ live[l.pkg].bins[n] = l.ver
           /\ n \notin strays => bin[n] = [pkg |-> l.pkg, ver |-> l.ver]
      /\ Traces(l.pkg) \cap strays = {} => Healthy(l.pkg)

\* Safety.  Between commands, every program in /bin is of a package that is listed,
\* in the listed version: nothing is left behind and nothing clobbered, but for programs
\* left by a run that was killed or failed while it changed what is installed.
BinIsListed ==
    Quiet => \A n \in Names \ strays : bin[n] # NoFile =>
      \E l \in db : l.pkg = bin[n].pkg /\ l.ver = bin[n].ver /\ n \in Bins[l.pkg][l.ver]

\* Safety.  Between commands, a listed package's dependencies are listed in versions
\* that satisfy it, through installs, upgrades, removes and autoremoves in any order,
\* but for dependencies with ">=" and for packages a run was cut at.
DependenciesHeld ==
    Quiet => \A l \in db : l.pkg \notin torn => \A d \in DepsOf(<<l.pkg, l.ver>>) :
      d.op # "atleast" /\ d.pkg \notin torn => DbHas(d.pkg) /\ VerSat(Line(d.pkg).ver, d.op, d.ver)

\* Does not hold of runs that are killed or fail once they have begun to change what is
\* installed: a link that cannot be made leaves the links before it (main.rs:2885), a
\* removal cut before its database line is gone leaves the line (main.rs:3162), and the
\* database is truncated before it is written back (main.rs:1925).
EntryIffInstalled ==
    Quiet => /\ \A l \in db : Healthy(l.pkg)
             /\ \A n \in Names : bin[n] # NoFile => DbHas(bin[n].pkg)

\* Does not hold: pkg_needed_by takes "foo>=1" for a dependency on "foo>"
\* (main.rs:2974, against the comment at main.rs:3144).
DependenciesThere ==
    Quiet => \A l \in db : l.pkg \notin torn => \A d \in DepsOf(<<l.pkg, l.ver>>) :
      d.pkg \notin torn => DbHas(d.pkg)

\* Does not hold of two runs: the second removes the first one's staging directory
\* and makes its own (main.rs:2727).
StagingIsExclusive == ~shared

\* Does not hold if a run is killed between the links and the database line: its own
\* programs in /bin are then taken for another's, and the next install is refused
\* (main.rs:2700, "cleared by the next install of the same package").
OwnProgramsDoNotShadow ==
    [][\A i \in Procs : pc[i] = "shadow" /\ pc'[i] = "idle" /\ stage' # stage =>
         \E n \in Checked(i) : bin[n] # NoFile /\ bin[n].pkg # Top(i).pkg]_pkgVars

\* Does not hold if a run is killed in its commit: a program left in the store is
\* linked over another package's (main.rs:2838, "no clobber").
NothingClobbered ==
    [][\A i \in Procs, n \in Names :
         pc[i] = "link" /\ bin[n] # NoFile /\ bin'[n] = NoFile => bin[n].pkg = Top(i).pkg]_pkgVars
============================================================================
