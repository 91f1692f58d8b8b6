------------------------------- MODULE Paths -------------------------------
(***************************************************************************)
(* What a process sees of the file system: its jail (fsroot), its working  *)
(* directory and its volume binds (kernel/src/task/mod.rs, syscall.rs).    *)
(*                                                                         *)
(* A host path is the sequence of its components; a path a caller passes   *)
(* is absolute or not and may contain "..".  Lengths (63 and 127 bytes)    *)
(* and files are left out, and so is the second slash that a bind of "/"   *)
(* puts before what follows it.  The runtime sets a container up from the  *)
(* outside (binds, then chroot); then the program calls what it likes.     *)
(***************************************************************************)
EXTENDS Naturals, Sequences, FiniteSets, SequencesExt

CONSTANTS
    Names,     \* component names
    Splits,    \* <<n, m, r>>: the name m is the text of n followed by that of r
    MaxDepth,  \* bound of the model: components of a host path
    MaxMounts  \* entries of the mounts table

ASSUME PathsAssumption ==
    /\ ".." \notin Names /\ Splits \subseteq Names \X Names \X Names
    /\ {MaxDepth, MaxMounts} \subseteq Nat

VARIABLES
    root,    \* fsroot: a host path
    cwd,     \* cwd: a path as seen from the root
    mounts,  \* mounts: sequence of [mp, tgt], host paths
    dirs,    \* the directories of the disk
    granted, \* history: what the first chroot left in sight: the new root and
             \* the targets bound before it; empty before
    removed  \* history: since the process went to its working directory, that
             \* directory or one above it was unlinked

pathVars == <<root, cwd, mounts, dirs, granted, removed>>

HostPaths == BoundedSeq(Names, MaxDepth)
Raw       == [abs : BOOLEAN, comps : BoundedSeq(Names \cup {".."}, 2)]
Under(p, q) == IsPrefix(q, p)

PathInit ==
    /\ root = <<>> /\ cwd = <<>> /\ mounts = <<>>
    /\ dirs = {<<>>}
    /\ granted = {} /\ removed = FALSE

----------------------------------------------------------------------------
(* resolve_path, apply_mounts, resolve_for *)

\* Mutant: ".." goes up wherever it stands.
Up_Free(stack) == IF stack = <<>> THEN stack ELSE Front(stack)

\* ".." never goes above the components of the root.
Up(stack) == IF Len(stack) > Len(root) THEN Front(stack) ELSE stack

Walk(stack, comps) ==
    LET at[i \in 0 .. Len(comps)] ==
          IF i = 0 THEN stack
          ELSE IF comps[i] = ".." THEN Up(at[i - 1]) ELSE Append(at[i - 1], comps[i])
    IN at[Len(comps)]

ResolvePath(raw) == Walk(root, IF raw.abs THEN raw.comps ELSE cwd \o raw.comps)

\* A bind at the host's "/" matches "/" alone: the byte after it is no slash.
Matches(m, p) == IF m.mp = <<>> THEN p = <<>> ELSE Under(p, m.mp)

\* The longest mountpoint wins, among equals the first of the table.
Best(p) ==
    LET hits == {i \in DOMAIN mounts : Matches(mounts[i], p)}
    IN {i \in hits : \A j \in hits :
          \/ Len(mounts[j].mp) < Len(mounts[i].mp)
          \/ Len(mounts[j].mp) = Len(mounts[i].mp) /\ i <= j}

ApplyMounts(p) ==
    IF Best(p) = {} THEN p
    ELSE LET m == mounts[CHOOSE i \in Best(p) : TRUE]
         IN m.tgt \o SubSeq(p, Len(m.mp) + 1, Len(p))

ResolveFor(raw) == ApplyMounts(ResolvePath(raw))

\* What the process can name.
Seen == {ResolveFor(raw) : raw \in Raw}

----------------------------------------------------------------------------
(* The system calls *)

\* Mutant: the mark of the jail is kept off the working directory.
View_Host(p) == p

\* The names that are left of p where the text of the root ends inside a name.
Remnants(p) ==
    {r \in Names :
       /\ root # <<>> /\ Len(root) <= Len(p)
       /\ Front(root) = SubSeq(p, 1, Len(root) - 1)
       /\ <<Last(root), p[Len(root)], r>> \in Splits}

\* sys_chdir strips the root as a prefix of the text, and stores "/" if it is none.
View(p) ==
    IF Under(p, root) THEN SubSeq(p, Len(root) + 1, Len(p))
    ELSE IF Remnants(p) = {} THEN <<>>
    ELSE <<CHOOSE r \in Remnants(p) : TRUE>> \o SubSeq(p, Len(root) + 1, Len(p))

Chdir(p) ==
    /\ p \in dirs
    /\ cwd' = View(p) /\ removed' = FALSE
    /\ UNCHANGED <<root, mounts, dirs, granted>>

\* Mutant: the working directory is left where it was.
Anchor_Kept == cwd

Anchor == <<>>

\* sys_chroot, set_root.
Chroot(p) ==
    /\ p \in dirs
    /\ root' = p
    /\ cwd' = Anchor /\ removed' = FALSE
    /\ granted' = IF granted = {} THEN {root'} \cup {mounts[i].tgt : i \in DOMAIN mounts}
                  ELSE granted
    /\ UNCHANGED <<mounts, dirs>>

\* sys_mkdir: one level, in a directory that is there.
Mkdir(p) ==
    /\ p \in HostPaths \ dirs
    /\ Front(p) \in dirs
    /\ dirs' = dirs \cup {p}
    /\ UNCHANGED <<root, cwd, mounts, granted, removed>>

\* sys_unlink, disk::unlink: any directory but "/", empty or not, whoever stands in it or is
\* jailed there.  What was below it can be reached no more.
Unlink(p) ==
    /\ p \in dirs \ {<<>>}
    /\ dirs' = {d \in dirs : ~Under(d, p)}
    /\ removed' = (removed \/ Under(root \o cwd, p))
    /\ UNCHANGED <<root, cwd, mounts, granted>>

\* Mutant: one bind more than the table holds.
Room_More == Len(mounts) <= MaxMounts

Room == Len(mounts) < MaxMounts

\* sys_mountvol, mount_vol: the mountpoint is made before the table is looked at.
MountVol(mp, tgt) ==
    /\ tgt \in dirs
    /\ mp \in dirs \/ (mp \in HostPaths \ {<<>>} /\ Front(mp) \in dirs)
    /\ dirs' = dirs \cup {mp}
    /\ mounts' = IF Room THEN Append(mounts, [mp |-> mp, tgt |-> tgt]) ELSE mounts
    /\ UNCHANGED <<root, cwd, granted, removed>>

PathNext ==
    \E p \in Seen :
      \/ Chdir(p) \/ Chroot(p) \/ Mkdir(p) \/ Unlink(p)
      \/ \E tgt \in Seen : MountVol(p, tgt)

PathSpec == PathInit /\ [][PathNext]_pathVars

----------------------------------------------------------------------------

PathTypeOK ==
    /\ root \in HostPaths /\ cwd \in Seq(Names) /\ removed \in BOOLEAN
    /\ dirs \subseteq HostPaths /\ <<>> \in dirs
    /\ Len(mounts) <= MaxMounts
    /\ \A i \in DOMAIN mounts : mounts[i].tgt \in HostPaths /\ mounts[i].mp \in HostPaths

\* Safety.  Once a process was jailed, whatever it passes to any system call --
\* after whatever it changed its directory to, bound or chrooted to -- names
\* something below the jail or below a volume bound before the jail was closed.
NoEscape ==
    granted # {} => \A p \in Seen : \E v \in granted : Under(p, v)

\* Action property.  As long as nothing is bound, a relative path after chdir continues
\* where chdir went (the directory is stored relative to the root and resolved again).
Arrives == mounts = <<>> => \A p \in Seen : Chdir(p) => root \o cwd' = p
ChdirArrives == [][Arrives]_pathVars

\* Safety.  As long as nothing is bound, the working directory is a directory of the
\* disk, unless it or one above it was unlinked since the process went there: no chdir
\* or chroot leaves a relative name in the air.
CwdIsThere == mounts = <<>> => removed \/ root \o cwd \in dirs

\* Does not hold: the working directory is there whatever is unlinked (sys_unlink asks
\* nobody, kernel/src/syscall.rs:1295).
CwdStays == mounts = <<>> => root \o cwd \in dirs

\* Does not hold: "Resolves `path` under the CURRENT root (so the result is a
\* descendant by construction -- tightening only" (kernel/src/syscall.rs:1000).
TighteningOnly == [][Under(root', root)]_pathVars

\* Does not hold: chdir to a bound directory goes there (syscall.rs:1163-1165).
ChdirArrivesAnywhere ==
    [][\A p \in Seen : Chdir(p) => ApplyMounts(root \o cwd') = p]_pathVars

\* Does not hold: "bind `tgt` at `mp`" (kernel/src/task/mod.rs:2773): a bind that was
\* accepted is what the mountpoint shows from then on.
BindTakesEffect ==
    [][\A raw \in Raw, tgt \in Seen : mounts' # mounts /\ MountVol(ResolveFor(raw), tgt) =>
         ApplyMounts(ResolvePath(raw))' = tgt]_pathVars
============================================================================
