------------------------------- MODULE MCDisk -------------------------------
\* Small instances of DiskFs and BlkDev, one of them in a behaviour: the system calls
\* of one hart on a file system, or two harts on a disk.
EXTENDS DiskFs, BlkDev, TLC

CONSTANTS h1, h2

\* Two names in the root and, when "a" is a directory, one inside it.
TreePaths == {<<"a">>, <<"b">>, <<"a", "c">>}

VARIABLE part

diskVars == <<part, vars, blkVars>>

DiskInit == part \in {"files", "blocks"} /\ Init /\ BlkInit

Files  == part = "files" /\ Next /\ UNCHANGED <<part, blkVars>>
InBlks == part = "blocks" /\ BlkNext /\ UNCHANGED <<part, vars>>

\* The harts on the disk are interchangeable; none of them makes the calls on files.
Symmetry == Permutations(BlkHarts)

DiskSpec == DiskInit /\ [][Files \/ InBlks]_diskVars

============================================================================
