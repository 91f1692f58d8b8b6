------------------------------ MODULE Layers ------------------------------
(***************************************************************************)
(* From the layers of a package to its store (user/ctr/src/main.rs): the   *)
(* hash, untar into staging, the scan of the same tars into the file list, *)
(* and the move of what is listed from staging to the store.               *)
(*                                                                         *)
(* A layer is the sequence of its headers and how it ends; of a file the   *)
(* model keeps the layer it came in.  Reading a layer is one step, moving  *)
(* a file another.  "../x" stands for the names mkdir_parents refuses.     *)
(***************************************************************************)
EXTENDS Naturals, Sequences, FiniteSets, SequencesExt

CONSTANTS
    TarNames,     \* names in headers
    Unsafe,     \* those with ".." or a leading "/"
    LayerSets,  \* the packages considered: sequences of [heads, end, magic]
    MaxList     \* files a list holds: 64

ASSUME LayerAssumption == Unsafe \subseteq TarNames /\ MaxList \in Nat \ {0}

VARIABLES
    layers,   \* the layers fetched
    hash,     \* the manifest's hash is "missing", "right" or "wrong"
    staged,   \* path -> layer it came in, 0 = not there
    listed,   \* sequence of paths to move
    store,    \* the same of the store
    had,      \* the store was there: an upgrade
    todo,     \* what is left to move, or the number of the layer to read
    phase

layerVars == <<layers, hash, staged, listed, store, had, todo, phase>>

Old  == 99   \* a file of the version that is upgraded
None == 0

LayersInit ==
    /\ layers \in LayerSets
    /\ hash \in {"missing", "right", "wrong"}
    /\ staged = [p \in TarNames |-> None]
    /\ listed = <<>>
    /\ had \in BOOLEAN
    /\ store = [p \in TarNames |-> IF had /\ p \notin Unsafe THEN Old ELSE None]
    /\ todo = 1 /\ phase = "verify"

----------------------------------------------------------------------------
(* Reading a layer *)

\* The headers untar() gets to: the first bad one ends it in failure.
Readable(l) == \A i \in DOMAIN l.heads : l.heads[i].magic
FilesOf(l)   == {l.heads[i].path : i \in {j \in DOMAIN l.heads : l.heads[j].kind = "file"}}

\* A directory with an unsafe name fails, a file is skipped; the end of the stream
\* at a header is as good as the end marker.
Untars(l) ==
    /\ Readable(l)
    /\ \A i \in DOMAIN l.heads : l.heads[i].kind = "dir" => l.heads[i].path \notin Unsafe
    /\ l.end # "data"

Unpacked(l, n) == [p \in TarNames |-> IF p \in FilesOf(l) \ Unsafe THEN n ELSE staged[p]]

\* tar_files(): needs the end marker, does not look at the magic, and takes every
\* header that is not a directory for a file.
Scans(l) == l.end = "marker"

Scanned(l) ==
    LET named == SelectSeq(l.heads, LAMBDA h : h.kind # "dir")
    IN [i \in DOMAIN named |-> named[i].path]

----------------------------------------------------------------------------

Goes(ph) == phase' = ph

\* rollback(): staging goes, and the store if it was not there before.
Fails ==
    /\ staged' = [p \in TarNames |-> None]
    /\ store' = IF had THEN store ELSE [p \in TarNames |-> None]
    /\ Goes("failed")

\* Mutant: a manifest without a hash will do.
Verified_Lax == hash # "wrong"

\* verify_tars(): before anything is unpacked.
Verified == hash = "right"

Verify ==
    /\ phase = "verify"
    /\ IF Verified THEN Goes("unpack") /\ UNCHANGED <<staged, store>> ELSE Fails
    /\ UNCHANGED <<layers, hash, listed, had, todo>>

\* Layer after layer; one without a file fails.
Untar ==
    /\ phase = "unpack"
    /\ LET l == layers[todo] IN
       IF Untars(l) /\ FilesOf(l) \ Unsafe # {}
       THEN /\ staged' = Unpacked(l, todo)
            /\ todo' = IF todo = Len(layers) THEN 1 ELSE todo + 1
            /\ Goes(IF todo = Len(layers) THEN "scan" ELSE "unpack")
            /\ UNCHANGED store
       ELSE Fails /\ UNCHANGED todo
    /\ UNCHANGED <<layers, hash, listed, had>>

\* The lists of all layers, one after the other.
Scan ==
    /\ phase = "scan"
    /\ LET l == layers[todo] IN
       IF Scans(l) /\ Len(listed \o Scanned(l)) <= MaxList
       THEN /\ listed' = listed \o Scanned(l)
            /\ todo' = IF todo = Len(layers) THEN 1 ELSE todo + 1
            /\ Goes(IF todo = Len(layers) THEN "move" ELSE "scan")
            /\ UNCHANGED <<staged, store>>
       ELSE Fails /\ UNCHANGED <<listed, todo>>
    /\ UNCHANGED <<layers, hash, had>>

\* Mutant: what is in the store already stays.
Moved_Kept(p) == [store EXCEPT ![p] = IF @ = None THEN staged[p] ELSE @]

Moved(p) == [store EXCEPT ![p] = staged[p]]

\* commit_staged(): the file in the store is unlinked, the staged one linked in its
\* place and unlinked.  If there is none staged the old one is gone all the same.
Move ==
    /\ phase = "move" /\ todo <= Len(listed)
    /\ LET p == listed[todo] IN
       IF p \in Unsafe \/ staged[p] = None
       THEN /\ store' = IF had THEN [store EXCEPT ![p] = None] ELSE [q \in TarNames |-> None]
            /\ staged' = IF had THEN staged ELSE [q \in TarNames |-> None]
            /\ Goes("failed") /\ UNCHANGED todo
       ELSE /\ store' = Moved(p)
            /\ staged' = [staged EXCEPT ![p] = None]
            /\ todo' = todo + 1 /\ UNCHANGED phase
    /\ UNCHANGED <<layers, hash, listed, had>>

Finish ==
    /\ phase = "move" /\ todo > Len(listed)
    /\ Goes("done")
    /\ UNCHANGED <<layers, hash, staged, listed, store, had, todo>>

LayersNext == Verify \/ Untar \/ Scan \/ Move \/ Finish

LayersSpec == LayersInit /\ [][LayersNext]_layerVars

----------------------------------------------------------------------------

\* What the layers hold: of each path the last one that has it.
Content(p) ==
    LET with == {i \in DOMAIN layers : p \in FilesOf(layers[i])}
    IN IF with = {} THEN None ELSE CHOOSE i \in with : \A j \in with : j <= i

\* Safety.  What was installed is what the hash was of, all of it and nothing else: a
\* package that is "done" has every file of its layers, each once listed, none with a
\* name outside, and none was written for a wrong hash (untar and tar_files read the
\* same tars by rules of their own).
InstalledIsPackage ==
    /\ phase = "done" =>
         /\ hash = "right"
         /\ \A p \in TarNames : Content(p) # None => store[p] = Content(p) /\ p \notin Unsafe
         /\ \A p \in TarNames : store[p] \notin {None, Old} => p \in ToSet(listed)
    /\ hash # "right" => \A p \in TarNames : staged[p] = None

\* Does not hold: layers that share a file are unpacked, the later over the earlier
\* (main.rs:645, "Later layers overwrite (plain write)"), but the file is listed
\* twice, and its second move finds nothing staged.
LayersMayOverlap ==
    phase = "failed" =>
      \/ hash # "right" \/ Len(listed) > MaxList
      \/ \E i \in DOMAIN layers : ~Untars(layers[i]) \/ ~Scans(layers[i]) \/ FilesOf(layers[i]) \cap Unsafe # {}
      \/ \E i \in DOMAIN layers : FilesOf(layers[i]) = {} \/ \E j \in DOMAIN layers[i].heads : layers[i].heads[j].kind = "other"

\* Does not hold: the move that fails so deletes the file of the version installed.
FailedUpgradeKeepsFiles ==
    phase = "failed" /\ had => \A p \in TarNames \ Unsafe : store[p] # None
============================================================================
