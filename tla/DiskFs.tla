------------------------------- MODULE DiskFs -------------------------------
(***************************************************************************)
(* The disk file system (kernel/src/fs/disk.rs): inodes, directories, the  *)
(* three-level block map and the block bitmap, as the system calls open,   *)
(* write, mkdir, unlink and link use them (fs/mod.rs, syscall.rs).         *)
(*                                                                         *)
(* Nothing in the code locks the file system, so what a call reads and     *)
(* what it writes back are two steps: Prepare computes the next block from *)
(* what the hart sees, Flush stores it.  One block holds the bitmap, a     *)
(* block of the inode table holds InosPerBlock inodes.  A power cut keeps  *)
(* the blocks already flushed: the image has no journal area (JB = 0), for *)
(* which record() does nothing; Journal models images that have one.       *)
(*                                                                         *)
(* A data block has PerBlock entries <<name, number>>: a directory entry,  *)
(* a pointer <<"", lba>>, or a whole block of file data <<"data", v>> in   *)
(* its first entry.  Sizes count entries of a directory, blocks of a file. *)
(***************************************************************************)
EXTENDS Naturals, Sequences, FiniteSets, FiniteSetsExt, SequencesExt

CONSTANTS
    Harts,
    Offsets,       \* blocks a write may start at
    Paths,         \* the paths system calls name: sequences of components
    NInodes,       \* NINODES
    InosPerBlock,  \* inodes in a block of the table (8)
    NBlocks,       \* data blocks on the disk
    NDirect,       \* direct pointers of an inode (8)
    PerBlock,      \* pointers, and directory entries, in a block (128 and 16)
    MaxLen,        \* bound of the model: blocks one write covers
    MaxCalls,      \* bound of the model: system calls
    MaxCuts        \* bound of the model: power cuts

ASSUME DiskFsAssumption ==
    /\ NInodes \in Nat \ {0} /\ InosPerBlock \in Nat \ {0}
    /\ NBlocks \in Nat /\ NDirect \in Nat \ {0} /\ PerBlock \in Nat \ {0}
    /\ MaxLen \in Nat \ {0} /\ {MaxCalls, MaxCuts} \subseteq Nat

VARIABLES
    bmap,     \* the bitmap: data blocks marked used
    itab,     \* the inode table, by block
    data,     \* the data blocks
    call,     \* per hart: the system call it is in
    todo,     \* per hart: what is left of the call
    rec,      \* per hart: its copy of the inode the call works on
    got,      \* per hart: the block balloc or data_block returned
    table,    \* per hart: its copy of the pointer block data_block changes
    victims,  \* per hart: the blocks free_ino_blocks has still to free
    out,      \* per hart: the block about to be written, or nothing
    calls,    \* system calls started
    cuts,     \* power cuts so far
    torn,     \* history: the operations power cuts interrupted
    want      \* history: per inode, what completed writes left in its blocks

disk  == <<bmap, itab, data>>
local == <<call, todo, rec, got, table, victims, out>>
vars  == <<disk, local, calls, cuts, torn, want>>

Inos   == 1 .. NInodes
Blocks == 1 .. NBlocks
Root   == 1
Hole   == 0

Nil       == <<"", 0>>
ZeroBlock == [i \in 1 .. PerBlock |-> Nil]
FreeIno   == [kind |-> "free", size |-> 0, direct |-> [i \in 1 .. NDirect |-> Hole],
              indirect |-> Hole, dind |-> Hole, nlink |-> 0]
Fresh(kind) == [FreeIno EXCEPT !.kind = kind, !.nlink = 1]
Nothing   == [at |-> "none", id |-> 0, val |-> 0]
NoCall    == [op |-> "none", path |-> <<>>, ino |-> 0, child |-> 0,
              idx |-> 0, from |-> 0, n |-> 0, tag |-> 0, old |-> FreeIno]
NoTable   == [id |-> 0, val |-> ZeroBlock, at |-> 1]

\* An image fresh from mkfs: the root directory, empty.
Init ==
    /\ bmap = {}
    /\ itab = [k \in 0 .. (NInodes - 1) \div InosPerBlock |->
                 [i \in {j \in Inos : (j - 1) \div InosPerBlock = k} |->
                    IF i = Root THEN Fresh("dir") ELSE FreeIno]]
    /\ data = [b \in Blocks |-> ZeroBlock]
    /\ call = [h \in Harts |-> NoCall]
    /\ todo = [h \in Harts |-> <<>>]
    /\ rec = [h \in Harts |-> FreeIno]
    /\ got = [h \in Harts |-> Hole]
    /\ table = [h \in Harts |-> NoTable]
    /\ victims = [h \in Harts |-> {}]
    /\ out = [h \in Harts |-> Nothing]
    /\ calls = 0
    /\ cuts = 0
    /\ torn = {}
    /\ want = [i \in Inos |-> [k \in 0 .. NDirect + PerBlock + PerBlock * PerBlock - 1 |-> 0]]

----------------------------------------------------------------------------
(* Reading the image *)

InoBlock(i) == (i - 1) \div InosPerBlock
GetIno(i)   == itab[InoBlock(i)][i]
Live(i)     == i \in Inos /\ GetIno(i).kind # "free"

\* The pointers that lead to block idx of a file, from the inode down: which
\* root pointer, then the entries of the pointer blocks.
Route(idx) ==
    LET second == idx - NDirect - PerBlock IN
    CASE idx < NDirect -> [root |-> "direct", at |-> idx + 1, path |-> <<>>]
      [] idx >= NDirect /\ idx < NDirect + PerBlock ->
           [root |-> "indirect", at |-> 0, path |-> <<idx - NDirect + 1>>]
      [] OTHER -> [root |-> "dind", at |-> 0,
                   path |-> <<second \div PerBlock + 1, (second % PerBlock) + 1>>]

FileLimit == NDirect + PerBlock + PerBlock * PerBlock

RootOf(r, route) ==
    IF route.root = "direct" THEN r.direct[route.at] ELSE r[route.root]

\* Following a route: the blocks met, up to the first hole.
Follow(r, route) ==
    FoldLeft(LAMBDA met, e : IF Last(met) = Hole THEN met
                             ELSE Append(met, data[Last(met)][e][2]),
             <<RootOf(r, route)>>, route.path)

\* data_block(.., alloc = false); Hole for None.
BlockAt(r, idx) ==
    IF idx >= FileLimit THEN Hole
    ELSE Last(Follow(r, Route(idx)))

\* The entries of a directory, in slot order.
SlotBlock(r, k) == BlockAt(r, k \div PerBlock)
Slot(r, k)      == data[SlotBlock(r, k)][(k % PerBlock) + 1]
SlotsOf(r)      == {k \in 0 .. r.size - 1 : SlotBlock(r, k) # Hole}

\* lookup(): 0 for None.
Lookup(dir, name) ==
    LET r == GetIno(dir)
        hits == {k \in SlotsOf(r) : Slot(r, k)[1] = name}
    IN IF r.kind # "dir" \/ hits = {} THEN 0 ELSE Slot(r, Min(hits))[2]

Walk(path) ==
    FoldLeft(LAMBDA cur, name : IF ~Live(cur) THEN 0
                                ELSE LET c == Lookup(cur, name)
                                     IN IF Live(c) THEN c ELSE 0,
             Root, path)

Parent(path) == Walk(Front(path))

\* Every block an inode refers to, through its three kinds of pointer.
PointersIn(b) == {data[b][e][2] : e \in 1 .. PerBlock} \ {Hole}
Direct(r)   == {r.direct[k] : k \in 1 .. NDirect} \ {Hole}
Indirect(r) == IF r.indirect = Hole THEN {} ELSE {r.indirect} \cup PointersIn(r.indirect)
Dind(r)     == IF r.dind = Hole THEN {}
               ELSE {r.dind} \cup PointersIn(r.dind)
                    \cup UNION {PointersIn(l1) : l1 \in PointersIn(r.dind)}
Holds(r)    == Direct(r) \cup Indirect(r) \cup Dind(r)
Reached     == UNION {Holds(GetIno(i)) : i \in {j \in Inos : Live(j)}}

\* Mutant: the rebuild does not follow the double-indirect pointer.
Rebuilt_NoDind ==
    UNION {Direct(GetIno(i)) \cup Indirect(GetIno(i)) : i \in {j \in Inos : Live(j)}}

\* The bitmap rebuild_bitmap leaves: what the inodes refer to, level by level.
Rebuilt == Reached

----------------------------------------------------------------------------
(* One block out to the disk *)

Out(at, id, val) == [at |-> at, id |-> id, val |-> val]

\* put_ino(): the inode's block as read now, with this record in it.
PutIno(i, r) == Out("itab", InoBlock(i), [itab[InoBlock(i)] EXCEPT ![i] = r])

Flush(h) ==
    LET o == out[h] IN
    /\ o # Nothing
    /\ out' = [out EXCEPT ![h] = Nothing]
    /\ bmap' = IF o.at = "bmap" THEN o.val ELSE bmap
    /\ itab' = IF o.at = "itab" THEN [itab EXCEPT ![o.id] = o.val] ELSE itab
    /\ data' = IF o.at = "data" THEN [data EXCEPT ![o.id] = o.val] ELSE data
    /\ UNCHANGED <<call, todo, rec, got, table, victims, calls, cuts, torn, want>>

\* The hart may take the next step of its call.
At(h, step) ==
    /\ out[h] = Nothing
    /\ todo[h] # <<>>
    /\ Head(todo[h]) = step

Then(h, steps) == todo' = [todo EXCEPT ![h] = steps]
Write(h, o)    == out' = [out EXCEPT ![h] = o]
Keep           == UNCHANGED <<disk, calls, cuts, torn, want>>

----------------------------------------------------------------------------
(* balloc, bfree and data_block *)

\* What a call that runs out of blocks or inodes still does: write_at keeps
\* the blocks it wrote, the other calls return false at once.
AfterFailure(h) == IF call[h].op = "write" THEN <<"size">> ELSE <<>>

\* Mutant: balloc looks one block past the end.
Unmarked_PastEnd == (1 .. NBlocks + 1) \ bmap

\* Mutant: the bit looked at is the one before.
Unmarked_Shifted == {b \in Blocks : b - 1 \notin bmap}

Unmarked == Blocks \ bmap

Balloc(h) ==
    /\ At(h, "balloc")
    /\ IF Unmarked = {}
       THEN /\ Then(h, AfterFailure(h))
            /\ UNCHANGED <<got, out>>
       ELSE /\ got' = [got EXCEPT ![h] = Min(Unmarked)]
            /\ Write(h, Out("bmap", 0, bmap \cup {Min(Unmarked)}))
            /\ Then(h, <<"zero">> \o Tail(todo[h]))
    /\ Keep /\ UNCHANGED <<call, rec, table, victims>>

Zero(h) ==
    /\ At(h, "zero")
    /\ Write(h, Out("data", got[h], ZeroBlock))
    /\ Then(h, Tail(todo[h]))
    /\ Keep /\ UNCHANGED <<call, rec, got, table, victims>>

\* data_block(.., alloc = true): the first level that is missing is allocated
\* and hooked up, then the next one, until the block itself is there.
Map(h) ==
    LET route == Route(call[h].idx)
        met   == Follow(rec[h], route)
    IN
    /\ At(h, "map")
    /\ CASE call[h].idx >= FileLimit ->
              /\ Then(h, AfterFailure(h))
              /\ UNCHANGED <<got, table>>
         [] call[h].idx < FileLimit /\ Last(met) # Hole ->
              /\ got' = [got EXCEPT ![h] = Last(met)]
              /\ Then(h, Tail(todo[h]))
              /\ UNCHANGED table
         [] call[h].idx < FileLimit /\ met = <<Hole>> ->
              /\ Then(h, <<"balloc", "hookRoot">> \o todo[h])
              /\ UNCHANGED <<got, table>>
         [] OTHER ->
              /\ table' = [table EXCEPT ![h] =
                   [id |-> met[Len(met) - 1], val |-> data[met[Len(met) - 1]],
                    at |-> route.path[Len(met) - 1]]]
              /\ Then(h, <<"balloc", "hook">> \o todo[h])
              /\ UNCHANGED got
    /\ Keep /\ UNCHANGED <<call, rec, victims, out>>

WithRoot(r, route, b) ==
    IF route.root = "direct" THEN [r EXCEPT !.direct[route.at] = b]
    ELSE [r EXCEPT ![route.root] = b]

HookRoot(h) ==
    LET r == WithRoot(rec[h], Route(call[h].idx), got[h]) IN
    /\ At(h, "hookRoot")
    /\ rec' = [rec EXCEPT ![h] = r]
    /\ Write(h, PutIno(call[h].ino, r))
    /\ Then(h, Tail(todo[h]))
    /\ Keep /\ UNCHANGED <<call, got, table, victims>>

Hook(h) ==
    LET t == table[h] IN
    /\ At(h, "hook")
    /\ Write(h, Out("data", t.id, [t.val EXCEPT ![t.at] = <<"", got[h]>>]))
    /\ Then(h, Tail(todo[h]))
    /\ Keep /\ UNCHANGED <<call, rec, got, table, victims>>

\* free_ino_blocks(): one bfree per block the inode refers to.
FreeBlocks(h) ==
    /\ At(h, "free")
    /\ IF victims[h] = {}
       THEN /\ Then(h, Tail(todo[h]))
            /\ UNCHANGED <<victims, out>>
       ELSE /\ victims' = [victims EXCEPT ![h] = @ \ {Min(@)}]
            /\ Write(h, Out("bmap", 0, bmap \ {Min(victims[h])}))
            /\ UNCHANGED todo
    /\ Keep /\ UNCHANGED <<call, rec, got, table>>

----------------------------------------------------------------------------
(* The inode and the directory entry of a new name *)

FreeInos == {i \in Inos : GetIno(i).kind = "free"}

TakeIno(h) ==
    LET i == Min(FreeInos) IN
    /\ At(h, "takeIno")
    /\ IF FreeInos = {}
       THEN /\ Then(h, AfterFailure(h))
            /\ UNCHANGED <<call, out>>
       ELSE /\ call' = [call EXCEPT ![h].child = i]
            /\ Write(h, PutIno(i, Fresh(IF call[h].op = "mkdir" THEN "dir" ELSE "file")))
            /\ Then(h, Tail(todo[h]))
    /\ Keep /\ UNCHANGED <<rec, got, table, victims>>

FreeSlots(r) == {k \in SlotsOf(r) : Slot(r, k) = Nil}

Entry(h) == <<Last(call[h].path), call[h].child>>

SetSlot(b, k, e) == Out("data", b, [data[b] EXCEPT ![(k % PerBlock) + 1] = e])

\* Mutant: the directory's size is written before its new block is there.
AppendSteps_GrowFirst == <<"grow", "map", "append">>

AppendSteps == <<"map", "append", "grow">>

\* dir_insert(): the first free slot, or one more at the end.
Insert(h) ==
    LET dir == call[h].ino
        r   == GetIno(dir)
        k   == Min(FreeSlots(r))
    IN
    /\ At(h, "insert")
    /\ rec' = [rec EXCEPT ![h] = r]
    /\ CASE r.kind # "dir" ->
              /\ Then(h, AfterFailure(h))
              /\ UNCHANGED <<call, out>>
         [] r.kind = "dir" /\ FreeSlots(r) # {} ->
              /\ Write(h, SetSlot(SlotBlock(r, k), k, Entry(h)))
              /\ Then(h, Tail(todo[h]))
              /\ UNCHANGED call
         [] OTHER ->
              /\ call' = [call EXCEPT ![h].idx = r.size \div PerBlock]
              /\ Then(h, AppendSteps \o Tail(todo[h]))
              /\ UNCHANGED out
    /\ Keep /\ UNCHANGED <<got, table, victims>>

AppendEntry(h) ==
    /\ At(h, "append")
    /\ Write(h, SetSlot(got[h], rec[h].size, Entry(h)))
    /\ Then(h, Tail(todo[h]))
    /\ Keep /\ UNCHANGED <<call, rec, got, table, victims>>

Grow(h) ==
    /\ At(h, "grow")
    /\ Write(h, PutIno(call[h].ino, [rec[h] EXCEPT !.size = @ + 1]))
    /\ Then(h, Tail(todo[h]))
    /\ Keep /\ UNCHANGED <<call, rec, got, table, victims>>

\* Mutant: link does not count the new name.
Linked_Forgets(r) == r

Linked(r) == [r EXCEPT !.nlink = @ + 1]

\* link(): the new name first, then the count in the record read before it.
CountLink(h) ==
    /\ At(h, "countLink")
    /\ Write(h, PutIno(call[h].child, Linked(call[h].old)))
    /\ Then(h, Tail(todo[h]))
    /\ Keep /\ UNCHANGED <<call, rec, got, table, victims>>

----------------------------------------------------------------------------
(* The data and the size of a file; the end of an inode *)

WriteData(h) ==
    LET c == call[h] IN
    /\ At(h, "data")
    /\ Write(h, Out("data", got[h], [data[got[h]] EXCEPT ![1] = <<"data", c.tag>>]))
    /\ call' = [call EXCEPT ![h].idx = @ + 1, ![h].n = @ - 1]
    /\ Then(h, IF c.n > 1 THEN <<"map", "data", "size">> ELSE <<"size">>)
    /\ Keep /\ UNCHANGED <<rec, got, table, victims>>

WriteSize(h) ==
    /\ At(h, "size")
    /\ IF call[h].idx > rec[h].size
       THEN Write(h, PutIno(call[h].ino, [rec[h] EXCEPT !.size = call[h].idx]))
       ELSE UNCHANGED out
    /\ Then(h, <<>>)
    /\ Keep /\ UNCHANGED <<call, rec, got, table, victims>>

\* Mutant: truncation predates the double-indirect pointer.
Empty_KeepsDind(r) == [r EXCEPT !.size = 0, !.direct = FreeIno.direct, !.indirect = Hole]

\* truncate_path() keeps the inode, with no blocks.
Empty(r) == [r EXCEPT !.size = 0, !.direct = FreeIno.direct, !.indirect = Hole, !.dind = Hole]

EmptyIno(h) ==
    /\ At(h, "empty")
    /\ Write(h, PutIno(call[h].ino, Empty(rec[h])))
    /\ Then(h, <<>>)
    /\ Keep /\ UNCHANGED <<call, rec, got, table, victims>>

\* unlink() after it cleared the entry: one name less, or no more inode.
Drop(h) ==
    LET i == call[h].child
        r == GetIno(i)
    IN
    /\ At(h, "drop")
    /\ CASE ~Live(i) ->
              /\ Then(h, <<>>)
              /\ UNCHANGED <<rec, victims, out>>
         [] Live(i) /\ r.nlink > 1 ->
              /\ Write(h, PutIno(i, [r EXCEPT !.nlink = @ - 1]))
              /\ Then(h, <<>>)
              /\ UNCHANGED <<rec, victims>>
         [] OTHER ->
              /\ victims' = [victims EXCEPT ![h] = Holds(r)]
              /\ Then(h, <<"free", "clearKind">>)
              /\ UNCHANGED <<rec, out>>
    /\ Keep /\ UNCHANGED <<call, got, table>>

ClearKind(h) ==
    LET i == call[h].child IN
    /\ At(h, "clearKind")
    /\ Write(h, PutIno(i, [GetIno(i) EXCEPT !.kind = "free"]))
    /\ Then(h, <<>>)
    /\ Keep /\ UNCHANGED <<call, rec, got, table, victims>>

----------------------------------------------------------------------------
(* System calls *)

Idle(h) == call[h] = NoCall

\* A call enters the file system with its work list; one that fails its first
\* checks changes nothing and is not counted.
Enter(h, c, steps) ==
    /\ Idle(h)
    /\ calls < MaxCalls
    /\ calls' = calls + 1
    /\ call' = [call EXCEPT ![h] = c]
    /\ todo' = [todo EXCEPT ![h] = steps]
    /\ UNCHANGED <<disk, got, table, cuts, torn, want>>

Named(path) == [NoCall EXCEPT !.path = path]

\* What create_empty() and mkdir() have in common.
NewName(h, path, op) ==
    /\ Walk(path) = 0
    /\ Parent(path) # 0
    /\ Enter(h, [Named(path) EXCEPT !.op = op, !.ino = Parent(path)], <<"takeIno", "insert">>)
    /\ UNCHANGED <<rec, victims, out>>

\* create_empty() of open with O_CREATE.
Create(h, path) == NewName(h, path, "create")

Mkdir(h, path) == NewName(h, path, "mkdir")

\* write_at() of n blocks from block idx on; the offset may be past the end.
WriteAt(h, path, idx, n, tag) ==
    LET i == Walk(path) IN
    /\ i # 0
    /\ GetIno(i).kind = "file"
    /\ Enter(h, [Named(path) EXCEPT !.op = "write", !.ino = i, !.idx = idx, !.from = idx,
                                    !.n = n, !.tag = tag], <<"map", "data", "size">>)
    /\ rec' = [rec EXCEPT ![h] = GetIno(i)]
    /\ UNCHANGED <<victims, out>>

\* truncate_path() of open with O_TRUNC.
Truncate(h, path) ==
    LET i == Walk(path) IN
    /\ i # 0
    /\ GetIno(i).kind = "file"
    /\ Enter(h, [Named(path) EXCEPT !.op = "truncate", !.ino = i], <<"free", "empty">>)
    /\ rec' = [rec EXCEPT ![h] = GetIno(i)]
    /\ victims' = [victims EXCEPT ![h] = Holds(GetIno(i))]
    /\ UNCHANGED out

\* unlink() of a file or of a directory, empty or not.
Unlink(h, path) ==
    LET dir == Parent(path)
        r   == GetIno(dir)
        k   == Min({s \in SlotsOf(r) : Slot(r, s)[1] = Last(path)})
    IN
    /\ dir # 0
    /\ r.kind = "dir"
    /\ \E s \in SlotsOf(r) : Slot(r, s)[1] = Last(path)
    /\ Enter(h, [Named(path) EXCEPT !.op = "unlink", !.ino = dir, !.child = Slot(r, k)[2]],
             <<"drop">>)
    /\ Write(h, SetSlot(SlotBlock(r, k), k, Nil))
    /\ UNCHANGED <<rec, victims>>

Link(h, old, new) ==
    LET i == Walk(old) IN
    /\ i # 0
    /\ GetIno(i).kind = "file"
    /\ Walk(new) = 0
    /\ Parent(new) # 0
    /\ Enter(h, [Named(new) EXCEPT !.op = "link", !.ino = Parent(new), !.child = i,
                                   !.old = GetIno(i)], <<"insert", "countLink">>)
    /\ UNCHANGED <<rec, victims, out>>

\* What a file reads, block by block; 0 where nothing was written.
Contents(i) ==
    [k \in 0 .. FileLimit - 1 |->
        IF ~Live(i) \/ GetIno(i).kind = "dir" \/ BlockAt(GetIno(i), k) = Hole
        THEN 0 ELSE data[BlockAt(GetIno(i), k)][1][2]]

\* What the files should hold once the call returns.
Wanted(c) ==
    CASE c.op = "write" ->
           [want EXCEPT ![c.ino] = [k \in DOMAIN @ |-> IF k \in c.from .. c.idx - 1
                                                       THEN c.tag ELSE @[k]]]
      [] c.op = "truncate" -> [want EXCEPT ![c.ino] = [k \in DOMAIN @ |-> 0]]
      [] c.op \in {"create", "mkdir"} /\ c.child # 0 ->
           [want EXCEPT ![c.child] = [k \in DOMAIN @ |-> 0]]
      [] OTHER -> want

Return(h) ==
    /\ ~Idle(h)
    /\ todo[h] = <<>>
    /\ out[h] = Nothing
    /\ want' = Wanted(call[h])
    /\ call' = [call EXCEPT ![h] = NoCall]
    /\ rec' = [rec EXCEPT ![h] = FreeIno]
    /\ got' = [got EXCEPT ![h] = Hole]
    /\ table' = [table EXCEPT ![h] = NoTable]
    /\ UNCHANGED <<disk, todo, victims, out, calls, cuts, torn>>

\* The power fails and the machine mounts the image again: it is dirty, so
\* rebuild_bitmap marks what the inodes refer to and nothing else.
PowerCut ==
    LET inside == {h \in Harts : ~Idle(h)} IN
    /\ cuts < MaxCuts
    /\ inside # {}
    /\ cuts' = cuts + 1
    /\ bmap' = Rebuilt
    /\ torn' = torn \cup {call[h].op : h \in inside}
    /\ want' = [i \in Inos |-> IF \E h \in inside : i \in {call[h].ino, call[h].child}
                               THEN Contents(i) ELSE want[i]]
    /\ call' = [h \in Harts |-> NoCall]
    /\ todo' = [h \in Harts |-> <<>>]
    /\ rec' = [h \in Harts |-> FreeIno]
    /\ got' = [h \in Harts |-> Hole]
    /\ table' = [h \in Harts |-> NoTable]
    /\ victims' = [h \in Harts |-> {}]
    /\ out' = [h \in Harts |-> Nothing]
    /\ UNCHANGED <<itab, data, calls>>

Step(h) ==
    \/ Flush(h)
    \/ Balloc(h) \/ Zero(h) \/ Map(h) \/ HookRoot(h) \/ Hook(h) \/ FreeBlocks(h)
    \/ TakeIno(h) \/ Insert(h) \/ AppendEntry(h) \/ Grow(h) \/ CountLink(h)
    \/ WriteData(h) \/ WriteSize(h) \/ EmptyIno(h) \/ Drop(h) \/ ClearKind(h)
    \/ Return(h)

Syscall(h) ==
    \/ \E p \in Paths : Create(h, p) \/ Mkdir(h, p)
    \/ \E p \in Paths, i \in Offsets, n \in 1 .. MaxLen : WriteAt(h, p, i, n, calls + 1)
    \/ \E p \in Paths : Truncate(h, p)
    \/ \E p \in Paths : Unlink(h, p)
    \/ \E p, q \in Paths : Link(h, p, q)

Next == (\E h \in Harts : Step(h) \/ Syscall(h)) \/ PowerCut

Spec == Init /\ [][Next]_vars

----------------------------------------------------------------------------

TypeOK ==
    /\ bmap \subseteq Blocks
    /\ \A i \in Inos : LET r == GetIno(i) IN
         /\ r.kind \in {"free", "file", "dir"}
         /\ r.size \in Nat /\ r.nlink \in Nat
         /\ r.direct \in [1 .. NDirect -> 0 .. NBlocks]
         /\ {r.indirect, r.dind} \subseteq 0 .. NBlocks
    /\ \A b \in Blocks : \A e \in 1 .. PerBlock : data[b][e][2] \in Nat
    /\ \A h \in Harts : /\ got[h] \in 0 .. NBlocks
                        /\ victims[h] \subseteq Blocks
                        /\ call[h].child \in 0 .. NInodes

Count(b)    == Cardinality({e \in 1 .. PerBlock : data[b][e][2] # Hole})
CountIn(bs) == MapThenSumSet(Count, bs)
Pointers(i) ==
    LET r == GetIno(i) IN
    Cardinality({k \in 1 .. NDirect : r.direct[k] # Hole})
      + (IF r.indirect = Hole THEN 0 ELSE 1 + Count(r.indirect))
      + (IF r.dind = Hole THEN 0 ELSE 1 + Count(r.dind) + CountIn(PointersIn(r.dind)))

\* Safety.  No block has two owners, at any moment and after any power cut: as
\* many distinct blocks are referred to as there are pointers in live inodes
\* (balloc, data_block, free_ino_blocks and the order of their writes).
NoSharedBlock ==
    Cardinality(Reached) = MapThenSumSet(Pointers, {i \in Inos : Live(i)})

\* Safety.  Between system calls the bitmap marks exactly what the inodes refer
\* to, whatever ran out, was freed or was interrupted before: a block is
\* neither lost for good nor free while a file uses it.
BitmapExact == (\A h \in Harts : Idle(h)) => bmap = Reached

\* Safety.  A file reads what completed writes put there, through holes and all
\* levels of the block map: no other call, failure for lack of space or power
\* cut changes a block of a file it does not work on.
ReadBack ==
    \A i \in Inos :
      (\A h \in Harts : i \notin {call[h].ino, call[h].child}) =>
        (Live(i) /\ GetIno(i).kind = "file" => Contents(i) = want[i])

Names == {<<d, k>> \in Inos \X (0 .. NInodes + 1) :
            Live(d) /\ GetIno(d).kind = "dir" /\ k \in SlotsOf(GetIno(d))
                    /\ Slot(GetIno(d), k) # Nil}
NameAt(n) == Slot(GetIno(n[1]), n[2])

\* Safety.  Between system calls every name leads to a live inode that counts
\* at least its names, and a directory has a name once, unless a power cut came
\* inside link(): it counts the new name only after entering it.
NamesAreLive ==
    (\A h \in Harts : Idle(h)) /\ "link" \notin torn =>
      /\ \A n \in Names :
           /\ Live(NameAt(n)[2])
           /\ GetIno(NameAt(n)[2]).nlink >=
                Cardinality({m \in Names : NameAt(m)[2] = NameAt(n)[2]})
      /\ \A m, n \in Names : m[1] = n[1] /\ NameAt(m)[1] = NameAt(n)[1] => m = n

\* Safety.  Every slot below a directory's size is in a block: lookup() gives up
\* at a hole, so a hole would hide all names after it (dir_insert's order).
DirsHaveNoHoles ==
    \A i \in Inos : LET r == GetIno(i) IN
      r.kind = "dir" => SlotsOf(r) = 0 .. r.size - 1

\* Safety.  The file system is a tree on disk: no two files own a block, the bitmap marks
\* exactly the blocks of files that are linked or open, every entry names a live inode, and
\* no name of a directory is behind a hole.
TreeIsSound == TypeOK /\ NoSharedBlock /\ BitmapExact /\ NamesAreLive /\ DirsHaveNoHoles
============================================================================
