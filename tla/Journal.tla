------------------------------ MODULE Journal ------------------------------
(***************************************************************************)
(* The write-ahead journal of the disk file system (kernel/src/fs/jnl.rs), *)
(* the write-through block writes that feed it (fs/blk.rs), mounting and   *)
(* recovery (fs/disk.rs), the brackets around system calls and the clean   *)
(* shutdown (syscall.rs), under power cuts.                                *)
(*                                                                         *)
(* Every sector written to the device is one step, so a power cut can come *)
(* between any two of them; every critical section under the JLOG lock is  *)
(* one step.  The contents of a block are the number of the system call    *)
(* that wrote it, the CRC of a record is the contents it binds.  A system  *)
(* call is the sequence of blocks it writes (bitmap updates of a call are  *)
(* among them); calls that overlap write disjoint blocks.                  *)
(***************************************************************************)
EXTENDS Integers, Sequences, FiniteSets

CONSTANTS
    Harts,
    Data,          \* blocks that system calls write
    Sb, Bitmap,    \* the superblock and the block bitmap
    MountReads,    \* data blocks mount reads before it replays (root's inode)
    NRec,          \* slots of the ring (255 with mkfs' 512 sectors)
    Chunk,         \* records a transaction holds before the valve opens (200)
    Rebuilds,      \* bitmap writes of a rebuild: one per reserved block
    Calls,         \* what a system call may write: sequences of data blocks
    MaxCalls,      \* bound of the model: system calls
    MaxCuts,       \* bound of the model: power cuts
    MaxGen         \* bound of the model: generations

ASSUME JournalAssumption ==
    /\ Sb \notin Data /\ Bitmap \notin Data /\ Sb # Bitmap
    /\ MountReads \subseteq Data
    /\ Chunk \in Nat \ {0, 1} /\ NRec \in Nat /\ NRec > Chunk + 2
    /\ Rebuilds \in Nat /\ Rebuilds > NRec \* the journal's own sectors alone
    /\ Calls \subseteq Seq(Data)
    /\ {MaxCalls, MaxCuts, MaxGen} \subseteq Nat

Blocks == Data \cup {Sb, Bitmap}
Slots  == 0 .. NRec - 1

\* Contents of a sector: zeros, the number of a call, or one of these.
Zeros == 0
Clean == -1      \* the superblock with dirty = 0
Dirty == -2      \* the superblock with dirty = 1
Partial == -3    \* a bitmap some used blocks of which are not marked
Whole == -4      \* a bitmap with every used block marked
Contents == -4 .. MaxCalls
NotCached == -5

VARIABLES
    \* --- the device ---
    home,      \* contents of each block
    slotA,     \* first sector of each slot: a record, or anything else
    slotB,     \* second sector of each slot: data
    header,    \* generation in the journal header, 0 when never stamped
    \* --- memory ---
    jlog,      \* JLOG, under its lock
    cache,     \* the block cache, for data blocks
    job,       \* per hart: what its block writes are part of
    pc,        \* per hart: where in blk::write, record or write_commit it is
    todo,      \* per hart: the block writes left
    rec,       \* per hart: the data record being written
    seal,      \* per hart: the commit record being written
    replay,    \* records recovery has still to apply
    call,      \* per hart: number of its system call
    \* --- history ---
    writes,    \* blocks each system call wrote or would have written
    acked,     \* system calls that returned
    cuts,      \* power cuts so far
    skipped    \* a cut left a clean flag on a half recovered device

device  == <<home, slotA, slotB, header>>
history == <<writes, acked, cuts, skipped>>
vars == <<device, jlog, cache, job, pc, todo, rec, seal, replay, call, history>>

Jobs   == {"off", "init", "replay", "rebuild", "clear", "mark", "up", "call", "halt"}
Points == {"idle", "take", "sealSeq", "sealA", "sealB", "dataA", "dataB",
           "home", "cache", "commit", "header"}

NoRec == [kind |-> "none", gen |-> 0, seq |-> 0, lba |-> Sb, tx |-> 0, sum |-> Zeros]

\* The static JLOG at power on.
FreshLog == [next |-> 0, gen |-> 0, depth |-> 0, tx |-> 0, count |-> 0, txNext |-> 1]

\* What a power cut leaves of memory.
PoweredOff ==
    /\ jlog' = FreshLog
    /\ cache' = [b \in Data |-> NotCached]
    /\ job' = [h \in Harts |-> "off"]
    /\ pc' = [h \in Harts |-> "idle"]
    /\ todo' = [h \in Harts |-> <<>>]
    /\ rec' = [h \in Harts |-> NoRec]
    /\ seal' = [h \in Harts |-> NoRec]
    /\ replay' = {}
    /\ call' = [h \in Harts |-> 0]

\* An image fresh from mkfs: dirty, its journal area all zeros.
Init ==
    /\ home = [b \in Blocks |-> IF b = Sb THEN Dirty ELSE IF b = Bitmap THEN Whole ELSE Zeros]
    /\ slotA = [s \in Slots |-> NoRec]
    /\ slotB = [s \in Slots |-> Zeros]
    /\ header = 0
    /\ jlog = FreshLog
    /\ cache = [b \in Data |-> NotCached]
    /\ job = [h \in Harts |-> "off"]
    /\ pc = [h \in Harts |-> "idle"]
    /\ todo = [h \in Harts |-> <<>>]
    /\ rec = [h \in Harts |-> NoRec]
    /\ seal = [h \in Harts |-> NoRec]
    /\ replay = {}
    /\ call = [h \in Harts |-> 0]
    /\ writes = <<>>
    /\ acked = {}
    /\ cuts = 0
    /\ skipped = FALSE

----------------------------------------------------------------------------
(* blk::write: the record, then the block, then the cache *)

Goto(h, from, to) ==
    /\ pc[h] = from
    /\ pc' = [pc EXCEPT ![h] = to]

Slot(r) == r.seq % NRec

\* The next transaction id goes to an empty transaction.
Opened(j) == [j EXCEPT !.tx = j.txNext, !.txNext = @ + 1, !.count = 0]

\* Mutant: the record that opens the valve is counted in the chunk it closes.
Counted_Before(j) ==
    IF j.depth = 0 THEN j
    ELSE IF j.count >= Chunk THEN Opened(j)
    ELSE [j EXCEPT !.count = @ + 1]

\* JLOG after record() counted one record: outside the brackets of a system
\* call it belongs to no transaction, and a full chunk makes room for it.
Counted(j) ==
    IF j.depth = 0 THEN j
    ELSE LET k == IF j.count >= Chunk THEN Opened(j) ELSE j
         IN [k EXCEPT !.count = @ + 1]

\* record(), under the lock.
TakeSeq(h) ==
    LET valve == jlog.depth > 0 /\ jlog.count >= Chunk
        after == Counted(jlog)
    IN
    /\ Goto(h, "take", IF valve THEN "sealSeq" ELSE "dataA")
    /\ jlog' = [after EXCEPT !.next = jlog.next + 1]
    /\ rec' = [rec EXCEPT ![h] =
                 [kind |-> "data", gen |-> jlog.gen, seq |-> jlog.next,
                  lba |-> Head(todo[h])[1], sum |-> Head(todo[h])[2],
                  tx |-> IF jlog.depth = 0 THEN 0 ELSE after.tx]]
    /\ seal' = IF valve
               THEN [seal EXCEPT ![h] = [NoRec EXCEPT !.kind = "commit", !.gen = jlog.gen,
                                                      !.tx = jlog.tx, !.sum = jlog.count]]
               ELSE seal
    /\ UNCHANGED <<device, cache, job, todo, replay, call, history>>

WriteDataA(h) ==
    /\ Goto(h, "dataA", "dataB")
    /\ slotA' = [slotA EXCEPT ![Slot(rec[h])] = rec[h]]
    /\ UNCHANGED <<home, slotB, header, jlog, cache, job, todo, rec, seal, replay, call, history>>

WriteDataB(h) ==
    /\ Goto(h, "dataB", "home")
    /\ slotB' = [slotB EXCEPT ![Slot(rec[h])] = rec[h].sum]
    /\ UNCHANGED <<home, slotA, header, jlog, cache, job, todo, rec, seal, replay, call, history>>

WriteHome(h) ==
    /\ Goto(h, "home", "cache")
    /\ home' = [home EXCEPT ![rec[h].lba] = rec[h].sum]
    /\ UNCHANGED <<slotA, slotB, header, jlog, cache, job, todo, rec, seal, replay, call, history>>

\* The cache takes in block b; some other block may have to leave.
Cached(b, x) ==
    \E out \in SUBSET (Data \ {b}) :
        /\ Cardinality(out) <= 1
        /\ cache' = [c \in Data |-> IF c = b THEN x ELSE IF c \in out THEN NotCached ELSE cache[c]]

\* The end of blk::write, and the next block of this hart.
WriteCache(h) ==
    /\ Goto(h, "cache", IF Len(todo[h]) > 1 THEN "take"
                        ELSE IF job[h] = "call" THEN "commit" ELSE "idle")
    /\ todo' = [todo EXCEPT ![h] = Tail(@)]
    /\ rec' = [rec EXCEPT ![h] = NoRec]
    /\ IF rec[h].lba \in Data THEN Cached(rec[h].lba, rec[h].sum) ELSE UNCHANGED cache
    /\ UNCHANGED <<device, jlog, job, seal, replay, call, history>>

\* Mutant: write_commit() reads the next number and leaves it to others too.
SealSeq_Shared(h) ==
    /\ Goto(h, "sealSeq", "sealA")
    /\ seal' = [seal EXCEPT ![h].seq = jlog.next]
    /\ UNCHANGED <<device, jlog, cache, job, todo, rec, replay, call, history>>

\* write_commit(): a sequence number, then the two sectors of the slot.
SealSeq(h) ==
    /\ Goto(h, "sealSeq", "sealA")
    /\ seal' = [seal EXCEPT ![h].seq = jlog.next]
    /\ jlog' = [jlog EXCEPT !.next = @ + 1]
    /\ UNCHANGED <<device, cache, job, todo, rec, replay, call, history>>

SealA(h) ==
    /\ Goto(h, "sealA", "sealB")
    /\ slotA' = [slotA EXCEPT ![Slot(seal[h])] = seal[h]]
    /\ UNCHANGED <<home, slotB, header, jlog, cache, job, todo, rec, seal, replay, call, history>>

\* The system call of hart h returns to user mode.
Return(h) ==
    /\ acked' = acked \cup {call[h]}
    /\ job' = [job EXCEPT ![h] = "up"]
    /\ call' = [call EXCEPT ![h] = 0]

\* After the valve the record goes on; after commit() the call returns.
SealB(h) ==
    /\ Goto(h, "sealB", IF rec[h] # NoRec THEN "dataA" ELSE "idle")
    /\ slotB' = [slotB EXCEPT ![Slot(seal[h])] = Zeros]
    /\ seal' = [seal EXCEPT ![h] = NoRec]
    /\ IF rec[h] # NoRec THEN UNCHANGED <<acked, job, call>> ELSE Return(h)
    /\ UNCHANGED <<home, slotA, header, jlog, cache, todo, rec, replay, writes, cuts, skipped>>

----------------------------------------------------------------------------
(* System calls *)

\* begin() and the body of a mutating system call, on a hart in user mode.
Begin(h, blocks) ==
    LET n == Len(writes) + 1 IN
    /\ job[h] = "up" /\ n <= MaxCalls
    /\ LET mine == {blocks[i] : i \in DOMAIN blocks} IN
         /\ \A g \in Harts : call[g] # 0 => writes[call[g]] \cap mine = {}
         /\ writes' = Append(writes, mine)
    /\ jlog' = [(IF jlog.depth = 0 THEN Opened(jlog) ELSE jlog) EXCEPT !.depth = @ + 1]
    /\ Goto(h, "idle", IF blocks = <<>> THEN "commit" ELSE "take")
    /\ job' = [job EXCEPT ![h] = "call"]
    /\ call' = [call EXCEPT ![h] = n]
    /\ todo' = [todo EXCEPT ![h] = [i \in DOMAIN blocks |-> <<blocks[i], n>>]]
    /\ UNCHANGED <<device, cache, rec, seal, replay, acked, cuts, skipped>>

\* Mutant: commit() forgets to leave its bracket.
Left_Open(j) == j

\* A bracket is left; the transaction ends with the outermost one.
Left(j) ==
    IF j.depth = 1 THEN [j EXCEPT !.depth = 0, !.tx = 0, !.count = 0]
    ELSE [j EXCEPT !.depth = @ - 1]

\* commit(), under the lock.  Only the call that leaves the outermost bracket
\* writes a commit record, if anything was recorded; any other returns at once.
Commit(h) ==
    LET seals == jlog.depth = 1 /\ jlog.count > 0 IN
    /\ Goto(h, "commit", IF seals THEN "sealSeq" ELSE "idle")
    /\ jlog' = Left(jlog)
    /\ seal' = IF seals
               THEN [seal EXCEPT ![h] = [NoRec EXCEPT !.kind = "commit", !.gen = jlog.gen,
                                                      !.tx = jlog.tx, !.sum = jlog.count]]
               ELSE seal
    /\ IF seals THEN UNCHANGED <<acked, job, call>> ELSE Return(h)
    /\ UNCHANGED <<device, cache, todo, rec, replay, writes, cuts, skipped>>

\* blk::read of a data block: a miss installs what the device holds.
Read(h, b) ==
    /\ job[h] = "up"
    /\ IF cache[b] = NotCached THEN Cached(b, home[b]) ELSE UNCHANGED cache
    /\ UNCHANGED <<device, jlog, job, pc, todo, rec, seal, replay, call, history>>

----------------------------------------------------------------------------
(* Mounting *)

\* Mutant: records of generations before the last clean shutdown still count.
SlotsOfGen_Any(g) == {s \in Slots : slotA[s].kind # "none" /\ slotA[s].seq # 0}

SlotsOfGen(g) == {s \in Slots : slotA[s].kind # "none" /\ slotA[s].gen = g /\ slotA[s].seq # 0}

\* Mutant: commit records do not count for the highest sequence number.
MaxSeq_DataOnly(g) ==
    LET seqs == {slotA[s].seq : s \in {s \in SlotsOfGen(g) : slotA[s].kind = "data"}}
    IN IF seqs = {} THEN 0 ELSE CHOOSE m \in seqs : \A q \in seqs : q <= m

\* max_seq().
MaxSeq(g) ==
    LET seqs == {slotA[s].seq : s \in SlotsOfGen(g)}
    IN IF seqs = {} THEN 0 ELSE CHOOSE m \in seqs : \A q \in seqs : q <= m

\* Power on: mount reads the superblock and the root inode through the cache,
\* jnl::init stamps or adopts the header and continues the sequence.
Boot(h) ==
    LET g == IF header = 0 THEN 1 ELSE header IN
    /\ \A k \in Harts : job[k] = "off"
    /\ header' = g
    /\ jlog' = [jlog EXCEPT !.gen = g, !.next = MaxSeq(g) + 1]
    /\ cache' = [b \in Data |-> IF b \in MountReads THEN home[b] ELSE NotCached]
    /\ job' = [job EXCEPT ![h] = IF home[Sb] = Dirty THEN "init" ELSE "clear"]
    /\ UNCHANGED <<home, slotA, slotB, pc, todo, rec, seal, replay, call, history>>

\* A data record counts when its second sector is the one its CRC binds.
Valid(g) == {s \in SlotsOfGen(g) : slotA[s].kind = "data" /\ slotA[s].sum = slotB[s]}

Commits(g, t) == {s \in SlotsOfGen(g) : slotA[s].kind = "commit" /\ slotA[s].tx = t}

\* A transaction is complete when it has a commit (the last one found, if it
\* has several) that counts its valid members.
Complete(g, t) ==
    /\ t # 0 => Commits(g, t) # {}
    /\ t # 0 => LET last == CHOOSE s \in Commits(g, t) : \A q \in Commits(g, t) : q <= s
                IN slotA[last].sum = Cardinality({s \in Valid(g) : slotA[s].tx = t})

\* The records replay() applies.
ToReplay(g) == {slotA[s] : s \in {s \in Valid(g) : Complete(g, slotA[s].tx)}}

StartReplay(h) ==
    /\ job[h] = "init"
    /\ job' = [job EXCEPT ![h] = "replay"]
    /\ replay' = ToReplay(jlog.gen)
    /\ UNCHANGED <<device, jlog, cache, pc, todo, rec, seal, call, history>>

\* Mutant: the newest record is applied first.
First_Newest(r) == \A q \in replay : q.seq <= r.seq

First(r) == \A q \in replay : r.seq <= q.seq

\* One raw write of replay(), which goes past the cache.
Apply(h, r) ==
    /\ job[h] = "replay"
    /\ First(r)
    /\ home' = [home EXCEPT ![r.lba] = r.sum]
    /\ replay' = replay \ {r}
    /\ jlog' = IF r.seq >= jlog.next THEN [jlog EXCEPT !.next = r.seq + 1] ELSE jlog
    /\ UNCHANGED <<slotA, slotB, header, cache, job, pc, todo, rec, seal, call, history>>

\* The writes of hart h for the next job.
Start(h, next, blocks) ==
    /\ job' = [job EXCEPT ![h] = next]
    /\ todo' = [todo EXCEPT ![h] = blocks]
    /\ Goto(h, "idle", "take")
    /\ UNCHANGED <<device, jlog, cache, rec, seal, replay, call, history>>

\* rebuild_bitmap(): zeros first, then one write for each block marked.
Rebuild(h) ==
    /\ job[h] = "replay" /\ replay = {}
    /\ Start(h, "rebuild", [i \in 1 .. Rebuilds |->
                              <<Bitmap, IF i = Rebuilds THEN Whole ELSE Partial>>])

\* set_dirty(false) after the rebuild; set_dirty(true) on every mount.
ClearDirty(h) == job[h] = "rebuild" /\ Start(h, "clear", <<<<Sb, Clean>>>>)
MarkDirty(h)  == job[h] = "clear" /\ Start(h, "mark", <<<<Sb, Dirty>>>>)

\* The file system is mounted and every hart may run user programs.
Mounted(h) ==
    /\ job[h] = "mark" /\ pc[h] = "idle"
    /\ job' = [k \in Harts |-> "up"]
    /\ UNCHANGED <<device, jlog, cache, pc, todo, rec, seal, replay, call, history>>

----------------------------------------------------------------------------
(* Shutdown and power cuts *)

\* SYS_SHUTDOWN: reset() under the lock, its header sector, set_dirty(false).
Halt(h) ==
    /\ job[h] = "up" /\ jlog.gen < MaxGen
    /\ Goto(h, "idle", "header")
    /\ job' = [job EXCEPT ![h] = "halt"]
    /\ jlog' = [jlog EXCEPT !.gen = @ + 1, !.next = 1]
    /\ UNCHANGED <<device, cache, todo, rec, seal, replay, call, history>>

WriteHeader(h) ==
    /\ Goto(h, "header", "take")
    /\ header' = jlog.gen
    /\ todo' = [todo EXCEPT ![h] = <<<<Sb, Clean>>>>]
    /\ UNCHANGED <<home, slotA, slotB, jlog, cache, job, rec, seal, replay, call, history>>

PowerDown(h) ==
    /\ job[h] = "halt" /\ pc[h] = "idle"
    /\ PoweredOff
    /\ UNCHANGED <<device, history>>

\* replay() applies the records of set_dirty() like any other: from the one that
\* cleared the flag to the one that set it, and if that one is missing to the end
\* of the rebuild, the device says it is clean and is not.
HalfRecovered == home[Sb] # Dirty /\ \E h \in Harts : job[h] \in {"replay", "rebuild"}

PowerCut ==
    /\ cuts < MaxCuts
    /\ \E h \in Harts : job[h] # "off"
    /\ PoweredOff
    /\ cuts' = cuts + 1
    /\ skipped' = (skipped \/ HalfRecovered)
    /\ UNCHANGED <<device, writes, acked>>

HartStep(h) ==
    \/ TakeSeq(h) \/ WriteDataA(h) \/ WriteDataB(h) \/ WriteHome(h) \/ WriteCache(h)
    \/ SealSeq(h) \/ SealA(h) \/ SealB(h) \/ Commit(h)
    \/ \E blocks \in Calls : Begin(h, blocks)
    \/ \E b \in Data : Read(h, b)
    \/ Boot(h) \/ StartReplay(h) \/ Rebuild(h) \/ ClearDirty(h) \/ MarkDirty(h) \/ Mounted(h)
    \/ \E r \in replay : Apply(h, r)
    \/ Halt(h) \/ WriteHeader(h) \/ PowerDown(h)

Next == PowerCut \/ \E h \in Harts : HartStep(h)

Spec == Init /\ [][Next]_vars

----------------------------------------------------------------------------
(* Properties *)

RecOK(r) ==
    /\ r.kind \in {"none", "data", "commit"}
    /\ r.gen \in 0 .. MaxGen /\ r.seq \in Nat /\ r.tx \in Nat
    /\ r.lba \in Blocks /\ r.sum \in Contents \cup 0 .. NRec

\* Types.  A bracket is open for a hart inside a system call only, so begin and
\* commit balance, and a transaction never outgrows its chunk.
TypeOK ==
    /\ home \in [Blocks -> Contents]
    /\ \A s \in Slots : RecOK(slotA[s]) /\ slotB[s] \in Contents
    /\ header \in 0 .. MaxGen
    /\ jlog.gen \in 0 .. MaxGen /\ jlog.next \in Nat
    /\ jlog.depth <= Cardinality({h \in Harts : job[h] = "call"})
    /\ jlog.count \in 0 .. Chunk
    /\ cache \in [Data -> Contents \cup {NotCached}]
    /\ job \in [Harts -> Jobs] /\ pc \in [Harts -> Points]
    /\ \A h \in Harts : RecOK(rec[h]) /\ RecOK(seal[h])
    /\ \A r \in replay : RecOK(r)
    /\ writes \in Seq(SUBSET Data) /\ acked \subseteq DOMAIN writes

Up == \A h \in Harts : job[h] \in {"up", "call"}

\* "Crash cuts (all correct by construction)", "Idempotent: safe on every dirty
\* mount": a write that returned survives any power cut, also one during
\* recovery.  A later call may overwrite its blocks, but recovery never brings
\* back what they held before.
AckedSurvive ==
    Up => \A n \in acked : \A b \in writes[n] : home[b] >= n

\* Recovery would replay now.  While it runs it would: the window in which a
\* cut stops the next one is not counted, skipped marks such a cut.
Replays == home[Sb] = Dirty \/ \E h \in Harts : job[h] \in {"replay", "rebuild"}

\* The contents each block would have after a power cut now and recovery.
Stable ==
    LET replayed == IF Replays THEN ToReplay(header) ELSE {}
        Newest(R) == CHOOSE r \in R : \A q \in R : q.seq <= r.seq
    IN [b \in Data |->
          LET R == {r \in replayed : r.lba = b} IN IF R = {} THEN home[b] ELSE Newest(R).sum]

Store == INSTANCE DurableStore WITH stable <- Stable

\* The journal implements the durable store until a cut makes mount skip
\* recovery: whenever the power is cut, also in the middle of recovery or
\* shutdown, with the ring wrapped and the valve opened, recovery would find
\* every call that returned, and nothing that no call wrote; and a call returns
\* only when recovery would find all of it.
IsDurableStore == Store!Init /\ [][~skipped' => Store!Next]_<<vars, Stable>>

\* max_seq: "a reused seq would collide with a live slot otherwise".  No record
\* of this generation has a number that is still to be handed out, and no two harts
\* are writing a record of the same number.
NextIsFresh ==
    /\ \A s \in SlotsOfGen(jlog.gen) : slotA[s].seq < jlog.next
    /\ \A g, h \in Harts : g # h /\ rec[g] # NoRec => rec[g].seq # rec[h].seq

\* A commit on the device never counts fewer records than its transaction has
\* in the ring, whatever calls were merged into it: else recovery, which wants
\* the exact count, would drop a finished call for ever.
CommitCountsMembers ==
    \A s \in Slots :
        slotA[s].kind = "commit" /\ slotA[s].gen = jlog.gen =>
            Cardinality({d \in Slots : /\ slotA[d].kind = "data"
                                       /\ slotA[d].gen = jlog.gen
                                       /\ slotA[d].tx = slotA[s].tx}) <= slotA[s].sum

(* Statements of the code's comments that the code does not keep *)

\* "Replay applies a TX whole or not at all (per-syscall atomic durability)":
\* a call that a power cut interrupted is on the disk with all its blocks (some
\* perhaps overwritten since) or with none.
InterruptedIsAtomic ==
    Up => \A n \in DOMAIN writes :
            (\A h \in Harts : call[h] # n) /\ (\E b \in writes[n] : home[b] = n)
                => \A b \in writes[n] : home[b] >= n

\* raw_read: "Bypass cache+journal (recovery/boot paths; cache is empty then)":
\* the cache of a machine that is up agrees with the device.
CacheIsHome ==
    Up /\ (\A h \in Harts : job[h] = "up")
        => \A b \in Data : cache[b] \in {NotCached, home[b]}

\* mount: "rebuild bitmap if dirty, then clear flag": programs run on a bitmap
\* that marks every used block.
BitmapIsWhole == Up => home[Bitmap] = Whole
=============================================================================
