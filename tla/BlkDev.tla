------------------------------- MODULE BlkDev -------------------------------
(***************************************************************************)
(* The block cache (kernel/src/fs/blk.rs) over the virtio disk driver      *)
(* (fs/virtio.rs), used by several harts at once.                          *)
(*                                                                         *)
(* The cache lock covers a look-up or an install, never the device I/O     *)
(* between them; the driver lock covers one request.  The device answers   *)
(* in any order and at any time, also after the driver stopped waiting:    *)
(* the buffers HDR, DATA and STB are the same for every request.  The      *)
(* contents of a sector are the number of the call that wrote it.          *)
(***************************************************************************)
EXTENDS Naturals, FiniteSets, FiniteSetsExt

CONSTANTS
    BlkHarts,     \* the harts that use the disk
    Capacity,     \* NCAP: sectors of the disk
    NSlot,        \* slots of the cache (64)
    MaxTimeouts,  \* bound of the model: requests the driver gives up on
    MaxBlkCalls   \* bound of the model: block reads and writes

ASSUME BlkDevAssumption ==
    /\ Capacity \in Nat \ {0} /\ NSlot \in Nat \ {0}
    /\ {MaxTimeouts, MaxBlkCalls} \subseteq Nat

NoHart  == "none"
Sectors == 0 .. Capacity - 1
Zeros   == 0

ASSUME NoHartAssumption == NoHart \notin BlkHarts

VARIABLES
    \* --- the cache ---
    cache,      \* CACHE: the slots
    hand,       \* HAND, the clock's position
    \* --- the driver and the device ---
    drv,        \* the hart that holds DRV_BUSY
    buf,        \* DATA
    stb,        \* STB: 255 until the device stored a status
    used,       \* the device's used index
    last_used,  \* LAST_USED
    pending,    \* requests the device has not answered
    irq,        \* INTSTAT
    dev,        \* the sectors
    \* --- the harts ---
    pc,         \* where a hart is
    op,         \* "read", "ahead" or "write"
    lba,        \* the sector it works on
    val,        \* what it writes, or what it read so far
    ok,         \* the driver's answer
    \* --- history ---
    timeouts,   \* requests given up on
    blkCalls,   \* calls so far
    latest,     \* per sector: the last write that returned
    seen,       \* per hart: contents its read may return
    raced       \* sectors with overlapping writes, or evicted during a fetch

cacheVars  == <<cache, hand>>
driverVars == <<drv, buf, stb, used, last_used, pending, irq, dev>>
hartVars   == <<pc, op, lba, val, ok>>
history    == <<timeouts, blkCalls, latest, seen, raced>>
blkVars == <<cacheVars, driverVars, hartVars, history>>

EmptySlot == [lba |-> 0, valid |-> FALSE, referenced |-> FALSE, data |-> Zeros]

BlkInit ==
    /\ cache = [i \in 0 .. NSlot - 1 |-> EmptySlot]
    /\ hand = 0
    /\ drv = NoHart
    /\ buf = Zeros
    /\ stb = 0
    /\ used = 0
    /\ last_used = 0
    /\ pending = {}
    /\ irq = FALSE
    /\ dev = [b \in Sectors |-> Zeros]
    /\ pc = [h \in BlkHarts |-> "idle"]
    /\ op = [h \in BlkHarts |-> "read"]
    /\ lba = [h \in BlkHarts |-> 0]
    /\ val = [h \in BlkHarts |-> Zeros]
    /\ ok = [h \in BlkHarts |-> FALSE]
    /\ timeouts = 0
    /\ blkCalls = 0
    /\ latest = [b \in Sectors |-> Zeros]
    /\ seen = [h \in BlkHarts |-> {}]
    /\ raced = {}

----------------------------------------------------------------------------
(* The cache, under its lock *)

Holding(b) == {i \in DOMAIN cache : cache[i].valid /\ cache[i].lba = b}
Cached(b)  == Holding(b) # {}
Data(b)    == cache[Min(Holding(b))].data

Passed(k) == (hand + k) % NSlot

\* Second chance: the hand takes the first slot that is empty or unreferenced,
\* and every slot it passes loses its reference.
Laps == Min({k \in 0 .. NSlot : k = NSlot \/ ~cache[Passed(k)].valid
                                          \/ ~cache[Passed(k)].referenced})
Victim == Passed(Laps)
SweptCache == [i \in DOMAIN cache |->
                 IF \E k \in 0 .. Laps - 1 : Passed(k) = i
                 THEN [cache[i] EXCEPT !.referenced = FALSE] ELSE cache[i]]

Fetching(b) == \E h \in BlkHarts : pc[h] # "idle" /\ op[h] # "write" /\ lba[h] = b
Writing(b)  == {h \in BlkHarts : pc[h] # "idle" /\ op[h] = "write" /\ lba[h] = b}

\* Mutant: read() installs what it fetched without a second look.
Present_Never(b) == FALSE

\* The re-check before an install.
Present(b) == Cached(b)

Install(b, v, referenced) ==
    LET old == cache[Victim] IN
    /\ cache' = [SweptCache EXCEPT ![Victim] =
                   [lba |-> b, valid |-> TRUE, referenced |-> referenced, data |-> v]]
    /\ hand' = (hand + Laps + 1) % NSlot
    /\ raced' = IF old.valid /\ Fetching(old.lba) THEN raced \cup {old.lba} ELSE raced

Refer(b, v) ==
    /\ cache' = [i \in DOMAIN cache |->
                   IF i \in Holding(b) THEN [cache[i] EXCEPT !.referenced = TRUE, !.data = v]
                   ELSE cache[i]]
    /\ UNCHANGED <<hand, raced>>

----------------------------------------------------------------------------
(* blk::read and blk::write *)

Goto(h, from, to) == pc[h] = from /\ pc' = [pc EXCEPT ![h] = to]

\* What a read of b that starts now, or is going on, may return.
Current(b) == {latest[b]} \cup {val[w] : w \in Writing(b)}

Begin(h, what, b, v) ==
    /\ blkCalls < MaxBlkCalls
    /\ blkCalls' = blkCalls + 1
    /\ op' = [op EXCEPT ![h] = what]
    /\ lba' = [lba EXCEPT ![h] = b]
    /\ val' = [val EXCEPT ![h] = v]
    /\ ok' = [ok EXCEPT ![h] = FALSE]

\* A hit is one critical section; on a miss the caller's buffer is zeros.
BlkRead(h, b) ==
    /\ Begin(h, "read", b, IF Cached(b) THEN Data(b) ELSE Zeros)
    /\ seen' = [seen EXCEPT ![h] = Current(b)]
    /\ IF Cached(b)
       THEN Goto(h, "idle", "return") /\ Refer(b, Data(b))
       ELSE Goto(h, "idle", "lock") /\ UNCHANGED <<cacheVars, raced>>
    /\ UNCHANGED <<driverVars, timeouts, latest>>

\* The journal's record of the block comes first (module Journal).
BlkWrite(h, b) ==
    /\ Goto(h, "idle", "lock")
    /\ Begin(h, "write", b, blkCalls + 1)
    /\ seen' = [g \in BlkHarts |-> IF op[g] = "read" /\ lba[g] = b /\ pc[g] # "idle"
                                THEN seen[g] \cup {blkCalls + 1} ELSE seen[g]]
    /\ raced' = IF Writing(b) # {} THEN raced \cup {b} ELSE raced
    /\ UNCHANGED <<cacheVars, driverVars, timeouts, latest>>

\* read() after its fetch: a copy another hart installed meanwhile wins.
InstallRead(h) ==
    LET b == lba[h] IN
    /\ op[h] = "read"
    /\ \/ ~ok[h] /\ Goto(h, "fetched", "return") /\ UNCHANGED <<cacheVars, raced, val>>
       \/ /\ ok[h] /\ Present(b)
          /\ Goto(h, "fetched", "return")
          /\ Refer(b, Data(b))
          /\ val' = [val EXCEPT ![h] = Data(b)]
       \/ /\ ok[h] /\ ~Present(b)
          /\ Goto(h, "fetched", "ahead")
          /\ Install(b, val[h], TRUE)
          /\ UNCHANGED val
    /\ UNCHANGED <<driverVars, op, lba, ok, timeouts, blkCalls, latest, seen>>

\* Mutant: readahead asks for one sector too many.
PastEnd_Late(b) == b > Capacity

PastEnd(b) == b >= Capacity

\* readahead(): the next sector, unless it is cached; its read has returned
\* what it was asked for.
Ahead(h) ==
    LET b == lba[h] + 1 IN
    /\ IF PastEnd(b) \/ Cached(b)
       THEN Goto(h, "ahead", "idle") /\ UNCHANGED <<op, lba, val, ok>>
       ELSE /\ Goto(h, "ahead", "lock")
            /\ op' = [op EXCEPT ![h] = "ahead"]
            /\ lba' = [lba EXCEPT ![h] = b]
            /\ val' = [val EXCEPT ![h] = Zeros]
            /\ ok' = [ok EXCEPT ![h] = FALSE]
    /\ UNCHANGED <<cacheVars, driverVars, history>>

InstallAhead(h) ==
    /\ op[h] = "ahead"
    /\ Goto(h, "fetched", "idle")
    /\ IF ~ok[h] \/ Cached(lba[h])
       THEN UNCHANGED <<cacheVars, raced>>
       ELSE Install(lba[h], val[h], FALSE)
    /\ UNCHANGED <<driverVars, op, lba, val, ok, timeouts, blkCalls, latest, seen>>

\* write() after the device has it, or failed to take it: nobody looks.
UpdateCache(h) ==
    LET b == lba[h] IN
    /\ op[h] = "write"
    /\ Goto(h, "fetched", "idle")
    /\ IF Cached(b) THEN Refer(b, val[h]) ELSE Install(b, val[h], TRUE)
    /\ latest' = [latest EXCEPT ![b] = val[h]]
    /\ UNCHANGED <<driverVars, op, lba, val, ok, timeouts, blkCalls, seen>>

BlkReturn(h) ==
    /\ Goto(h, "return", "idle")
    /\ UNCHANGED <<cacheVars, driverVars, op, lba, val, ok, history>>

----------------------------------------------------------------------------
(* virtio::read_block and write_block *)

\* Mutant: the driver lock of v1.0 is missing.
Free_Always == TRUE

Free == drv = NoHart

Lock(h) ==
    /\ Free
    /\ Goto(h, "lock", "submit")
    /\ drv' = h
    /\ UNCHANGED <<cacheVars, buf, stb, used, last_used, pending, irq, dev,
                    op, lba, val, ok, history>>

\* submit(): buffers, the three descriptors, the available ring, the doorbell.
Submit(h) ==
    /\ Goto(h, "submit", "poll")
    /\ buf' = IF op[h] = "write" THEN val[h] ELSE buf
    /\ stb' = 255
    /\ pending' = pending \cup
         {[hart |-> h, call |-> blkCalls, write |-> op[h] = "write", lba |-> lba[h]]}
    /\ UNCHANGED <<cacheVars, drv, used, last_used, irq, dev, op, lba, val, ok, history>>

\* The device answers a request, through the buffers as they are now.
Answer(r) ==
    /\ r \in pending
    /\ pending' = pending \ {r}
    /\ dev' = IF r.write THEN [dev EXCEPT ![r.lba] = buf] ELSE dev
    /\ buf' = IF r.write THEN buf ELSE dev[r.lba]
    /\ stb' = 0
    /\ used' = used + 1
    /\ irq' = TRUE
    /\ UNCHANGED <<cacheVars, drv, last_used, hartVars, history>>

\* The poll sees a new entry: it takes one, whichever request it answers.
Complete(h) ==
    /\ used # last_used
    /\ Goto(h, "poll", "copy")
    /\ last_used' = last_used + 1
    /\ irq' = FALSE
    /\ ok' = [ok EXCEPT ![h] = stb = 0]
    /\ UNCHANGED <<cacheVars, drv, buf, stb, used, pending, dev, op, lba, val, history>>

GivesUp == used = last_used /\ timeouts < MaxTimeouts

\* The deadline passes, or the local count runs out; the request stays with
\* the device.
Timeout(h) ==
    /\ GivesUp
    /\ Goto(h, "poll", "copy")
    /\ timeouts' = timeouts + 1
    /\ ok' = [ok EXCEPT ![h] = FALSE]
    /\ UNCHANGED <<cacheVars, driverVars, op, lba, val, blkCalls, latest, seen, raced>>

Unlock(h) ==
    /\ Goto(h, "copy", "fetched")
    /\ val' = IF ok[h] /\ op[h] # "write" THEN [val EXCEPT ![h] = buf] ELSE val
    /\ drv' = NoHart
    /\ UNCHANGED <<cacheVars, buf, stb, used, last_used, pending, irq, dev, op, lba, ok, history>>

\* on_irq(): acknowledges; the sleepers it wakes are none.
OnIrq ==
    /\ irq
    /\ irq' = FALSE
    /\ UNCHANGED <<cacheVars, drv, buf, stb, used, last_used, pending, dev, hartVars, history>>

----------------------------------------------------------------------------

BlkStep(h) ==
    \/ InstallRead(h) \/ Ahead(h) \/ InstallAhead(h) \/ UpdateCache(h) \/ BlkReturn(h)
    \/ Lock(h) \/ Submit(h) \/ Complete(h) \/ Timeout(h) \/ Unlock(h)

BlkNext ==
    \/ \E h \in BlkHarts : BlkStep(h)
    \/ \E h \in BlkHarts, b \in Sectors : BlkRead(h, b) \/ BlkWrite(h, b)
    \/ \E r \in pending : Answer(r)
    \/ OnIrq

BlkSpec == BlkInit /\ [][BlkNext]_blkVars

----------------------------------------------------------------------------

Versions == 0 .. MaxBlkCalls
Places   == {"idle", "lock", "submit", "poll", "copy", "fetched", "return", "ahead"}
Requests == [hart : BlkHarts, call : Versions, write : BOOLEAN, lba : Sectors]

BlkTypeOK ==
    /\ cache \in [0 .. NSlot - 1 -> [lba : Sectors, valid : BOOLEAN, referenced : BOOLEAN,
                                    data : Versions]]
    /\ hand \in 0 .. NSlot - 1
    /\ drv \in BlkHarts \cup {NoHart}
    /\ dev \in [Sectors -> Versions]
    /\ buf \in Versions /\ stb \in {0, 255}
    /\ used \in Nat /\ last_used \in 0 .. used
    /\ pending \subseteq Requests /\ IsFiniteSet(pending)
    /\ irq \in BOOLEAN
    /\ pc \in [BlkHarts -> Places]
    /\ op \in [BlkHarts -> {"read", "ahead", "write"}]
    /\ lba \in [BlkHarts -> Sectors]
    /\ val \in [BlkHarts -> Versions]
    /\ ok \in [BlkHarts -> BOOLEAN]
    /\ timeouts \in 0 .. MaxTimeouts /\ blkCalls \in Versions
    /\ latest \in [Sectors -> Versions]
    /\ seen \in [BlkHarts -> SUBSET Versions]
    /\ raced \subseteq Sectors

\* Safety.  A block is in one slot only: installs look again under the lock,
\* because fetches of two harts, and readahead, overlap (read, readahead, write).
OneCopy == \A b \in Sectors : Cardinality(Holding(b)) <= 1

\* Safety.  While every request was answered in time, a cached copy is what the
\* device holds, except while a write of the block is under way, or after two
\* writes of it overlapped or its slot was recycled during a fetch of it: the
\* cases "both copies identical" (blk.rs) overlooks.
CacheIsDevice ==
    timeouts = 0 =>
      \A i \in DOMAIN cache :
        LET b == cache[i].lba IN
        cache[i].valid /\ b \notin raced /\ Writing(b) = {} => cache[i].data = dev[b]

\* The same without the exception for races.
CacheIsAlwaysDevice ==
    timeouts = 0 =>
      \A i \in DOMAIN cache :
        cache[i].valid /\ Writing(cache[i].lba) = {} => cache[i].data = dev[cache[i].lba]

\* Safety.  Before the first timeout a read returns contents its block had at
\* some moment of the call, whoever used the driver's buffers in between.
ReadsAreCurrent ==
    \A h \in BlkHarts :
      timeouts = 0 /\ op[h] = "read" /\ pc[h] \in {"return", "ahead"} /\ lba[h] \notin raced
        => val[h] \in seen[h]

\* Safety.  The driver has one request of its own in flight, and is behind the
\* device by no more than the requests it gave up on: each of those leaves an
\* answer that a later request takes for its own.
OneFlight ==
    LET own == Cardinality({h \in BlkHarts : pc[h] = "poll"}) IN
    /\ own <= 1
    /\ used + Cardinality(pending) = last_used + own + timeouts

\* Safety.  A block is cached once, and as the device has it.
CacheIsTrue == CacheIsDevice /\ OneCopy

\* Safety.  The driver has one request in flight, and a read returns what was last written.
DriverAnswers == BlkTypeOK /\ ReadsAreCurrent /\ OneFlight
============================================================================
