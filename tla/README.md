# A verification development for muse-computer

This directory holds TLA+ models of the muse-computer kernel and of its container
tool, shell and downloaders, the TLC configurations that check them on small
instances, and theorems that TLAPS checks for every value of the constants. Paths
are relative to the repository; `kernel/src/`, `user/` and `user-lib/` stand for those
directories of `os/muse-riscv-os/`.

## 1. The system

muse-computer is a RISC-V operating system (`os/muse-riscv-os`) with its user
programs, an earlier single-hart kernel (`os/muse-riscv-eos`), and compilers
(`compiler/`). Its own core is the kernel, about 11,000 lines of Rust that run
processes on up to four harts with a disk file system, a journal, TCP and container
primitives, and three large user programs: `ctr` (containers and packages), `sh` and
`wgets` (downloads over a TLS 1.3 of its own).

### 1.1 Components, their state and their operations

| component | source | state | operations | module |
|---|---|---|---|---|
| scheduler and process life cycle | `task/mod.rs`, `trap.rs` | process slots, run queues, `current[]`, `idle[]`, yield flags | fork, exec, exit, wait, kill, block, wake, yield, epilogue, idle loop | `Sched` |
| run queues and CPU quotas | `task/mod.rs`, `timer.rs` | FIFO queues, group use, caps, shares, `TICKS` | pop_valid, find_next, cg_tick, cg_set_cpu, cg_set_share, kick_idle, should_preempt | `RunQueue` |
| journal | `fs/jnl.rs`, `fs/disk.rs` | ring of slots on disk, header generation, `JLOG` | init, record, begin, commit, replay, reset, mount, shutdown | `Journal`, `DurableStore` |
| disk file system | `fs/disk.rs` | bitmap, inodes, directories, block map | create, mkdir, write, truncate, link, unlink, rebuild | `DiskFs` |
| block cache and virtio disk | `fs/blk.rs`, `fs/virtio.rs` | slots, clock hand; rings, shared buffers | read, readahead, write; submit, poll, interrupt, deadline | `BlkDev` |
| control groups | `task/mod.rs`, `mem/frame.rs` | slots, members, limits, charges | create with reuse, enter, inherit, limit, charge | `CgSlots` |
| pid namespaces | `task/mod.rs` | namespaces, local pids, exit log | unshare, nsenter, fork, kill, wait, cg_kill, reapstat | `PidNs` |
| jails and binds | `task/mod.rs`, `syscall.rs` | fsroot, cwd, volume binds | resolve_for, chdir, chroot, mkdir, unlink, mount_vol | `Paths` |
| descriptors, pipes, in-memory files | `syscall.rs`, `fs/pipe.rs`, `fs/ramfs.rs` | descriptor tables, rings | open, close, dup, dup2, pipe, read, write, seek, link, unlink; fork, exec, exit | `Descriptors` |
| frames and address spaces | `mem/frame.rs`, `mem/mod.rs`, `mem/pagetable.rs` | free frames, tables, `satp`, TLBs | fork, exec, sbrk, mmap, munmap, flush, free | `AddrSpace` |
| kernel heap | `mem/heap.rs` | list of free nodes | alloc, dealloc | `KHeap`, `Arena` |
| network device and ARP | `net/mod.rs` | rings, buffers, address cache | harvest, repost, submit, complete, deadline, learn | `NetDev` |
| sockets and datagrams | `net/mod.rs`, `net/tcp.rs` | socket table, ports, staging queues | socket, bind, listen, accept, close, reclaim; UDP and ICMP send and receive | `Sockets`, `Datagrams` |
| TCP | `net/tcp.rs` | one control block | open, receive, send, acknowledge, retransmit, close, time out | `Tcp` |
| console, UART, PLIC | `console.rs`, `uart.rs`, `plic.rs` | rings, lock, claim | write, putchar, getchar, interrupt | `Console` |
| boot | `entry.S`, `main.rs`, `sbi.rs` | boot flag, parked harts, masks | win, park, start, self-test, join | `Boot` |
| containers | `user/ctr` | state files, specifications, groups | run, exec, stop, restart, rm | `Ctr` |
| packages | `user/ctr` | database, stores, staging, links | install, upgrade, remove, autoremove; verify, untar, scan, move | `Pkg`, `Layers` |
| shell and init | `user/sh`, `user/init` | jobs, history, line, environment | run, pipe, background, fg, halt; edit; split; match; export | `Jobs`, `LineEdit`, `Words`, `Fnmatch`, `ShellEnv` |
| downloaders | `user/wget`, `user/wgets`, `user-lib/guest-tls` | reply buffers; keys, record numbers, the pinned root | connect, header, body; handshake, verify, read | `Http`, `Wgets` |

`PROJECT.json` lists the same parts with what is left out of each, and the parts that
are not modelled.

### 1.2 How the parts interact

- A trap enters `rust_trap_handler` with interrupts disabled. It serves a system
  call, a timer tick, a UART, disk or network interrupt or an IPI, and ends in an
  epilogue: if the hart's yield flag is set, `schedule_point` pushes the
  interrupted task back and picks another. All harts share one scheduler lock.
- A waker (`wake_locked`) that finds its task still current on a hart does not
  queue it; the epilogue of that hart does.
- `find_next` asks the control groups which tasks are over quota; `cg_tick`
  charges the running task's group with atomics and without the lock.
- A mutating system call is bracketed by `jnl::begin` and `jnl::commit`.
  Every block it writes goes through `blk::write`: journal record, home block,
  cache. Mounting runs the journal's recovery, and through the same writes the
  bitmap rebuild and the dirty flag.
- `exit` leaves a zombie on its page table until the parent's `waitpid` frees
  it; harts activate page tables after they released the scheduler lock.
- A system call on files goes from the descriptors through `DiskFs` to `blk`, and from
  there to one virtio request at a time. A program's view of names is resolved
  first (`Paths`).
- Interrupt handlers and system calls share the network state under one lock; the
  device moves in between. The timer interrupt runs the TCP timers.
- Containers are made of kernel parts: a group, a pid namespace, a jail. `ctr` keeps its
  own record of them in files and may be killed between any two system calls.

### 1.3 What is hard, and the properties that make each part correct

- **Ownership of a task.** Wake, exit, pick and epilogue are separate critical
  sections on several harts. A task must be run, queued or held by exactly one
  hart, and never be forgotten.
- **Process tree.** Exit and waitpid of parents, children and init race. Every
  process keeps a parent that can reap it, no wake-up is lost, and an address
  space is freed once.
- **Fairness of the pick.** Caps, shares, two passes, a bounded stash and stealing
  reorder the queues. No task may be lost or starve; caps come first; a hart does
  not idle next to work.
- **Power cuts.** Every block write is a point where the machine may stop. A
  call that returned stays on the disk, recovery itself can be interrupted, and the
  tree of files stays a tree.
- **Two harts on one disk.** The cache and the driver are shared, the driver gives up on
  requests that complete later. The file system has no lock of its own.
- **Slots that are used again.** Groups, namespaces, sockets, ports, descriptors, frames: each
  is found empty in one step, cleaned in another and handed over in a third.
- **An unreliable peer.** Segments are lost, repeated, reordered and cut, and a peer may
  fall silent: a stream is read in order, kept until acknowledged, and no wait is for ever.
- **Programs that are killed.** `ctr`, `wgets` and the shell keep state in files, groups and
  children; a kill or a failed write between two of them must leave what the next run can use.

`PROJECT.json` ("hazards") gives the line of each and the properties that would catch it.

## 2. Modules

### 2.1 `Sched` — process life cycle on several harts

One step is one critical section under the scheduler lock, or the part of a hart's
work between two sections. `pc[h]` says where hart `h` is; because the kernel runs
with interrupts off, a trap is taken only in user mode and in the idle loop.

| state | code |
|---|---|
| `state`, `blocked_on`, `killed`, `parent`, `children`, `wait_for` | fields of a process slot; a slot that waitpid took is `Reaped` |
| `queues[h][p]` | copies of `p` in the hart's run queue (the order is `RunQueue`'s matter) |
| `current`, `idle`, `yield_flag` | the arrays of `struct Sched`, `YIELD` |
| `next[h]` | the pid `exit` picked and `switch_to` has not yet claimed |
| `dead[h]` | the slot `waitpid` took and whose memory it has still to free |
| `satp[h]` | the page-table root the hart translates through |
| `rx`, `uart_irq` | input bytes and the pending UART interrupt |

Actions carry the names of the functions: `Fork`, `Exit`, `SwitchTo`,
`SchedulePoint`, `RunOn`, `WaitReap`, `WaitBlock`, `KillWith`, and so on. `Exit` is
the whole section of `exit`: zombie, reparenting, waking the parent, the pick.
Any live entry may win a pick, a superset of what quotas allow.

`exec` keeps the pid and has no scheduler step; it appears as `OtherCall` here.

### 2.2 `RunQueue` — which task runs next

The queues as sequences, the groups with cap, share and accumulated use, and the
two-pass pick with its stash, written as a fold over the entries in the
order the code scans them. `Tick` sets a new window; `LoadCharge`, `OpenWindow`,
`ResetUse` and `AddUse` are the separate atomics of `cg_tick`, so charges of two
harts interleave. `exit` picks in one critical section and `switch_to` claims the pick in the
next (`Exit`, `Switch`): in between the task is in no queue and on no hart. A pick reads the
groups' atomics in one step with the queues, although a charge of another hart may fall
between two reads. `StashCap` scales the 32 and 64 entries of the two stashes.

### 2.3 `Journal` — write-ahead journal, recovery, shutdown

Every sector that reaches the device is one step and `PowerCut` may come between
any two. The contents of a block are the number of the system call that wrote
it, so "newer" is "greater"; the CRC of a record is the contents it binds, and a
slot whose second sector is not that is torn. A system call is the sequence of
blocks it writes. Calls that overlap on two harts write different blocks; two
harts on the same block are `BlkDev`'s matter.

| action | code |
|---|---|
| `Begin`, `Commit` | `jnl::begin`, `jnl::commit` around a system call |
| `TakeSeq`, `WriteDataA/B`, `WriteHome`, `WriteCache` | `jnl::record` and `blk::write` |
| `SealSeq`, `SealA`, `SealB` | `write_commit`, from `commit` or from the valve |
| `Boot`, `StartReplay`, `Apply`, `Rebuild`, `ClearDirty`, `MarkDirty`, `Mounted` | `disk::mount` with `jnl::init`, `max_seq`, `replay`, `rebuild_bitmap`, `set_dirty` |
| `Halt`, `WriteHeader`, `PowerDown` | `SYS_SHUTDOWN`, `jnl::reset` |

A block read is one step here, fetch and install together; images without a
journal area (`ENABLED` false) and devices that fail a request are left out.

`DurableStore` is the abstract specification: for each block the call whose
contents a power cut and recovery would leave now. A call returns only when its
blocks are there, and no block falls behind a call that returned; an interrupted
call may be there in part, and come and go. `Journal!IsDurableStore` maps it to
the journal: `Stable` computes what recovery would leave from the device, the
dirty flag and the records of the current generation. Recovery, power cuts and
shutdown then change nothing, or only calls that never returned.

### 2.4 `DiskFs` — the file system on disk

The state is the image: inodes by table block, the bitmap, data blocks. The code has
no lock here, so what a call reads and the block it writes back are two steps (a hart
"prepares" and "flushes"), and power may fail before any block write. `todo[h]` is what
the call still has to do, in the order of the code: a block is marked in the bitmap, zeroed
and only then hooked up; a name is entered before its inode's link count grows. `want`
is a ghost: what each file should hold. The scale is one direct pointer, two entries per
pointer block, six blocks.

### 2.5 `BlkDev` — block cache and virtio queue

The cache lock covers a look-up or an install, never the I/O between; the
driver lock covers one request. The device answers at any time, also after the driver
stopped waiting, on buffers that are the same for all requests.

### 2.6 `CgSlots`, `PidNs`, `Paths` — what containers are made of

`CgSlots` gives each critical section of `cgcreate` its step: the scan, the cleaning under
another lock, the installation. Frames are charged by fork before the child is inserted
and given back by waitpid after the zombie was removed. `PidNs` has names of processes:
placement at fork, `unshare`, `nsenter`, resolution by local pid first, the ring of exit
codes, and `cg_kill` as a collection followed by one step per mark. `Paths` has one process
with its root, working directory and binds, and every path of a small tree, in which
directories are made and unlinked. `sys_unlink` asks nobody: it takes a directory that is
not empty, a working directory or a jail's root, with all that is below; `removed` remembers
that it took the working directory. The code cuts the root off a path as a prefix of its text
(`Splits`, `Remnants`): behind the root "/a" the path "/aa" leaves "a". The second slash
that a bind of "/" leaves in a path is not kept.

### 2.7 `Descriptors`, `AddrSpace`, `KHeap`, `Arena` — memory and files of a process

A system call is one action of `Descriptors`, since it runs to its end with interrupts off;
a descriptor names a path and keeps its own offset, and `Chunks` are the pieces that
programs write. `AddrSpace` takes frames one by one, so
builders compete and fail half-way. What a builder still wants is a set of places, taken in
order; the kernel's tables are two of them, so that their copy can fail in the middle. An
sbrk or an mmap of several pages may run out of frames in between and then keeps those it
has mapped (`MapsOnlyFirst`). Each
hart has a `satp` and a TLB, and a flush of all harts is a step after the frames are free.
`KHeap` is the first-fit list; `Arena` is what it promises (cells lent to nobody else), and
`KHeap!LendsCells` is the refinement.

### 2.8 `NetDev`, `Sockets`, `Datagrams`, `Tcp` — the network

Four views of one stack that meet at narrow interfaces. `NetDev` has buffers, rings and the
address cache; a frame is its type and two stations, and what answers it (ARP, echo, TCP) is
sent in the middle of handling it. `Sockets` has slots, ports and
descriptors, with what the peer and the timer do to a slot behind its owner's back; a slot in
FinW1 may be given up there or may stay, which of the two is `Tcp`'s matter.
`Datagrams` has staging queues. `Tcp` has the bytes of one connection against an external
peer and a network that keeps every segment and may deliver it at any time, any number of
times, or never; a timer is due or not.

### 2.9 `Console`, `Boot` — the machine

`Console` has the registers of the UART as steps of their own where the code reads and
writes them outside of a critical section. A character is its place in the sequence `Typed`, so
that two equal ones can be told apart; Ctrl-C and Ctrl-D are the two the handler looks at.
`Boot` has the race in `_start`, parked harts, start requests through the firmware and the
interrupt self-test with its deadline. The masks of the self-test are locals, so every hart
that runs `rust_main` has its own. `clear_bss` clears all that is shared. `Late` says whether
a hart may reach `_start` after the winner did that; such a hart wins too, and starts over.

### 2.10 `Ctr`, `Pkg`, `Layers` — the tool `ctr`

A step is one system call or one pass over the file system: another run, a failing write, a
kill or a reboot can come between two. `Ctr` has runs of `ctr` and the processes they start;
a fork of `ctr` may fail, and the program in the container never forks. `Pkg` has the commands
on packages. Programs are moved, linked and unlinked one call at a time, the manifest, the
list and a line of the database are written in one step each, and a run is killed or its
write fails before any of them. `torn` (packages) and `strays` (programs) remember what such a
run was in the middle of, until an install of the package comes to its end. `Layers` has
one package from its tars to its store.

### 2.11 `Jobs`, `LineEdit`, `Words`, `Fnmatch`, `ShellEnv`, `Http`, `Wgets` — shell and downloads

`Jobs` has the shell's children, its table of jobs, the waits that reap them, and init,
which starts a shell again. `LineEdit` has the line, the history and the terminal that
shows them. `Words`, `Fnmatch` and `ShellEnv` are the passes over a line that was entered,
each beside a definition of what it should compute. The text that `Words` begins with is what
`tokenize_env` is handed: a line up to its redirection, a side of a pipe, or a background
line, the last two with any operators still in it. It is split into words, and
`expand_globs` puts the names among `Files` that a pattern matches in its place, while there
is room. The file name of a redirection is read by another function
(`redir_name`), which is not modelled. `Http` is the loop that reads a reply
from a socket that does not block. `Wgets` is a run of the TLS downloader: cryptography is
what it promises (a record opens under the key and number it was sealed with, a signature
names what it covers), and everything else is the code's: record numbers, transcripts, the
order of the checks, the staging of messages that records cut, the pinned root.

### 2.12 Composition and the MC modules

`Sched` abstracts the pick that `RunQueue` details; `RunQueue` takes tasks as they are queued.
`Journal` sees a system call as a bracketed sequence of block writes, `DiskFs` says which
these are, `BlkDev` how one reaches the disk. `AddrSpace` details the root that `Sched`
counts. `Sockets` takes a connection as its state, `Tcp` as its bytes. `Ctr` uses groups as
`CgSlots` hands them out.

An MC module EXTENDS the modules of an area and has one variable more, `part`: the
initial states choose a part, and only the actions of its module are taken, the variables of
the others staying as they began. A run of an MC module thus checks several small instances
in one go. A property of an MC module is named for what its conjuncts say together;
each conjunct is a property of its module, with a comment of its own there.

`Sched` and `RunQueue` have names in common, so `MCSched` takes the second as an INSTANCE; it
declares RunQueue's parameters as its own, and what it says holds for any of them that
satisfy RunQueue's assumption (`MCSchedAssumption`). `MCMachine` has two parts on
`RunQueue`, of which the one with equal tasks is an INSTANCE as well. Both are instances of
`RunQueueProofs`, which EXTENDS `RunQueue`, so that its theorems are about the instance that
TLC checks. `MCMachineAssumption` keeps `Late` FALSE and the run queues to one hart.

## 3. Runs

TLC finds no error in the first nine; each of the last three refutes one property.

| run | parts and instance | what it shows |
|---|---|---|
| `sched` | `Sched` with 2 harts, init and 2 children, waitpid(-1), Ctrl-C as input; `Sched` with 1 hart, 2 bytes of input, waitpid of any or one pid; `RunQueue` with 2 harts, 2 tasks, 2 groups, a stash of 0 | types, ownership, no lost task, the right address space, the process tree, no lost wait wake-up, single free, the dead stay dead; with one hart no reader sleeps next to input and no killed task sleeps on; no queue entry is lost, no hart idles next to work, caps come first |
| `journal` | 1 hart, 3 calls, 2 power cuts, ring of 6, chunk of 2, one clean shutdown; 1 hart, 2 calls of one block, 3 power cuts; 2 harts, 3 overlapping calls, ring of 5, no cut | the journal implements `DurableStore` and finished calls survive until mount skips recovery; sequence numbers are fresh, commits count their members |
| `disk` | 1 hart, 4 calls, 1 power cut, 3 inodes, 6 blocks; 2 harts, 3 block calls, 2 cache slots, 3 sectors, 1 time-out | no shared block, an exact bitmap, live names, no holes in directories, files read back; the cache agrees with the device, one request in flight |
| `network` | device with 2 buffers, 3 stations, 1 deadline; 3 sockets of 2 owners; 2 datagram sockets; 1 connection of 3 bytes each way | buffers conserved, frames stable, ports and slots neither lost nor shared, no stolen connection, streams in order and kept, every wait ends |
| `memory` | 2 tasks on 2 harts with 18 frames; a heap of 13 cells; 2 processes with 5 descriptor numbers, at most 2 of them files | every frame has one owner, no stale translation, no root freed under an idle hart; the heap is tiled and lends cells; pipes are queues, CLOEXEC holds, slots have owners |
| `containers` | 3 processes and 2 group slots; 4 pids and 1 namespace besides the root's; paths of depth 2 over the names "a" and "aa", directories unlinked, 1 bind | slots are handed over whole and clean, stragglers of a kill are new; pids unique, identities without gap, nothing escapes a jail, chdir arrives, a working directory is there while nothing is bound and it was not unlinked |
| `tool` | 2 runs of `ctr` at a time, 3 commands, 2 boots; 3 package commands on 2 packages of 2 versions; any two tar headers and a second layer | stopped is over, processes are tracked or killed, restarts repeat; the database, stores and links agree after runs that were killed, or failed, at any step, but for the package such a run was changing (until it is installed again) and the programs it left; what is installed is what was unpacked |
| `machine` | 3 harts coming up; 2 harts or 1 writing 2 lines of 2 bytes with rings of 1 and 2; 1 hart with 3 tasks, 2 groups, caps and shares set in any order, a stash of 1; 1 hart with 3 equal tasks | the self-test's verdict means delivery, nobody joins early, all harts come up; the bytes of a line are handed to `putchar` together; on one hart no byte is lost or sent twice, the output is sent at last, and characters are given in the order they were typed; the pick is the least used for its weight, accounting stays within the window, every hart preempts, nobody starves |
| `shell` | 5 pids and 2 jobs; lines of 2 keys, history of 2; commands of 4 characters and 3 file names; patterns and names of 4; 3 variables; replies of up to 7 bytes; 2 TLS runs against 17 servers, 1 fault | jobs are children, the prompt comes back; the screen shows the line, the two passes over a line see the same quotes, words are neither lost nor overtaken, buffers not overrun, patterns and variables mean what they say; a download that passes is whole, by wgets from the pinned root, and fails only for a cause |
| `tcp_close` | 1 connection of 2 bytes | refutes `CloseDrains` (3.2) |
| `journal_merged` | 2 harts, calls of at most one block, 1 power cut | refutes `AckedSurvive` on two harts (3.2) |
| `journal_again` | 1 hart, 2 calls of one block, 3 power cuts | refutes `AckedSurvive` when two cuts hit recovery (3.2) |

The order in which bytes of the console are sent is not claimed: with the ring full the code
itself sends a byte ahead of the ring (`SentInOrder`, 3.3), and on two harts it loses bytes
(`NothingOverwritten`).

### 3.1 Why these bounds are enough

Two harts are the fewest that race; three pids give a parent, its child and init, so
exit can reparent. A stash of one entry overflows with three tasks as 32 does with 34, and
one of none with a single task. A ring of six slots wraps within two calls and a mount, a
chunk of two opens the valve within one call. Two power cuts are the fewest that interrupt
a recovery, three that interrupt the next one too. `Rebuilds` is larger than the ring,
as the real count of reserved blocks is, so a rebuild overwrites every older record before it
ends. One direct pointer and two entries per block put a file of four blocks into all three
levels of the block map. Two cache slots for three sectors evict. One driver time-out is
enough for an answer that comes late, for a later request. Three sockets of which one
listens fill the table. Three bytes with buffers of two cut a segment and fill a window.
Two group slots are reused from the third creation on. One name that is the beginning of
another is what a root cut off as text tells apart. Two boots make a state file stale. Two
versions and two packages give shadowing, pins and cycles; three package commands are one
that installs, one that is cut, and one that meets what was left. Two TLS runs give a pin that was
there before, or was left torn by a kill.

Symmetry is used over harts and pids other than init (`sched`), the processes of `CgSlots`
other than the first, runs of `ctr`, and harts on the disk: in runs whose
temporal properties, if any, are action properties that treat them alike. Deadlock is checked
in `sched` and `journal`; elsewhere a bounded count of calls is used up, or a
program has ended, and the behaviour stops rightly.

### 3.2 Where the code and its documentation disagree

| run | statement that fails | what happens |
|---|---|---|
| `tcp_close` | a closing slot lingers up to the 30 s CLOSE_TIMEOUT (`net/mod.rs:29`) | a closing slot hears no segment, and a slot in FinW1 with nothing to retransmit has no timeout |
| `journal_merged` | calls are durable one by one (`syscall.rs:97`) | overlapping calls share a transaction; the first to return has no commit |
| `journal_again` | replay is "idempotent: safe on every dirty mount" (`fs/jnl.rs:338`) | `set_dirty` writes its records outside of any transaction, so replay applies them like others: between the record that cleared the flag and the one that set it the device says clean. A cut there stops the next mount from recovering, with the blocks a first, interrupted replay had put back still on it |

### 3.3 Properties that do not hold

These are stated beside the modules, with the line of the code and the words they come from
where there are any; the positive results above are to be read with them. To see one
refuted, write its name under INVARIANT or PROPERTY in the cfg named.

| cfg | property | why |
|---|---|---|
| `Sched` | `ActiveRootIsLive` | after `exit` unlocks, another hart reaps and frees the root that is still in `satp` |
| `Sched` | `KilledTaskIsNotAsleep` | on two harts a kill can land between trap entry and the block |
| `Journal` | `BitmapIsWhole`, `InterruptedIsAtomic`, `CacheIsHome` | the bitmap a program runs on may be half rebuilt when recovery was cut twice; a call cut short leaves some of its blocks; mount reads the root's inode into the cache before replay rewrites it |
| `Disk` | `CacheIsAlwaysDevice` | after a time-out or a race of two writers the cache keeps what the device has not |
| `Memory` | `NoHartOnFreedRoot` | the same window as `ActiveRootIsLive`, with the frames |
| `Memory` | `NothingLeaks` | `new_user_space` leaves tables behind, exec its old space |
| `Memory` | `HeapBelowMmap`, `ShrinkKeepsTheRest` | sbrk does not look at the mmap area, and unmaps the page its break is in |
| `Memory` | `SocketDescriptorHasItsSlot`, `PipeEndsInPairs` | dup of a socket names another slot; pipe() with one descriptor left keeps it |
| `Net` | `SenderIsLearned` | the address is read from the frame's destination |
| `Net` | `ReportedIsAlwaysSent` | after a deadline the late completion is taken for the next frame's |
| `Net` | `NoDeviceNoTransmit` | socket calls do not look at READY |
| `Net` | `DescriptorNamesItsSocket` | a reset frees the slot under its descriptor |
| `Net` | `PingGetsReplies` | a UDP packet to an ICMP socket's number is staged to it |
| `Containers` | `ZeroMeansEmpty`, `KillStaysInside`, `ForkedPidNamesChild` | who exits during cg_kill is not counted; kill falls back to global pids; fork returns global pids |
| `Containers` | `TighteningOnly`, `ChdirArrivesAnywhere` | `..` through a bind, and chdir to a bound directory |
| `Containers` | `CwdStays` | unlink removes a directory that somebody stands in, or that such a one is below |
| `Tool` | `QuotaIsEffective`, `RemoveSparesTheLiving` | a group may be another's when the container's first process enters it; rm looks at the state file only |
| `Tool` | `DependenciesThere` | `foo>=1` is taken for a dependency on `foo>` |
| `Tool` | `EntryIffInstalled`, `OwnProgramsDoNotShadow`, `NothingClobbered` | a run killed, or failing, in its commit, its links or a removal leaves programs without a line or a line without its files; the next install takes its own programs for another's; a program left in a store is linked over another package's |
| `Tool` | `LayersMayOverlap`, `FailedUpgradeKeepsFiles` | a file in two layers is listed twice, its second move fails and has unlinked the store's file |
| `Machine` | `NothingOverwritten`, `CtrlCIsNotGiven`, `SentInOrder` | the handler writes the transmitter without the lock; getchar passes the handler by; a full ring is overtaken |
| `Shell` | `PromptAlwaysReturns` | a failed fork of a pipe is waited for as pid -1 |
| `Shell` | `OperatorsStayOut`, `QuotedStarsStay`, `MatchesArePutIn` | sides of a pipe and background lines are not looked through for more operators; a quoted star next to an unquoted one matches; a pattern that matches is kept as it is once eight arguments are there |
| `Shell` | `DraftComesBack`, `TornPinRecovers` | the draft is saved once; a torn pin refuses every later run |

Some need other constants: `AppendsAreAtomic` (`Memory.cfg`,
SPECIFICATION AnyFileSpec, FdMax = 4, Names = {1}, SockSlots = 1, MaxPipes = 0, MaxSent = 1,
MaxLen = 3), `StopKillsItsOwn` (`Tool.cfg`, Cts = {"web", "db"}, MaxGroup = 1, MaxBoot = 1),
`StagingIsExclusive` (`Tool.cfg`, Procs = {1, 2}), `BindTakesEffect`
(`Containers.cfg`, MaxMounts = 2), `NoSharedBlock` (`Disk.cfg`, Harts = {1, 2}, MaxCuts = 0, MaxCalls = 3,
MaxBlkCalls = 1, no SYMMETRY: the file system has no lock, so two calls take the same
free block). Others need an MC module of their own, on
`Spec` or `FairSpec` of the component: `OneWinner` of `Boot` with Late = TRUE and two harts (the
boot flag is cleared with .bss while a hart is on its way; with three harts `JoinsAfterInit`,
`VerdictMeansDelivered` and `SentIsDelivered` fail as well), `EveryHartPreempts` with two
harts (the shared tick count can have the same parity at every tick of one hart), `NoStarvation` with two groups or a
stash that is full, `UseWithinElapsed` with two harts (a charge delayed over a change of
window), `InitSeesOrphanZombies` (a zombie reparented to an init already asleep in waitpid
wakes nobody; hence `NoLostWaitWakeup` excepts init), and `NoReaderSleepsOnInput` with two
harts and input other than Ctrl-C.

### 3.4 Fairness

Fairness is stated only where something in the machine or the kernel moves by itself.

- `machine`, among equal tasks: the timer is re-armed on every tick and stays pending until it is taken, so
  `Tick(h)` is strongly fair: it is disabled while the hart is in the kernel, yet enabled
  again and again. A sent IPI stays pending, so `SoftIrq(h)` is weakly fair, and kernel code
  runs to its end.
- `network`: the timer interrupt runs `tcp_tick` every 10 ms, so it is weakly fair. Neither
  the peer nor the network is fair.
- `machine`: the UART sends what is in its register; a pending interrupt is claimed by some
  hart that takes it again and again (strong, the other may be faster); a handler runs to its
  end. Harts execute their boot code.
- `shell`: the shell runs when nothing it waits for is missing, and what it waits for in the
  foreground ends; background commands need not. A downloader polls on, whatever the
  peer does.

Nothing else is assumed of user programs: they may compute for ever and never call the kernel.

## 4. Proofs

Each proof module EXTENDS the MC module of its area, or the module it is about, and the
statements are about the specifications that TLC checks. A theorem is for every value of the
constants that the modules' assumptions, and the hypothesis named here, admit.

| module | theorem | says | run property |
|---|---|---|---|
| `SchedProofs` | `TypeCorrect`, `OwnershipHolds`, `NoTaskIsLost`, `NoStaleClaim`, `DeadStayDeadHolds` | types; the three parts of the scheduler's ownership discipline; no zombie revives, no reaped pid returns | `TypeOK`, `ExclusiveOwnership`, `NoTaskLost`, `HartHoldsWhatItRuns`, `DeadStayDead` |
| | `NobodyIsForgotten`, `NoWaitWakeupIsLost`, `SpacesAreFreedOnce`, `SpaceMatchesProcess` | the process tree, the wake-ups of waitpid, address spaces | `EveryProcessHasAParent`, `NoLostWaitWakeup`, `FreedOnce`, `UserRunsOwnSpace` |
| | `NobodyIsMissed` | on one hart no reader sleeps next to input and no killed task sleeps on; on any number no queue entry is lost | `NobodyForgotten` |
| | `CapsHoldAnywhere` | for any harts, tasks, groups, caps and any stash, over quota only when nothing within quota waits, and no hart idles next to work | `CapsComeFirstAnywhere` |
| `RunQueueProofs` | `RunQueueTypes`, `EntriesAreKept`, `IdlesOnlyWithoutWork`, `CapsAreRespected` | the same of `RunQueue` by itself | |
| | `LeastGoesFirst`, `UseIsWithinElapsed` | a pick takes the least used for its weight; on one hart charges stay within the window | |
| `JournalProofs` | `CallsSurviveAlways`, also `JournalSurvives` | on one hart a call that returned survives every power cut until mount skips recovery | `CallsSurvive` |
| | `PromiseIsKept`, also `JournalIsDurableStore` | on one hart the journal with the blocks and recovery implements `DurableStore`, step by step | `KeepsThePromise` |
| | `RecordsStayFresh` | on one hart no number is reused while it matters, no commit counts too few records | (the one-hart half of `RecordsHold`) |
| | `DurableHolds` | the durable store never takes back a call that returned | |
| `MemoryProofs` | `FramesAreOwned` | every frame has one owner and one use, a program translates by its own pages only, no root is free under a hart but one that leaves its task | `MemoryIsOwned` |
| | `HeapAndDescriptorsAreSound`, also `DescriptorsHold` | the heap is tiled, nodes merge; pipes are queues, CLOEXEC holds, slots have owners | `CellsAndDescriptorsHold` |
| | `HeapIsAnArena` | the free list implements `Arena` | `LendsCells` |
| | `CacheTrue`, `DriverAnswersTruly` | a sector has one slot and the slot is the device's until a race or a time-out; one request is in flight and answers are its own until the first time-out | `CacheIsTrue`, `DriverAnswers` |
| `ContainersProofs` | `GroupsAreWhole` | a slot has one creator, and is empty and uncharged when it is handed over | `GroupsHold` |
| | `NamesAreConfined`, also `NamesAreSound`, `JailIsTight` | pids name one task, identities have no gap, stragglers are new; nothing escapes a jail; while nothing is bound a working directory is there unless it was unlinked | `Confined` |
| | `NothingSlips`, also `ZombiesStayDead` | zombies rest; chdir arrives | `StaysPut` |
| `ShellProofs` | `TableStaysTrue`, also `OneShellHolds` | jobs are children; init starts one shell at a time | `JobsAreChildren` |
| | `LineStaysUnderstood`, also `EditorShowsTheLine`, `LineIsReadAlike`, `VerdictHolds`, `EnvironmentIsMeant` | the editor, the two passes over a line, `fnmatch` and the environment | `LineIsUnderstood` |
| | `PlainDownloadsAreWhole` | wget passes exactly what is whole | (its half of `DownloadsAreWhole`) |
| `MachineProofs` | `MachineHoldsAlways`, also `NobodyJoinsEarly`, `VerdictIsTrue`, `LinesAreWhole`, `HandlersAreAlone`, `NoByteIsLost`, `CharactersInOrder` | the bring-up if no hart is late (`~Late`), the console | `MachineHolds` |
| | `UseIsElapsedAlways`, `SharesDecideAlways` | the run queue of one hart, with shares and among equals | `UseIsElapsed`, `SharesDecide` |
| `NetProofs` | `NothingIsLost`, `SentAsGiven`, also `StreamsAreKept`, `DatagramsHold`, `SocketsHold`, `DeviceHolds` | streams, datagrams, the socket table and the device's buffers | `NothingLost`, `SendsAsGiven` |

### 4.1 The scheduler

None of the three ownership parts is inductive alone. A waker may leave a task
unqueued because its owner's epilogue will push it: that needs to know where the owning
hart is (`HartHoldsWhatItRuns`). The epilogue may push it because it is in no queue
(`ExclusiveOwnership`). A pick may hand it out because a queued entry is queued once and
owned by nobody. So the inductive invariant is `OwnInv`, the conjunction of the types and
the three parts. The proof has one lemma per action; `Pick` is first reduced, under
`OwnInv`, to "the queues stay and are empty, or one entry of one queue is taken".

The tree is proved from `TreeInv`: parent and child name each other, init has a slot, and
no zombie but init is a parent. The last part keeps a reap from stranding a grandchild, and
exit's reparenting establishes it. Under `OwnInv` every step is one of five (`StepKinds`):
a quiet one, or fork, reap, block in waitpid, exit. `NoLostWaitWakeup` is inductive
given the tree, since exit wakes the process named by `parent` and the sleeper looked at
`children`. `FreedOnce` needs that a hart in "reap" has something to free, and
`UserRunsOwnSpace` the root of a hart that serves an interrupt (`SpaceInv`). `OneHart(h)` is
of a behaviour of one hart: nothing comes between its look at the ring and its sleep.

### 4.2 The run queue

A pick is a scan over the queues of all harts with a stash, twice. The folds of `RunQueue` are
first shown to be recursive functions over the entries in the order of the scan (`NothingHeld`
is before the first of them), by well-founded induction over their length; then a scan keeps what
is said of its accumulator: what is held is different and was there (`Neat`, `Held`), the best
so far leads all within quota that were seen (`Leads`). A pick therefore takes one task or none,
and loses or doubles no other entry (`Takes`), whatever overflows. With that the invariant is
`RInv`: the types, and `Placed`: the queues are apart, a task has one hart at most, and it waits
in a queue exactly when it is live and no hart has it. `UInv(h)` is for the charges of one hart: between its tick and
the charge for it, no group has been charged more than the window had before.

`MCSched` and `MCMachine` say the same of their instances. That an instance satisfies RunQueue's
assumption is `MCSchedAssumption`, and `EqualsAreAnInstance` for the equals.

### 4.3 The journal

The theorems are of one hart (`OneHart`: `Harts = {h1}`), since on two the statement
is false (3.2), and of states in which no cut has yet made mount skip recovery
(`~skipped`), for the same reason. Within that they are for any blocks, any sequences of
writes in a call, any ring with `NRec > Chunk + 2`, any number of calls, cuts and
generations: `MaxCalls`, `MaxCuts` and `MaxGen` are any naturals.

The first part looks at the ring as a function from slots to records, whenever they were
written. `RingOK` says what makes it recoverable: a record is in the slot of its number;
later numbers are of later transactions and calls; a commit comes after the
records of its transaction and before those of later ones, except for the record that opened
the valve, which took its number first; a commit counts every record its transaction
has; and what recovery would apply is at most a round old. The lemmas say what one more
record does to that (`PutPlain`, `PutMember`, `PutSeal`), and the main one, `OldestGoFirst`:
when the ring wraps into a transaction, its commit counts more records than are left, so all
of it is dropped at once and nothing newer with it. Hence `PutCovers`: if recovery finds
block `b` at all, it finds contents no older than those of a call that returned.

`JInv` says of every state what a power cut in it would leave. Its parts:

- `Control`, `Work`: where the hart can be, with which log and which writes left.
- `Numbers`: which numbers are on the device and which are handed out. The number before
  `Low` is on the device unless none is, so `max_seq` finds where to go on.
- `Session`: while programs run, every transaction in the ring is of this session, the open
  one has all its records there, and nothing is older than a round. It holds because
  a mount leaves no transaction behind, which is `Flood` below.
- `Flagged`: if the device says clean, no transaction is in the ring, or recovery is at work.
- `Flood`: the rebuild writes more records than the ring has slots (`Rebuilds > NRec`), so at
  its end every older record is overwritten. This is why the code may clear the dirty
  flag although it never empties the journal.
- `HomeFresh`: a block holds nothing older than a call that returned, or recovery
  will bring it, or a record still to be applied is at least as new.
- `AckedCovered`, `CallWritten`, `Replayed`, `HomeWritten`: what recovery would find, for
  calls that returned, for the one that runs, and in the middle of a replay.

There is one lemma per action. `Stable`, the refinement mapping, is then the newest
record recovery would apply, or the block (`StableSound`); all steps but three leave
`writes` and `acked` alone and are `Settle`, and `Begin`, `SealB` and `Commit` leave `Stable`
alone and are `Start` and `Return`. The refinement needs the invariant after the
step too, since a block settles on what the next state would leave.

What the attempts found: `AckedSurvive` is false on one hart too, by three cuts
(`journal_again`), which is why `skipped` is there. And a chunk of one record is too
short: the valve would close a transaction before its only record is
on the device. The code's chunk is 200 and its ring 255 slots, so `Chunk >= 2` and
`NRec > Chunk + 2` are assumed.

### 4.4 The block cache and the driver

`BlkInv` follows a copy of a block on its way. Of a block that no race marked, every copy is
current: the device's, the cache's, and the one a hart has fetched and not yet installed,
unless the cache has one meanwhile. A call may answer with whatever its block has held since
it began (`SeenInv`). The driver's part counts: completions plus requests with the device are
what the driver has taken plus one for whoever polls plus the time-outs (`InFlight`); hence
before the first time-out what the device holds is the poller's own request, and the shared
buffer and status byte are its answer. All of it is for any number of harts, sectors and slots.

### 4.5 Control groups, pids and paths

`CgInv`: a reserved slot has exactly one creator and no member, nobody in it charges it, and a
slot handed over and not entered since belongs to nobody. So the look at the slot that
`cgcreate` repeats before it installs a group (`InstallGroup`) always finds the slot still
reserved and empty; its other branch is unreachable.

`NsInv` says of pids that names are taken (`NamesAreTaken`: who is in the table was handed its
pid, and its local one by its namespace), that a child being built is nobody yet, that who is
gone was reaped and the exit log is the end of that list (`LogIsTail`), and, of a kill that goes
on, that each member of the group is marked, still to be marked, or new (`KillGoesOn`).

The jail is shown by the depth of the tree: a walk that starts at the root and steps up only
while it is deeper stays below the root, component by component, and a bind leads below what
was granted (`JailHolds`) when the jail was closed. `CwdIsThere` is inductive with `removed`:
`chdir` and `chroot` go to what is there, mkdir takes nothing away, and unlink of the
directory, or of one above it, sets `removed`.

### 4.6 Frames, the heap and descriptors

A frame is in one spot: a task's space, a space some hart builds or frees, the free frames,
or the lost ones (`OneSpot`). Every step is a move of frames from one spot to another
(`MoveSorts`), of which there are three kinds: one task's space changes (`TaskChanges`), what
one hart builds or frees changes (`JobChanges`), or a space goes from one to the other
(`Handover`); exec, and a copy of the kernel's tables that fails, are two moves. That a move
takes what is there, once, needs the rest of `IInv`: within a space no frame has two uses
(`OneUse`), so unmapping a page does not free a table; what a plan has left is not in the
space yet, and when the kernel's tables fail nothing but the root and tables is (`PlanFits`),
so that giving back the root and losing the tables accounts for everything; a hart in a
program runs a task no other hart runs, on that task's root (`OnItsRoot`), so a space that is
reaped or filled in has no hart on it; and two harts never fork the same child (`JobFits`).
`TlbFits` says of a hart in a program, or in a call that has not unmapped anything, that its
translations are its task's. Between an unmapping and the flush it does not hold, nor need it.

The theorem says nothing of a hart in mode "leave": there the root may be free, which is the
window of `NoHartOnFreedRoot` (3.3).

The heap (`HeapInv`): free nodes come in the order of their addresses and never touch
(`NodesApart`), blocks and nodes are clear of each other (`BlocksApart`), and every cell is
covered (`NoCellLost`). Splits and merges keep it; since a block and its header never overlap
another, what is lent overlaps nothing lent, and each step is one of `Arena`'s.

Descriptors (`FdInv`): the place to write to follows the bytes in a pipe's ring (`RingsFit`), an
end of a pipe has its pipe and only files are open for one image (`EndsFit`), and with these the
three properties of the run are inductive.

### 4.7 Shell and downloader

- `JobsInv`: pids are handed out in order, so a new child is nobody's job; a dead shell leaves
  no table; the child of a capture, which is reaped without a look at the table, is no job.
- `EditInv`: the terminal shows the line and blanks behind it; the ring holds the last lines,
  two numbers that share a place being a ring apart (`RingApart`).
- `WordsInv`: `WordsFit` for the arrays; `ArgsFit`: each word behind `todo` has its argument in
  its place; `QuotesAgree`: position by position, the pass that looks for operators
  is in the quotes the splitting is in, also over a variable's name, a backslash at the end and
  what is skipped of a word that is full.
- `FnInv` says what the matcher may forget. `Can(a, b)`: the pattern from `a` on matches the name
  from `b` on. As long as no star was seen, the whole matches exactly when the rest does; after a
  star, exactly when the pattern from that star on matches the name from where its run ends,
  and what it tries now is the shortest run. Stars before the last one need no second try.
- `EnvInv`: a name is in the table once with its last value, or not at all.
- `HttpInv`: what was kept of a reply is what was received behind its header.

### 4.8 The machine

`BootInv`: one hart in front (`OneInFront`); whoever may let others join has initialised what is
shared (`LetsJoinAfterInit`); a hart that was started is under way (`StartedIsUnderWay`); at the
verdict all were asked (`AskedForAll`). `~Late` is assumed, since with a late hart the statement
is false (3.3). The console's parts are `AnyCpus` (the lock and the claim, any number of harts),
`OneSends` (every byte on the wire, in the register, the ring or the handler's hand)
and `OneGives` (a character given is older than those in the ring, these older
than the handler's, than the receiver's, than those to come), the last two of one hart.

### 4.9 The network

`TcpInv`: the peer has what it acknowledged (`PeerFits`), what is on the wire is what its number says
(`WireFits`), and a control block relates what was taken, read and acknowledged to the streams
(`Receives`, `Sends`). `DgInv`: what is staged rises in number and is younger than its
socket. `SockInv`: ports are distinct, a listener has one waiting child, and a slot in
use is named by a descriptor or excused. `DevInv`: every buffer is
to be filled, filled, or in the handler's hands, once (`RxFits`); a station is cached once
(`CacheFits`); until a deadline passed one frame at most is on its way (`TxFits`).

### 4.10 What is assumed, and what is only model-checked

**Assumptions.** Those the modules state (`...Assumption`): kinds of values differ, sizes are
positive. Beyond that: no port is 0 (`SocketsAssumption`); buffers
are finitely many (`NetDevAssumption`), as are the harts that boot and those of the console; the
window is even (`RunQueueAssumption`: the preemption looks at the parity of the tick); files are
finitely many, and names are put in at most up to the size of the array (`WordsAssumption`); `Chunk >= 2`, `NRec > Chunk + 2` and `Rebuilds > NRec`
(`JournalAssumption`); enough frames for one space (`AddrSpaceAssumption`); no late hart and one
run queue (`MCMachineAssumption`). Harts of the scheduler, pids, processes and blocks need not even be finite.

**Only model-checked.** The two-hart half of `RecordsHold`; `TreeIsSound` and `ReadBack`;
`ContainersTracked` and `PackagesHold`; of `DownloadsAreWhole` the half of wgets, and
`FailsForCause`. Liveness (`TurnsAreTaken`, `NobodyWaitsForEver`, `HartsComeUp`,
`OutputIsSent`, `PromptComesBack`) is out of the prover's reach. The library's induction
theorems that take an operator cannot be used here; where a recursive function has to be
followed, the step is taken over a set of the positions for which the statement holds, with
the theorems on well-founded sets.

## 5. What is left

Proofs: `PackagesHold` and `ContainersTracked`, whose invariants have to say what is true at
every step of a run that may be killed there; `TreeIsSound` of `DiskFs`; `NextIsFresh` of
`Journal` on any number of harts.

Of the system: process groups and deadlines in `Sched`; the file names of redirections
(`redir_name` of the shell, which reads quotes its own way); the resolver on top of
`Datagrams`; a container's program that forks, which `Ctr` leaves out; the charges that fall
between two reads of one pick.

### Not modelled

- The compilers (`aeroc`, `muse-lean`, `lean-self`): batch programs, functions of their input
  with no state between runs, over recursive terms that bounded checking hardly samples.
- The educational kernel: a single-hart precursor with a subset of the behaviour.
- The host-testable mirror `kernel/src/lib.rs`: copies of functions modelled from the original.
- Small user programs and tests, `user/webserver` and `user/curl` among them: sequential use of
  calls whose behaviour the kernel's modules have.
- Formats: ELF, frame and packet headers, checksums, DER, the bits of page tables and the
  layout of an inode. A conversion with two outcomes is a choice, an injective one is a
  record of its arguments.
- Output that changes nothing: listings, logs, `ps`, statistics.
- Build and test tools of the host, apart from the image `mkfs` leaves, which `Journal` and
  `DiskFs` start from.
