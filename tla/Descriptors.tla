---------------------------- MODULE Descriptors ----------------------------
(***************************************************************************)
(* File descriptors (kernel/src/syscall.rs), pipes (kernel/src/fs/pipe.rs) *)
(* and the in-memory file system behind fs/mod.rs (kernel/src/fs/ramfs.rs).*)
(* A descriptor is a kind with, for a file, a path and an offset; it names *)
(* no inode, and its offset is its own, also after dup and fork.  A system *)
(* call runs to its end with interrupts off on one hart, so it is one      *)
(* action.  Sockets are the slots in use only: Sockets.tla has the rest.   *)
(***************************************************************************)
EXTENDS Naturals, Sequences

CONSTANTS
    Procs, proc0,  \* processes; the first is proc0
    FdMax,         \* 16 in the code: descriptors 0 .. FdMax - 1
    Names,         \* paths, as their numbers in the registry
    SockSlots,     \* NSOCK
    PipeCap,       \* CAP
    Chunks,        \* what one write call writes
    MaxPipes,      \* bound of the model: pipes ever created
    MaxSent,       \* bound of the model: bytes written to a pipe
    MaxLen         \* bound of the model: length of a file

ASSUME DescriptorsAssumption ==
    /\ proc0 \in Procs
    /\ {FdMax, SockSlots, PipeCap, MaxPipes, MaxSent, MaxLen} \subseteq Nat
    /\ FdMax > 3 /\ PipeCap > 0
    /\ Chunks \subseteq Seq(Nat)

VARIABLES
    fdt,     \* process -> descriptor -> [kind, obj, slot, off, cloexec, image, app]: image (of a
             \* CLOEXEC file) and app (written only at its end so far) are history
    running, \* processes that exist
    files,   \* path of an existing file -> its bytes
    pipes,   \* sequence of [buf, r, w, n]; a pipe's id is its place, never reused
    socks,   \* socket slots in use
    \* --- history ---
    image,   \* process -> the image it runs, changed by exec
    sent,    \* pipe -> bytes write() accepted
    got,     \* pipe -> bytes read() returned
    shared   \* a socket descriptor was duplicated, by dup or fork

fdVars == <<fdt, running, files, pipes, socks, image, sent, got, shared>>

FdIds    == 0 .. FdMax - 1
NoImage  == 2
Unused   == [kind |-> "none", obj |-> 0, slot |-> 0, off |-> 0, cloexec |-> FALSE,
             image |-> NoImage, app |-> FALSE]

FdInit ==
    /\ fdt = [p \in Procs |-> [f \in FdIds |->
               [Unused EXCEPT !.kind = CASE f = 0 -> "stdin" [] f \in {1, 2} -> "stdout" [] OTHER -> "none"]]]
    /\ running = {proc0}
    /\ files = <<>>
    /\ pipes = <<>>
    /\ socks = {}
    /\ image = [p \in Procs |-> 0]
    /\ sent = <<>> /\ got = <<>>
    /\ shared = FALSE

Lowest(S)      == CHOOSE x \in S : \A y \in S : x <= y
FreeFrom(p, k) == {f \in FdIds : f >= k /\ fdt[p][f].kind = "none"}
Kind(p, f)     == fdt[p][f].kind
Least(a, b)    == IF a < b THEN a ELSE b

SetFd(p, f, d) == fdt' = [fdt EXCEPT ![p][f] = d]

----------------------------------------------------------------------------
(* Files *)

FileDesc(p, x, off, flags) ==
    [kind |-> "file", obj |-> x, slot |-> 0, off |-> off,
     cloexec |-> "cloexec" \in flags, app |-> "append" \in flags,
     image |-> IF "cloexec" \in flags THEN image[p] ELSE NoImage]

\* The files with s under the path x, which may be new.
Written(x, s) == [y \in DOMAIN files \cup {x} |-> IF y = x THEN s ELSE files[y]]

\* The file after open with the flags: created, truncated or left alone.
Opened(x, flags) ==
    IF x \notin DOMAIN files \/ "trunc" \in flags THEN <<>> ELSE files[x]

\* sys_open().  The file is created or truncated before a descriptor is looked
\* for, so that the call may fail with the file changed.
OpenFile(p, x, flags) ==
    /\ x \in DOMAIN files \/ "create" \in flags
    /\ files' = Written(x, Opened(x, flags))
    /\ fdt' = IF FreeFrom(p, 3) = {} THEN fdt
              ELSE [fdt EXCEPT ![p][Lowest(FreeFrom(p, 3))] =
                     FileDesc(p, x, IF "append" \in flags THEN Len(Opened(x, flags)) ELSE 0, flags)]
    /\ UNCHANGED <<running, pipes, socks, image, sent, got, shared>>

\* write_at(): what is missing up to off is filled with zeros.
WriteAt(s, off, b) ==
    [i \in 1 .. (IF Len(s) > off + Len(b) THEN Len(s) ELSE off + Len(b)) |->
       IF i > off /\ i <= off + Len(b) THEN b[i - off]
       ELSE IF i <= Len(s) THEN s[i] ELSE 0]

\* sys_write() to a file, by the path the descriptor carries; of a file that is
\* gone nothing is written.
WriteFile(p, f, b) ==
    LET d == fdt[p][f] IN
    /\ d.kind = "file"
    /\ d.off + Len(b) <= MaxLen
    /\ IF d.obj \notin DOMAIN files THEN UNCHANGED <<fdt, files>>
       ELSE /\ files' = [files EXCEPT ![d.obj] = WriteAt(@, d.off, b)]
            /\ SetFd(p, f, [d EXCEPT !.off = @ + Len(b)])
    /\ UNCHANGED <<running, pipes, socks, image, sent, got, shared>>

\* read_at(): as many of the n bytes at off as there are.
ReadLen(x, off, n) ==
    IF x \notin DOMAIN files \/ off >= Len(files[x]) THEN 0 ELSE Least(n, Len(files[x]) - off)

ReadFile(p, f, n) ==
    LET d == fdt[p][f] IN
    /\ d.kind = "file"
    /\ SetFd(p, f, [d EXCEPT !.off = @ + ReadLen(d.obj, d.off, n)])
    /\ UNCHANGED <<running, files, pipes, socks, image, sent, got, shared>>

\* sys_lseek(); a missing file has size 0, an offset past the end is legal.
Seek(p, f, to) ==
    /\ Kind(p, f) = "file"
    /\ SetFd(p, f, [fdt[p][f] EXCEPT !.off = to, !.app = FALSE])
    /\ UNCHANGED <<running, files, pipes, socks, image, sent, got, shared>>

Unlink(x) ==
    /\ x \in DOMAIN files
    /\ files' = [y \in DOMAIN files \ {x} |-> files[y]]
    /\ UNCHANGED <<fdt, running, pipes, socks, image, sent, got, shared>>

\* sys_link() without a disk: the bytes are copied.
LinkFile(x, y) ==
    /\ x \in DOMAIN files /\ y \notin DOMAIN files
    /\ files' = Written(y, files[x])
    /\ UNCHANGED <<fdt, running, pipes, socks, image, sent, got, shared>>

----------------------------------------------------------------------------
(* Pipes *)

EmptyPipe == [buf |-> [i \in 0 .. PipeCap - 1 |-> 0], r |-> 0, w |-> 0, n |-> 0]

PipeEnd(k, id) == [Unused EXCEPT !.kind = k, !.obj = id]

\* sys_pipe(): the pipe is made first; the read end is kept when there is no
\* descriptor left for the write end, and the call fails.
MakePipe(p) ==
    LET id == Len(pipes) + 1
        r  == FreeFrom(p, 3)
        w  == r \ {Lowest(r)}
        t  == IF r = {} THEN fdt ELSE [fdt EXCEPT ![p][Lowest(r)] = PipeEnd("rpipe", id)] IN
    /\ id <= MaxPipes
    /\ pipes' = Append(pipes, EmptyPipe)
    /\ sent' = Append(sent, <<>>) /\ got' = Append(got, <<>>)
    /\ fdt' = IF r = {} \/ w = {} THEN t ELSE [t EXCEPT ![p][Lowest(w)] = PipeEnd("wpipe", id)]
    /\ UNCHANGED <<running, files, socks, image, shared>>

\* Mutant: the ring has one place more than the pipe.
Space_Off(q) == PipeCap + 1 - q.n

\* pipe::write(): what does not fit is not written.
Space(q) == PipeCap - q.n

\* How many places after w the place i of the ring is.
From(w, i) == (i + PipeCap - w) % PipeCap

PipeWrite(p, f, b) ==
    LET id == fdt[p][f].obj
        q  == pipes[id]
        k  == Least(Len(b), Space(q)) IN
    /\ Kind(p, f) = "wpipe"
    /\ Len(sent[id]) + k <= MaxSent
    /\ pipes' = [pipes EXCEPT ![id] =
         [q EXCEPT !.buf = [i \in DOMAIN q.buf |->
                              IF From(q.w, i) < k THEN b[1 + From(q.w, i)] ELSE q.buf[i]],
                   !.w = (@ + k) % PipeCap, !.n = @ + k]]
    /\ sent' = [sent EXCEPT ![id] = @ \o SubSeq(b, 1, k)]
    /\ UNCHANGED <<fdt, running, files, socks, image, got, shared>>

\* The n oldest bytes in the ring.
Oldest(q, n) == [i \in 1 .. n |-> q.buf[(q.r + i - 1) % PipeCap]]

\* pipe::read(): an empty pipe gives nothing and does not wait.
PipeRead(p, f, n) ==
    LET id == fdt[p][f].obj
        q  == pipes[id]
        k  == Least(n, q.n) IN
    /\ Kind(p, f) = "rpipe"
    /\ pipes' = [pipes EXCEPT ![id] = [q EXCEPT !.r = (@ + k) % PipeCap, !.n = @ - k]]
    /\ got' = [got EXCEPT ![id] = @ \o Oldest(q, k)]
    /\ UNCHANGED <<fdt, running, files, socks, image, sent, shared>>

----------------------------------------------------------------------------
(* Sockets, dup, close *)

\* sys_socket(): the slot is given back when there is no descriptor.
Socket(p) ==
    LET s == Lowest(1 .. SockSlots \ socks)
        f == Lowest(FreeFrom(p, 3)) IN
    /\ socks # 1 .. SockSlots
    /\ FreeFrom(p, 3) # {}
    /\ socks' = socks \cup {s}
    /\ SetFd(p, f, [Unused EXCEPT !.kind = "socket", !.slot = s])
    /\ UNCHANGED <<running, files, pipes, image, sent, got, shared>>

\* sys_close(): of a socket it frees the slot the descriptor names.  What stays
\* behind in an unused descriptor nothing reads.
Close(p, f) ==
    /\ Kind(p, f) # "none"
    /\ socks' = IF Kind(p, f) = "socket" THEN socks \ {fdt[p][f].slot} ELSE socks
    /\ SetFd(p, f, Unused)
    /\ UNCHANGED <<running, files, pipes, image, sent, got, shared>>

\* The copy has all but the flag, and its own number where the slot was.
CopyOf(d, f) ==
    [d EXCEPT !.slot = IF d.kind = "socket" THEN f ELSE 0, !.cloexec = FALSE, !.image = NoImage]

Dup(p, f) ==
    LET g == Lowest(FreeFrom(p, 0)) IN
    /\ Kind(p, f) # "none"
    /\ FreeFrom(p, 0) # {}
    /\ SetFd(p, g, CopyOf(fdt[p][f], g))
    /\ shared' = (shared \/ Kind(p, f) = "socket")
    /\ UNCHANGED <<running, files, pipes, socks, image, sent, got>>

\* sys_dup2(): what the new descriptor was is not closed.
Dup2(p, f, g) ==
    /\ Kind(p, f) # "none"
    /\ f # g
    /\ SetFd(p, g, CopyOf(fdt[p][f], g))
    /\ shared' = (shared \/ Kind(p, f) = "socket" \/ Kind(p, g) = "socket")
    /\ UNCHANGED <<running, files, pipes, socks, image, sent, got>>

----------------------------------------------------------------------------
(* fork, exec, and exit with waitpid *)

ForkFds(p, q) ==
    /\ q \notin running
    /\ running' = running \cup {q}
    /\ fdt' = [fdt EXCEPT ![q] = fdt[p]]
    /\ image' = [image EXCEPT ![q] = image[p]]
    /\ shared' = (shared \/ \E f \in FdIds : Kind(p, f) = "socket")
    /\ UNCHANGED <<files, pipes, socks, sent, got>>

\* Mutant: only files lose their flag, the descriptor stays.
AfterExec_Flag(d) == [d EXCEPT !.cloexec = FALSE]

\* exec() closes the CLOEXEC descriptors and keeps the others.
AfterExec(d) == IF d.cloexec THEN Unused ELSE d

ExecFds(p) ==
    /\ fdt' = [fdt EXCEPT ![p] = [f \in FdIds |-> AfterExec(@[f])]]
    /\ image' = [image EXCEPT ![p] = 1 - @]
    /\ UNCHANGED <<running, files, pipes, socks, sent, got, shared>>

\* Mutant: what the dead process had open stays open.
Released_Not(p) == {}

\* waitpid(): the sockets of the dead process are closed.
Released(p) == {fdt[p][f].slot : f \in {g \in FdIds : Kind(p, g) = "socket"}}

ReapFds(p) ==
    /\ p # proc0
    /\ running' = running \ {p}
    /\ socks' = socks \ Released(p)
    /\ fdt' = [fdt EXCEPT ![p] = [f \in FdIds |-> Unused]]
    /\ UNCHANGED <<files, pipes, image, sent, got, shared>>

----------------------------------------------------------------------------

FdNext ==
    \/ \E p \in running :
         \/ \E x \in Names :
              \E flags \in {{}, {"create"}, {"create", "trunc"}, {"append"}, {"create", "cloexec"}} :
                OpenFile(p, x, flags)
         \/ MakePipe(p) \/ Socket(p) \/ ExecFds(p) \/ ReapFds(p)
         \/ \E q \in Procs : ForkFds(p, q)
         \/ \E f \in FdIds :
              \/ \E b \in Chunks : WriteFile(p, f, b) \/ PipeWrite(p, f, b)
              \/ \E n \in 1 .. 2 : ReadFile(p, f, n) \/ PipeRead(p, f, n)
              \/ \E to \in 0 .. MaxLen : Seek(p, f, to)
              \/ Close(p, f) \/ Dup(p, f)
              \/ \E g \in FdIds : Dup2(p, f, g)
    \/ \E x, y \in Names : Unlink(x) \/ LinkFile(x, y)

FdSpec == FdInit /\ [][FdNext]_fdVars

----------------------------------------------------------------------------

\* Safety.  A pipe is a queue: what was read, and what is still in the ring, is
\* what writes were told they had written, whichever processes hold its ends
\* and wherever the ring wraps (pipe::read, pipe::write).
PipeIsAQueue ==
    \A id \in DOMAIN pipes : got[id] \o Oldest(pipes[id], pipes[id].n) = sent[id]

\* Safety.  A file opened CLOEXEC is not open in another image than the one that
\* opened it, or a fork of that: exec loses none of these descriptors, and a
\* descriptor reused for something else does not inherit the flag.
PrivateToItsImage ==
    \A p \in running, f \in FdIds :
      LET d == fdt[p][f] IN
      /\ d.image # NoImage => d.image = image[p]
      /\ d.cloexec = (d.image # NoImage)

\* Safety.  As long as no socket descriptor is duplicated, every slot in use has
\* one descriptor and every socket descriptor has a slot of its own: the table
\* of slots fills up with sockets somebody can close, and with no others.
SlotsHaveOwners ==
    ~shared =>
      /\ socks = UNION {Released(p) : p \in running}
      /\ \A p, q \in running, f, g \in FdIds :
           /\ Kind(p, f) = "socket" /\ Kind(q, g) = "socket"
           /\ fdt[p][f].slot = fdt[q][g].slot
           => p = q /\ f = g

\* Does not hold: dup and dup2 put the new descriptor's own number where a socket
\* has its slot (syscall.rs:676, :1250), against the comment at syscall.rs:436.
SocketDescriptorHasItsSlot ==
    [][\A p \in running, f, g \in FdIds :
         /\ Kind(p, f) = "socket" /\ Kind(p, g) = "none"
         /\ fdt'[p][g].kind = "socket" /\ socks' = socks
         => fdt'[p][g].slot = fdt[p][f].slot]_fdVars

\* Does not hold: the end of the file is looked up by open only, so two processes
\* that append write over each other (syscall.rs:421), where _doc/v3.12.md:39 takes
\* short appends for atomic.
AppendsAreAtomic ==
    [][\A p \in running, f \in FdIds :
         LET d == fdt[p][f] IN
         /\ d.app /\ fdt'[p][f].off # d.off
         /\ d.obj \in DOMAIN files /\ files' # files
         => SubSeq(files'[d.obj], 1, Len(files[d.obj])) = files[d.obj]]_fdVars

\* Does not hold: with one descriptor left pipe() fails and keeps it (syscall.rs:712).
PipeEndsInPairs ==
    [][Len(pipes') > Len(pipes) =>
         \A p \in running :
           {f \in FdIds : fdt'[p][f].kind = "rpipe" /\ Kind(p, f) # "rpipe"} = {}
           <=> {f \in FdIds : fdt'[p][f].kind = "wpipe" /\ Kind(p, f) # "wpipe"} = {}]_fdVars
============================================================================
