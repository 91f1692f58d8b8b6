----------------------------- MODULE MCMemory ------------------------------
\* Small instances of AddrSpace, KHeap and Descriptors, one of them in a behaviour.
EXTENDS AddrSpace, KHeap, Descriptors

MCChunks == {<<1>>, <<2, 3>>}

VARIABLE
    part

memVars == <<part, asVars, heapVars, fdVars>>

MemInit ==
    /\ AsInit /\ HeapInit /\ FdInit
    /\ part \in {"spaces", "heap", "files", "pipes", "sockets"}

Spaces == part = "spaces" /\ AsNext /\ UNCHANGED <<part, heapVars, fdVars>>
Heap == part = "heap" /\ HeapNext /\ UNCHANGED <<part, asVars, fdVars>>

\* A process does one kind of thing in a behaviour.  Standard input, output and
\* error stay; files are opened by one name and not for appending (AnyFileSpec
\* has that), two descriptors of files are open at most, a file has a second name while
\* one process runs, and exec is a matter of files.  A call that fails changes nothing.
Files ==
    /\ part \in {"files", "pipes", "sockets"}
    /\ FdNext
    /\ \A p \in running \cap running', f \in 0 .. 2 : fdt'[p][f] = fdt[p][f]
    /\ \A p \in Procs, f \in FdIds : fdt'[p][f].obj <= 1 /\ ~fdt'[p][f].app
    /\ Cardinality({d \in Procs \X FdIds : fdt'[d[1]][d[2]].kind = "file"}) <= 2
    /\ running' # {proc0} => 2 \notin DOMAIN files'
    /\ part # "files" => UNCHANGED <<files, image>>
    /\ part # "pipes" => UNCHANGED pipes
    /\ part # "sockets" => UNCHANGED socks
    /\ fdVars' # fdVars
    /\ UNCHANGED <<part, asVars, heapVars>>

MemNext == Spaces \/ Heap \/ Files

MemSpec == MemInit /\ [][MemNext]_memVars

Descriptor == part = "files" /\ FdNext /\ UNCHANGED <<part, asVars, heapVars>>

\* Every operation of the descriptors, on files opened for appending too.
AnyFileSpec == MemInit /\ part = "files" /\ [][Descriptor]_memVars

----------------------------------------------------------------------------

\* Safety: the kernel's heap is tiled by its blocks and free nodes, and these are as large
\* as they can be.  A pipe gives what was put into it, in order and once; a descriptor to be
\* closed by exec is in no other image; a socket slot in use has the one descriptor that
\* frees it.
CellsAndDescriptorsHold ==
    /\ HeapIsTiled /\ NoSlivers
    /\ PipeIsAQueue /\ PrivateToItsImage /\ SlotsHaveOwners
============================================================================
