------------------------------ MODULE Sockets ------------------------------
(***************************************************************************)
(* The socket table of the kernel (kernel/src/net/mod.rs, net/tcp.rs) and  *)
(* the descriptors that name its slots (kernel/src/syscall.rs): opening    *)
(* with reclaim of lingering slots, ports, listen and accept with its      *)
(* two-step hand-over, close, fork, the cleanup in waitpid, and what the   *)
(* peer and the timer do to a slot behind the owner's back.                *)
(*                                                                         *)
(* A connection is its state only (Tcp.tla has the bytes).  FinW2 and      *)
(* Closing are left out: a closing slot hears nothing, so they are never   *)
(* reached (Tcp!Hears).  UDP and ICMP sockets are one kind.                *)
(***************************************************************************)
EXTENDS Naturals, FiniteSets

CONSTANTS
    NSock,     \* NSOCK
    Owners,    \* processes; the first one alive is owner0
    owner0,
    NFds,      \* descriptors of a process
    Fixed,     \* ports sock_bind is asked for
    Ephemeral, \* ports alloc_port hands out
    MaxTaken   \* bound of the model: slots taken in all

ASSUME SocketsAssumption ==
    /\ {NSock, NFds, MaxTaken} \subseteq Nat
    /\ owner0 \in Owners
    /\ Fixed \cup Ephemeral \subseteq Nat \ {0}

VARIABLES
    sock,    \* slot -> used, kind, closing, lport, state, parent, accepted
    hold,    \* process, descriptor -> [slot, mine]: mine until the slot is taken anew
    peek,    \* process -> the child sys_accept() has peeked, or 0
    alive,   \* processes not yet reaped
    \* --- history ---
    taken,   \* slots taken so far
    gen,     \* slot -> changes whenever the slot is taken
    forked   \* a fork has shared descriptors

sockVars == <<sock, hold, peek, alive, taken, gen, forked>>

SlotIds == 1 .. NSock
Fds     == 1 .. NFds
NoSlot  == 0
Vacant  == [slot |-> NoSlot, mine |-> FALSE]

FreeSlot == [used |-> FALSE, kind |-> "udp", closing |-> FALSE, lport |-> 0,
             state |-> "Closed", parent |-> NoSlot, accepted |-> FALSE]

SockInit ==
    /\ sock = [i \in SlotIds |-> FreeSlot]
    /\ hold = [p \in Owners |-> [f \in Fds |-> Vacant]]
    /\ peek = [p \in Owners |-> NoSlot]
    /\ alive = {owner0}
    /\ taken = 0
    /\ gen = [i \in SlotIds |-> 0]
    /\ forked = FALSE

Used      == {i \in SlotIds : sock[i].used}
Free      == SlotIds \ Used
FirstOf(S) == CHOOSE i \in S : \A j \in S : i <= j
FreeFds(p) == {f \in Fds : hold[p][f] = Vacant}
Slot(p, f) == hold[p][f].slot

\* A process is in a call: it is alive and not between peek and commit.
Calls(p) == p \in alive /\ peek[p] = NoSlot

Holds(h, p, i) == [h EXCEPT ![p][FirstOf(FreeFds(p))] = [slot |-> i, mine |-> TRUE]]

\* The slot is taken: descriptors that name it name something else from now on.
Taken(i) == [p \in Owners |-> [f \in Fds |->
               IF Slot(p, f) = i THEN [slot |-> i, mine |-> FALSE] ELSE hold[p][f]]]

----------------------------------------------------------------------------
(* sock_open_kind() *)

\* Mutant: any TCP slot will do.
Victims_Any == {i \in Used : sock[i].kind = "tcp"}

\* Closed by their owner, and waiting for the peer; which is the oldest is open.
Victims == {i \in Used : sock[i].kind = "tcp" /\ sock[i].closing
                          /\ sock[i].state \in {"FinW1", "LastAck"}}

Candidates == IF Free # {} THEN {FirstOf(Free)} ELSE Victims

\* alloc_port(): a port no slot has; which one does not matter.
NextPort(ports) ==
    IF Ephemeral \subseteq ports THEN {} ELSE {FirstOf(Ephemeral \ ports)}

\* sys_socket(); with no descriptor left the new socket is closed again.
Open(p, k) ==
    /\ Calls(p)
    /\ taken < MaxTaken
    /\ \E i \in Candidates : \E port \in NextPort({sock[j].lport : j \in Used \ {i}}) :
         /\ taken' = taken + 1
         /\ gen' = [gen EXCEPT ![i] = 1 - @]
         /\ IF FreeFds(p) # {}
            THEN /\ sock' = [sock EXCEPT ![i] = [FreeSlot EXCEPT !.used = TRUE, !.kind = k, !.lport = port]]
                 /\ hold' = Holds(Taken(i), p, i)
            ELSE sock' = [sock EXCEPT ![i] = FreeSlot] /\ hold' = Taken(i)
    /\ UNCHANGED <<peek, alive, forked>>

----------------------------------------------------------------------------
(* sock_close(), tcp_close() *)

\* Mutant: FIN is sent and the slot freed at once.
Closed_AtOnce(s) == FreeSlot

\* The slot after a close: a connection stays to see its FIN acknowledged.
Closed(s) ==
    IF s.kind = "tcp" /\ s.state \in {"Est", "CloseWait"}
    THEN [s EXCEPT !.closing = TRUE, !.state = IF @ = "Est" THEN "FinW1" ELSE "LastAck"]
    ELSE FreeSlot

\* sys_close().
CloseFd(p, f) ==
    /\ Calls(p)
    /\ hold[p][f] # Vacant
    /\ sock' = [sock EXCEPT ![Slot(p, f)] = IF @.used THEN Closed(@) ELSE @]
    /\ hold' = [hold EXCEPT ![p][f] = Vacant]
    /\ UNCHANGED <<peek, alive, taken, gen, forked>>

----------------------------------------------------------------------------
(* bind, listen, connect *)

\* Mutant: closing slots do not hold their port.
Bindable_Closing(i, port) == \A j \in Used \ {i} : sock[j].closing \/ sock[j].lport # port

\* sock_bind(), tcp_bind().
Bindable(i, port) == \A j \in Used \ {i} : sock[j].lport # port

Bind(p, f, port) ==
    LET i == Slot(p, f) IN
    /\ Calls(p)
    /\ i \in Used
    /\ Bindable(i, port)
    /\ sock' = [sock EXCEPT ![i].lport = port]
    /\ UNCHANGED <<hold, peek, alive, taken, gen, forked>>

\* tcp_listen(), tcp_connect(): of a closed TCP socket.
Start(p, f, st) ==
    LET i == Slot(p, f) IN
    /\ Calls(p)
    /\ i \in Used
    /\ sock[i].kind = "tcp" /\ sock[i].state = "Closed"
    /\ sock' = [sock EXCEPT ![i].state = st, ![i].accepted = (st = "SynSent")]
    /\ UNCHANGED <<hold, peek, alive, taken, gen, forked>>

----------------------------------------------------------------------------
(* accept *)

Waiting(l) == {i \in Used : /\ ~sock[i].closing
                            /\ sock[i].parent = l
                            /\ ~sock[i].accepted}

\* sys_accept(): tcp_accept() peeks a child.
Peek(p, f) ==
    LET l == Slot(p, f) IN
    /\ Calls(p)
    /\ l \in Used /\ sock[l].state = "Listen"
    /\ \E i \in Waiting(l) :
         /\ sock[i].state = "Est"
         /\ \A j \in Waiting(l) : sock[j].state = "Est" => i <= j
         /\ peek' = [peek EXCEPT ![p] = i]
    /\ UNCHANGED <<sock, hold, alive, taken, gen, forked>>

\* Mutant: the child counts as accepted although there is no descriptor for it.
Handed_Always(p) == TRUE

Handed(p) == FreeFds(p) # {}

\* sys_accept() takes a descriptor and, if there is one, commits.
Commit(p) ==
    LET i == peek[p] IN
    /\ i # NoSlot
    /\ hold' = IF FreeFds(p) # {} THEN Holds(hold, p, i) ELSE hold
    /\ sock' = IF Handed(p) /\ sock[i].used
               THEN [sock EXCEPT ![i].accepted = TRUE] ELSE sock
    /\ peek' = [peek EXCEPT ![p] = NoSlot]
    /\ UNCHANGED <<alive, taken, gen, forked>>

----------------------------------------------------------------------------
(* The network and the timer *)

\* Mutant: every SYN gets a child.
Backlog_Any(l) == TRUE

\* listener_syn(): one child nobody accepted.
Backlog(l) == Waiting(l) = {}

Syn(l) ==
    /\ l \in Used /\ sock[l].state = "Listen"
    /\ Backlog(l)
    /\ Free # {}
    /\ taken < MaxTaken
    /\ LET i == FirstOf(Free) IN
       /\ sock' = [sock EXCEPT ![i] = [FreeSlot EXCEPT
                     !.used = TRUE, !.kind = "tcp", !.lport = sock[l].lport,
                     !.state = "SynRcvd", !.parent = l]]
       /\ taken' = taken + 1
       /\ gen' = [gen EXCEPT ![i] = 1 - @]
       /\ hold' = Taken(i)
    /\ UNCHANGED <<peek, alive, forked>>

Becomes(i, from, to) ==
    /\ i \in Used /\ ~sock[i].closing
    /\ sock[i].state \in from
    /\ sock' = [sock EXCEPT ![i].state = to]
    /\ UNCHANGED <<hold, peek, alive, taken, gen, forked>>

Establish(i) == Becomes(i, {"SynRcvd", "SynSent"}, "Est")
PeerFinRx(i) == Becomes(i, {"Est"}, "CloseWait")

\* A reset, or the retries are used up, or the linger time is: the slot is free,
\* whoever has a descriptor for it.  FinW1 times out only while data sent before the
\* FIN is unacknowledged; whether it is, Tcp knows, and here it is left open.
Drop(i) ==
    /\ i \in Used
    /\ sock[i].state \in {"SynRcvd", "SynSent", "Est", "CloseWait", "FinW1", "LastAck"}
    /\ sock' = [sock EXCEPT ![i] = FreeSlot]
    /\ UNCHANGED <<hold, peek, alive, taken, gen, forked>>

----------------------------------------------------------------------------
(* fork, and exit with waitpid *)

Share(p, q) ==
    /\ Calls(p)
    /\ q \notin alive
    /\ hold' = [hold EXCEPT ![q] = hold[p]]
    /\ alive' = alive \cup {q}
    /\ forked' = TRUE
    /\ UNCHANGED <<sock, peek, taken, gen>>

\* The dead child's sockets are closed one by one, at most once each here.
ReapOwner(q) ==
    LET slots == {Slot(q, f) : f \in Fds} IN
    /\ Calls(q)
    /\ q # owner0
    /\ sock' = [i \in SlotIds |-> IF i \in slots /\ sock[i].used THEN Closed(sock[i]) ELSE sock[i]]
    /\ hold' = [hold EXCEPT ![q] = [f \in Fds |-> Vacant]]
    /\ alive' = alive \ {q}
    /\ UNCHANGED <<peek, taken, gen, forked>>

----------------------------------------------------------------------------

SockNext ==
    \/ \E p \in Owners :
         \/ \E k \in {"udp", "tcp"} : Open(p, k)
         \/ \E f \in Fds :
              \/ CloseFd(p, f) \/ Peek(p, f)
              \/ \E st \in {"Listen", "SynSent"} : Start(p, f, st)
              \/ \E port \in Fixed : Bind(p, f, port)
         \/ Commit(p) \/ ReapOwner(p)
         \/ \E q \in Owners : Share(p, q)
    \/ \E i \in SlotIds : Syn(i) \/ Establish(i) \/ PeerFinRx(i) \/ Drop(i)

SockSpec == SockInit /\ [][SockNext]_sockVars

----------------------------------------------------------------------------

Held == {Slot(p, f) : p \in alive, f \in Fds} \cup {peek[p] : p \in alive}

\* Safety.  Two sockets share a port only if one is a connection a listener
\* took on that port: neither alloc_port nor bind gives out a port that is in
\* use, by a lingering slot either.
PortsDistinct ==
    \A i, j \in Used : i # j /\ sock[i].lport = sock[j].lport =>
      sock[i].parent # NoSlot \/ sock[j].parent # NoSlot

\* Safety.  A listener has at most one connection nobody accepted (listener_syn),
\* whatever is reset, accepted or closed in between.
OneWaiting ==
    \A l \in SlotIds : Cardinality(Waiting(l)) <= 1

\* Safety.  No slot is lost: one that nobody has a descriptor for is closing or a
\* connection still to be accepted (accept with a full descriptor table, the
\* cleanup in waitpid).
NoSlotLost ==
    \A i \in Used \ Held : sock[i].closing \/ (sock[i].parent # NoSlot /\ ~sock[i].accepted)

\* Action property.  A slot is taken anew only if it was free or its owner had
\* closed it: reclaiming never steals a live connection (sock_open_kind).
NeverStolen ==
    [][\A i \in SlotIds : gen'[i] # gen[i] => ~sock[i].used \/ sock[i].closing]_sockVars

\* Action property.  A connection its program closes goes through its closing
\* state: a slot is taken away from an established connection only by a reset or
\* a timeout, never by close (tcp_close).
CloseIsGraceful ==
    [][\A i \in SlotIds :
         /\ sock[i].state \in {"Est", "CloseWait"}
         /\ \E p \in Owners, f \in Fds : Slot(p, f) = i /\ hold'[p][f] = Vacant
         => sock'[i].used]_sockVars

\* Does not hold: a reset or a timeout frees the slot while the descriptor still
\* names it (tcp.rs:217), and the next socket() may take it.
DescriptorNamesItsSocket ==
    ~forked =>
      \A p \in Owners, f \in Fds :
        Slot(p, f) \in Used => hold[p][f].mine
============================================================================
