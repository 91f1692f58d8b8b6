----------------------------- MODULE Datagrams -----------------------------
(***************************************************************************)
(* UDP and ICMP sockets of the kernel (kernel/src/net/mod.rs): which       *)
(* socket a packet is staged to, the staging queue, send and receive.      *)
(* Addresses of the link are known or not (NetDev.tla has the cache);      *)
(* every packet that arrives is numbered.                                  *)
(***************************************************************************)
EXTENDS Naturals, Sequences, FiniteSets

CONSTANTS
    DgSlots,     \* socket slots
    DgPorts,     \* ports; an ICMP socket's echo identifier is its port
    StageCap,    \* packets staged per socket (8)
    MaxPackets   \* bound of the model: packets that arrive

ASSUME DatagramsAssumption ==
    /\ DgSlots \subseteq Nat
    /\ {StageCap, MaxPackets} \subseteq Nat

VARIABLES
    dg,        \* slot -> kind ("free", "udp", "icmp" or "tcp"), port, peer, rx, since
    packets,   \* packets that have arrived
    got0,      \* number of the packet last received, per slot, since it was opened
    answered,  \* echo requests answered
    known      \* the peer's link address is in the cache

dgVars == <<dg, packets, got0, answered, known>>

Bare == [kind |-> "free", port |-> 0, peer |-> FALSE, rx |-> <<>>, since |-> 0]

DgInit ==
    /\ dg = [i \in DgSlots |-> Bare]
    /\ packets = 0
    /\ got0 = [i \in DgSlots |-> 0]
    /\ answered = 0
    /\ known = FALSE

InUseBy(port) == {i \in DgSlots : dg[i].kind # "free" /\ dg[i].port = port}

\* Mutant: the queue of the slot's last owner stays.
Opened_Dirty(i, k, port) == [dg[i] EXCEPT !.kind = k, !.port = port, !.peer = FALSE, !.since = packets]

\* What sock_open_kind() writes into the slot.
DgOpened(i, k, port) == [kind |-> k, port |-> port, peer |-> FALSE, rx |-> <<>>, since |-> packets]

DgOpen(i, k, port) ==
    /\ dg[i].kind = "free"
    /\ InUseBy(port) = {}
    /\ dg' = [dg EXCEPT ![i] = DgOpened(i, k, port)]
    /\ got0' = [got0 EXCEPT ![i] = 0]
    /\ UNCHANGED <<packets, answered, known>>

\* sock_close() empties the queue of a UDP or ICMP socket.
DgClose(i) ==
    /\ dg[i].kind # "free"
    /\ dg' = [dg EXCEPT ![i].kind = "free", ![i].rx = IF dg[i].kind = "tcp" THEN @ ELSE <<>>]
    /\ UNCHANGED <<packets, got0, answered, known>>

\* sock_connect().
DgConnect(i) ==
    /\ dg[i].kind \in {"udp", "icmp"}
    /\ dg' = [dg EXCEPT ![i].peer = TRUE]
    /\ UNCHANGED <<packets, got0, answered, known>>

\* sock_send() and icmp_send(): an answer needs the link address; a request for
\* it is sent otherwise, and the reply is what arrives as `known'.
DgSend(i) ==
    /\ dg[i].kind \in {"udp", "icmp"} /\ dg[i].peer
    /\ ~known
    /\ known' \in BOOLEAN
    /\ UNCHANGED <<dg, packets, got0, answered>>

\* Mutant: the queue has no end.
Room_Always(i) == TRUE

Room(i) == Len(dg[i].rx) < StageCap

Stage(i, proto) ==
    dg' = IF Room(i)
          THEN [dg EXCEPT ![i].rx = Append(@, [n |-> packets + 1, proto |-> proto])]
          ELSE dg

Arrives == packets < MaxPackets /\ packets' = packets + 1

\* A UDP packet: to the socket with that port, whatever its kind.
UdpRx(port) ==
    /\ Arrives
    /\ IF InUseBy(port) = {} THEN UNCHANGED dg
       ELSE Stage(CHOOSE i \in InUseBy(port) : TRUE, "udp")
    /\ UNCHANGED <<got0, answered, known>>

\* An echo reply: to the ICMP socket with that identifier.
EchoReplyRx(id) ==
    LET for == {i \in InUseBy(id) : dg[i].kind = "icmp"} IN
    /\ Arrives
    /\ IF for = {} THEN UNCHANGED dg ELSE Stage(CHOOSE i \in for : TRUE, "icmp")
    /\ UNCHANGED <<got0, answered, known>>

\* An echo request is answered on the spot; its sender was entered in the cache.
EchoRequestRx ==
    /\ Arrives
    /\ known' = TRUE
    /\ answered' = answered + 1
    /\ UNCHANGED <<dg, got0>>

\* Mutant: the newest packet first.
NextOf_Newest(q) == Len(q)

NextOf(q) == 1

\* sock_recv().
DgRecv(i) ==
    /\ dg[i].kind \in {"udp", "icmp"}
    /\ dg[i].rx # <<>>
    /\ LET q == dg[i].rx  k == NextOf(q) IN
       /\ got0' = [got0 EXCEPT ![i] = q[k].n]
       /\ dg' = [dg EXCEPT ![i].rx = SubSeq(q, 1, k - 1) \o SubSeq(q, k + 1, Len(q))]
    /\ UNCHANGED <<packets, answered, known>>

DgNext ==
    \/ \E i \in DgSlots :
         \/ DgClose(i) \/ DgConnect(i) \/ DgSend(i) \/ DgRecv(i)
         \/ \E k \in {"udp", "icmp", "tcp"}, port \in DgPorts : DgOpen(i, k, port)
    \/ \E port \in DgPorts : UdpRx(port) \/ EchoReplyRx(port)
    \/ EchoRequestRx

DgSpec == DgInit /\ [][DgNext]_dgVars

----------------------------------------------------------------------------

StagingBounded == \A i \in DgSlots : Len(dg[i].rx) <= StageCap

\* Safety.  A socket receives only what arrived after it was opened: a slot, or a
\* port, that had another owner brings nothing of his along (sock_open_kind).
NothingOfTheLastOwner ==
    \A i \in DgSlots : dg[i].kind # "free" =>
      \A k \in DOMAIN dg[i].rx : dg[i].rx[k].n > dg[i].since

\* Action property.  A socket receives packets in the order they arrived; a full
\* queue loses the newest, never one in the middle (parse_frame, sock_recv).
ReceivedInOrder ==
    [][\A i \in DgSlots : got0'[i] # got0[i] /\ got0'[i] # 0 => got0'[i] > got0[i]]_dgVars

\* Stated by net/mod.rs:1016-1017 ("replies matching (id, any seq) are staged to
\* the owning socket. Others dropped"); does not hold: a UDP packet is staged to
\* whatever socket has the port, and an ICMP socket hands it out as a reply.
PingGetsReplies ==
    \A i \in DgSlots : dg[i].kind = "icmp" =>
      \A k \in DOMAIN dg[i].rx : dg[i].rx[k].proto = "icmp"
============================================================================
