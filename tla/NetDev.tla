------------------------------- MODULE NetDev -------------------------------
(***************************************************************************)
(* The network device driver and the address cache of the kernel           *)
(* (kernel/src/net/mod.rs): receive and transmit rings, the interrupt      *)
(* handler that harvests them, ARP.                                        *)
(*                                                                         *)
(* Everything runs under the lock NET, taken by the interrupt handler      *)
(* ("irq") or a socket call ("call"); the device moves in between.  A      *)
(* frame is [type, src, dst]: who sent it (the station whose address it    *)
(* carries) and the link address it is sent to, a station, "us" or "all".  *)
(* The link address of a station is the station.  The transmit deadline    *)
(* may pass whenever the device has not completed.                         *)
(***************************************************************************)
EXTENDS Naturals, Sequences, FiniteSets, SequencesExt

CONSTANTS
    Buffers,      \* the N_RXDESC receive buffers
    Stations,     \* other stations of the link
    ArpSlots,     \* size of the address cache
    MaxTimeouts,  \* bound of the model: transmit deadlines that pass
    MaxFrames,    \* bound of the model: frames that arrive
    MaxSends      \* bound of the model: different frames sent when a call starts

ASSUME NetDevAssumption ==
    /\ IsFiniteSet(Buffers)
    /\ ArpSlots \in Nat \ {0}
    /\ {MaxTimeouts, MaxFrames, MaxSends} \subseteq Nat
    /\ {"us", "all", "nobody"} \cap Stations = {}

VARIABLES
    ready,     \* READY: init() found a device and set up both queues
    avail,     \* receive buffers the device may fill, in order
    usedRing,  \* [id, frame] the device has filled, in order
    lock,      \* "free", "irq" or "call"
    inHand,    \* the entry the handler is at: [id, frame], or none
    txp,       \* TXP: the frame in the transmit buffer
    txQueue,   \* submissions the device has not taken
    txDone,    \* completions nobody has seen: (used index) - tx_used
    polling,   \* the frame a submitter waits for, or none
    arp,       \* the cache: slot -> [ip, mac]
    victim,    \* arp_victim
    asked,     \* arp_req_ip
    \* --- history ---
    onWire,    \* frames the device sent
    claimed,   \* frames tx_submit_locked() reported as sent
    timeouts,
    arrived

devVars == <<ready, avail, usedRing, lock, inHand, txp, txQueue, txDone,
             polling, arp, victim, asked, onWire, claimed, timeouts, arrived>>

Rx    == <<avail, usedRing, inHand>>
Tx    == <<txp, txQueue, txDone, polling>>
Cache == <<arp, victim, asked>>
Past  == <<onWire, claimed, timeouts, arrived>>

None   == "nobody"
Empty  == [ip |-> None, mac |-> None]
FrameTo(type, dst) == [type |-> type, src |-> "us", dst |-> dst]
NoFrame == FrameTo("none", None)

\* init(), probe() and qsetup(): whatever goes wrong leaves READY false;
\* otherwise every receive buffer is posted.
DevInit ==
    /\ ready \in BOOLEAN
    /\ avail = IF ready THEN SetToSeq(Buffers) ELSE <<>>
    /\ usedRing = <<>>
    /\ lock = "free" /\ inHand = <<>>
    /\ txp = NoFrame /\ txQueue = <<>> /\ txDone = 0 /\ polling = <<>>
    /\ arp = [k \in 0 .. ArpSlots - 1 |-> Empty]
    /\ victim = 0 /\ asked = None
    /\ onWire = {} /\ claimed = {} /\ timeouts = 0 /\ arrived = 0

----------------------------------------------------------------------------
(* The device (external) *)

Arriving ==
    [type : {"request"}, src : Stations, dst : {"all"}]
      \cup [type : {"reply", "ip"}, src : Stations, dst : {"us"}]

DeviceReceives(f) ==
    /\ avail # <<>>
    /\ arrived < MaxFrames
    /\ arrived' = arrived + 1
    /\ usedRing' = Append(usedRing, [id |-> Head(avail), frame |-> f])
    /\ avail' = Tail(avail)
    /\ UNCHANGED <<ready, lock, inHand, Tx, Cache, onWire, claimed, timeouts>>

\* It sends what the buffer holds when it gets to it.
DeviceSends ==
    /\ ready
    /\ txQueue # <<>>
    /\ txQueue' = Tail(txQueue)
    /\ onWire' = onWire \cup {txp}
    /\ txDone' = txDone + 1
    /\ UNCHANGED <<ready, Rx, lock, txp, polling, Cache, claimed, timeouts, arrived>>

----------------------------------------------------------------------------
(* tx_submit_locked(): one frame at a time, polled under the lock *)

\* The caller has built f in TXP.
Submit(f) ==
    /\ polling = <<>>
    /\ txp' = f
    /\ txQueue' = Append(txQueue, f.type)
    /\ polling' = <<f>>
    /\ UNCHANGED txDone

\* What the caller does next does not depend on the frame: a call returns, the
\* handler puts the buffer back and goes on.
AfterTx ==
    IF lock = "call" THEN lock' = "free" ELSE UNCHANGED lock

\* Mutant: the completion is not counted.
Seen_Not(d) == d

Seen(d) == d - 1

\* Mutant: the submitter does not wait.
Completed_Assumed == TRUE

Completed == txDone > 0

TxCompletes ==
    /\ polling # <<>>
    /\ Completed
    /\ txDone' = Seen(txDone)
    /\ claimed' = claimed \cup {polling[1]}
    /\ polling' = <<>>
    /\ AfterTx
    /\ UNCHANGED <<ready, Rx, txp, txQueue, Cache, onWire, timeouts, arrived>>

TxDeadline ==
    /\ ready
    /\ polling # <<>>
    /\ txDone = 0
    /\ timeouts < MaxTimeouts
    /\ timeouts' = timeouts + 1
    /\ polling' = <<>>
    /\ AfterTx
    /\ UNCHANGED <<ready, Rx, txp, txQueue, txDone, Cache, onWire, claimed, arrived>>

----------------------------------------------------------------------------
(* The address cache *)

Known(ip) == {k \in DOMAIN arp : arp[k].ip = ip}
MacFor(ip) == arp[CHOOSE k \in Known(ip) : TRUE].mac

\* Mutant: the table is not searched first.
Learn_Append(ip, mac) ==
    /\ arp' = [arp EXCEPT ![victim] = [ip |-> ip, mac |-> mac]]
    /\ victim' = (victim + 1) % ArpSlots

\* arp_learn().
Learn(ip, mac) ==
    IF Known(ip) # {}
    THEN arp' = [arp EXCEPT ![CHOOSE k \in Known(ip) : TRUE].mac = mac] /\ UNCHANGED victim
    ELSE /\ arp' = [arp EXCEPT ![victim] = [ip |-> ip, mac |-> mac]]
         /\ victim' = (victim + 1) % ArpSlots

\* arp_query() and arp_request_locked(): a request for another station, or one
\* that is older than a second, is sent.
Ask(ip) ==
    \/ /\ asked' = ip
       /\ lock' = "call"
       /\ Submit(FrameTo("request", "all"))
    \/ /\ asked = ip
       /\ UNCHANGED <<asked, lock, Tx>>

----------------------------------------------------------------------------
(* Socket calls *)

\* sock_send(), icmp_send(), tcp_connect(): the address, or -2 and a request.
\* None of them looks at READY: without a device the first submission faults.
Call(ip) ==
    /\ lock = "free"
    /\ Cardinality(onWire) < MaxSends
    /\ IF Known(ip) = {}
       THEN Ask(ip)
       ELSE /\ lock' = "call"
            /\ Submit(FrameTo("ip", MacFor(ip)))
            /\ UNCHANGED asked
    /\ UNCHANGED <<ready, Rx, arp, victim, Past>>

----------------------------------------------------------------------------
(* on_irq(): harvest_locked() *)

IrqEnter ==
    /\ ready
    /\ lock = "free"
    /\ usedRing # <<>> \/ txDone > 0
    /\ lock' = "irq"
    /\ UNCHANGED <<ready, Rx, Tx, Cache, Past>>

IrqTake ==
    /\ lock = "irq" /\ polling = <<>> /\ inHand = <<>>
    /\ usedRing # <<>>
    /\ inHand' = <<[id |-> Head(usedRing).id, frame |-> Head(usedRing).frame, parsed |-> FALSE]>>
    /\ usedRing' = Tail(usedRing)
    /\ UNCHANGED <<ready, avail, lock, Tx, Cache, Past>>

\* parse_frame(), the link side.  An ARP packet is learned from, and a request
\* answered, if it asks for us; an IPv4 packet's sender is entered with what the
\* code reads as its link address: the first six bytes, where the destination is.  A
\* segment or an echo request may be answered there and then, to the address learned.
Parse ==
    LET f == inHand[1].frame IN
    /\ inHand # <<>> /\ ~inHand[1].parsed /\ polling = <<>>
    /\ inHand' = <<[inHand[1] EXCEPT !.parsed = TRUE]>>
    /\ Learn(f.src, IF f.type = "ip" THEN f.dst ELSE f.src)
    /\ \/ f.type = "request" /\ Submit(FrameTo("reply", f.src))
       \/ f.type = "ip" /\ Submit(FrameTo("ip", f.dst))
       \/ f.type # "request" /\ UNCHANGED Tx
    /\ UNCHANGED <<ready, avail, usedRing, lock, asked, Past>>

\* Mutant: the buffer is not given back.
Reposted_Not(b) == avail

Reposted(b) == Append(avail, b)

\* repost_rx().
Repost ==
    /\ inHand # <<>> /\ inHand[1].parsed /\ polling = <<>>
    /\ avail' = Reposted(inHand[1].id)
    /\ inHand' = <<>>
    /\ UNCHANGED <<ready, usedRing, lock, Tx, Cache, Past>>

\* The ring is empty: completions nobody waits for are counted, and the lock
\* dropped.
IrqLeave ==
    /\ lock = "irq" /\ inHand = <<>> /\ polling = <<>>
    /\ usedRing = <<>>
    /\ txDone' = 0
    /\ lock' = "free"
    /\ UNCHANGED <<ready, Rx, txp, txQueue, polling, Cache, Past>>

Irq == IrqEnter \/ IrqTake \/ Parse \/ Repost \/ IrqLeave

----------------------------------------------------------------------------

DevNext ==
    \/ \E f \in Arriving : DeviceReceives(f)
    \/ DeviceSends
    \/ TxCompletes \/ TxDeadline
    \/ \E ip \in Stations : Call(ip)
    \/ Irq

DevSpec == DevInit /\ [][DevNext]_devVars

----------------------------------------------------------------------------

InRing == ToSet(avail) \cup {e.id : e \in ToSet(usedRing)}
InUse  == {e.id : e \in ToSet(inHand)}

\* Safety.  A receive buffer is at one place: with the device, in the used ring
\* or in the handler's hand, and none gets lost (harvest_locked, repost_rx).
BuffersConserved ==
    ready =>
      /\ InRing \cup InUse = Buffers
      /\ Len(avail) + Len(usedRing) + Len(inHand) = Cardinality(Buffers)

\* Safety.  The cache holds one entry of a station (arp_learn).
OneEntryPerStation ==
    \A i, j \in DOMAIN arp : arp[i].ip = arp[j].ip /\ arp[i].ip # None => i = j

\* Safety.  Until a deadline passed, what tx_submit_locked() reports as sent was
\* sent, and nothing else is in the transmit buffer's way.
ReportedIsSent ==
    timeouts = 0 /\ ready => claimed \subseteq onWire /\ txDone + Len(txQueue) <= 1

\* Action property.  A frame on its way to the device is not overwritten before
\* the device has it, until a deadline passed (single-flight under NET).
BufferIsStable ==
    [][timeouts = 0 /\ txQueue # <<>> /\ ready => txp' = txp]_devVars

\* Stated by net/mod.rs:417-418 ("Returns true on device completion"); does not
\* hold after a deadline: the late completion is taken for the next frame's.
ReportedIsAlwaysSent == ready => claimed \subseteq onWire

\* Stated by net/mod.rs:686 ("IPv4: learn sender MAC"); does not hold: bytes 0
\* to 5 of the frame are its destination.
SenderIsLearned ==
    \A k \in DOMAIN arp : arp[k].mac = arp[k].ip

\* Stated by fs/mod.rs:20 ("SKIP without one") and net/mod.rs:744 ("No-op without
\* a device"); does not hold: a send reaches the registers at NET_BASE = 0.
NoDeviceNoTransmit == ~ready => txQueue = <<>>
============================================================================
