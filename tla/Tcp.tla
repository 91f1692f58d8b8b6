-------------------------------- MODULE Tcp --------------------------------
(***************************************************************************)
(* One TCP connection of the kernel (kernel/src/net/tcp.rs) against a peer *)
(* and a network that delays, reorders, duplicates and loses segments.     *)
(*                                                                         *)
(* Sequence numbers are offsets from the initial one of their sender: the  *)
(* SYN is number 0, byte k of a stream has number k and value k, the FIN   *)
(* comes after the last byte.  (The code's wrapping comparison is exact as *)
(* long as less than 2^31 bytes are in flight; UNACK_CAP is 2^16.)         *)
(*                                                                         *)
(* The network keeps everything ever sent: `wire' for the kernel's         *)
(* segments, and for the peer's whatever it can have sent so far.  Any of  *)
(* it may arrive at any time, any number of times, or never.  Time is      *)
(* whether a timer is due; the timer interrupt may find it so at any step. *)
(* The peer is external: a correct TCP that sends, acknowledges, closes    *)
(* and gives up when it likes.                                             *)
(***************************************************************************)
EXTENDS Naturals, Sequences, FiniteSets

CONSTANTS
    RxCap,      \* RX_CAP, in bytes of the model
    UnackCap,   \* UNACK_CAP
    MaxRetry,   \* MAX_RETRY
    MaxSend,    \* bound of the model: bytes the program sends
    MaxPeer     \* bound of the model: bytes the peer sends

ASSUME TcpAssumption == {RxCap, UnackCap, MaxRetry, MaxSend, MaxPeer} \subseteq Nat

VARIABLES
    \* --- Sock and its Tcb ---
    used, closing,
    tcb,      \* state, una, nxt, rcv, retries, unacked, rx
    \* --- the program that owns the descriptor ---
    wrote,    \* bytes tcp_send() took
    got,      \* bytes tcp_recv() returned
    eof,      \* tcp_recv() returned 0
    \* --- the network ---
    wire,     \* <<number, byte>> pairs the kernel transmitted
    flags,    \* which of SYN, FIN and RST it transmitted
    \* --- the peer ---
    peer      \* state, rcv, got, sent, fin

tcpVars == <<used, closing, tcb, wrote, got, eof, wire, flags, peer>>

Sock  == <<used, closing, tcb>>
User  == <<wrote, got, eof>>
Net   == <<wire, flags>>

HalfOpen == {"SynRcvd", "SynSent"}
Data     == {"Est", "FinW1", "FinW2", "Closing", "LastAck", "CloseWait"}
TStates  == {"Closed"} \cup HalfOpen \cup Data

Upto(n) == [k \in 1 .. n |-> k]

\* Tcb::reset()
Fresh == [state |-> "Closed", una |-> 0, nxt |-> 0, rcv |-> 0,
          retries |-> 0, unacked |-> <<>>, rx |-> <<>>]

TcpInit ==
    /\ used = FALSE /\ closing = FALSE /\ tcb = Fresh
    /\ wrote = 0 /\ got = <<>> /\ eof = FALSE
    /\ wire = {} /\ flags = {}
    /\ peer = [state |-> "Idle", rcv |-> 0, got |-> <<>>, sent |-> 0, fin |-> FALSE]

\* Once per run: the connection is not opened again after it was closed.
Unopened == ~used /\ tcb = Fresh /\ flags = {} /\ wrote = 0 /\ got = <<>>

Opened(st, rcv) ==
    /\ used' = TRUE
    /\ tcb' = [Fresh EXCEPT !.state = st, !.nxt = 1, !.rcv = rcv]

Released == used' = FALSE /\ closing' = FALSE /\ tcb' = Fresh

\* The segment goes out, or tx_submit_locked() runs into its deadline.
Transmit(f) == flags' = flags \cup {f} \/ flags' = flags

----------------------------------------------------------------------------
(* Opening *)

\* listener_syn(): the SYN+ACK may get lost in the device; the tick repeats it.
ListenerSyn ==
    /\ Unopened
    /\ peer.state = "SynSent"
    /\ Opened("SynRcvd", 1)
    /\ Transmit("SYN")
    /\ UNCHANGED <<closing, User, wire, peer>>

\* tcp_connect() after the address was resolved; it rolls back when the
\* transmission fails.
TcpConnect ==
    /\ Unopened
    /\ peer.state = "Idle"
    /\ Opened("SynSent", 0)
    /\ flags' = {"SYN"}
    /\ UNCHANGED <<closing, User, wire, peer>>

----------------------------------------------------------------------------
(* What the peer may have sent: SYN, SYN+ACK, any piece of its stream with   *)
(* any acknowledgement it has reached, its FIN.                              *)

PeerUp == peer.rcv > 0

PeerSegments ==
    {[syn |-> TRUE, ack |-> FALSE, fin |-> FALSE, seq |-> 0, len |-> 0, ackn |-> 0] :
        s \in {x \in {1} : peer.state = "SynSent"}}
    \cup
    {[syn |-> TRUE, ack |-> TRUE, fin |-> FALSE, seq |-> 0, len |-> 0, ackn |-> 1] :
        s \in {x \in {1} : PeerUp}}
    \cup
    {s \in [syn : {FALSE}, ack : {TRUE}, fin : BOOLEAN, seq : 1 .. peer.sent + 1,
            len : 0 .. peer.sent, ackn : 1 .. peer.rcv] :
        /\ PeerUp
        /\ s.seq + s.len <= peer.sent + 1
        /\ s.fin => peer.fin /\ s.seq + s.len = peer.sent + 1}

----------------------------------------------------------------------------
(* tcp_rx() *)

\* The lookup passes over slots that are closing.
Hears == used /\ ~closing

\* Mutant: an acknowledgement moves snd_una and keeps the bytes.
Acked_Keep(t, a) == [t EXCEPT !.una = a, !.retries = 0,
    !.state = IF t.state = "SynRcvd" THEN "Est" ELSE @]

\* Mutant: any acknowledgement empties the buffer.
Acked_All(t, a) == [t EXCEPT !.una = a, !.retries = 0, !.unacked = <<>>,
    !.state = IF t.state = "SynRcvd" THEN "Est" ELSE @]

\* A new acknowledgement in child_rx().
Acked(t, a) ==
    LET adv == IF a - t.una < Len(t.unacked) THEN a - t.una ELSE Len(t.unacked) IN
    [t EXCEPT
        !.unacked = SubSeq(@, adv + 1, Len(@)),
        !.una = a,
        !.retries = 0,
        !.state = CASE @ = "SynRcvd" -> "Est"
                    [] @ = "FinW1" /\ a = t.nxt -> "FinW2"
                    [] @ \in {"Closing", "LastAck"} /\ a = t.nxt -> "Closed"
                    [] OTHER -> @]

\* Mutant: RX_CAP is not looked at.
DataTaken_All(t, s) ==
    IF s.seq = t.rcv
    THEN [t EXCEPT !.rx = @ \o [n \in 1 .. s.len |-> s.seq + n - 1], !.rcv = @ + s.len]
    ELSE t

\* Data in order, as much as there is room for.
DataTaken(t, s) ==
    LET k == IF s.len < RxCap - Len(t.rx) THEN s.len ELSE RxCap - Len(t.rx) IN
    IF s.seq = t.rcv
    THEN [t EXCEPT !.rx = @ \o [n \in 1 .. k |-> s.seq + n - 1], !.rcv = @ + k]
    ELSE t

\* Mutant: the FIN counts although the data before it did not fit.
FinTaken_Early(t, s) ==
    IF s.fin /\ t.state = "Est" THEN [t EXCEPT !.rcv = @ + 1, !.state = "CloseWait"] ELSE t

\* A FIN counts where it continues what was received.
FinTaken(t, s) ==
    IF s.fin /\ s.seq + s.len = t.rcv
    THEN [t EXCEPT !.rcv = @ + 1,
            !.state = CASE @ = "Est" -> "CloseWait" [] @ = "FinW2" -> "Closed"
                        [] @ = "FinW1" -> "Closing" [] OTHER -> @]
    ELSE t

\* child_rx() after the acknowledgement, by state.
InState(t, s) ==
    CASE t.state = "SynSent" ->
           IF s.syn /\ s.ack /\ s.ackn = t.nxt
           THEN [t EXCEPT !.rcv = s.seq + 1, !.state = "Est", !.retries = 0] ELSE t
      [] t.state \in {"Est", "FinW2", "CloseWait"} -> FinTaken(DataTaken(t, s), s)
      [] t.state = "FinW1" -> FinTaken(t, s)
      [] OTHER -> t

\* An acknowledgement outside what is in flight, an old one too, makes the whole
\* segment be dropped.
InWindow(s) == s.ack => tcb.una <= s.ackn /\ s.ackn <= tcb.nxt

ChildRx(s) ==
    /\ Hears
    /\ s \in PeerSegments
    /\ InWindow(s)
    /\ tcb' = InState(IF s.ack /\ s.ackn # tcb.una THEN Acked(tcb, s.ackn) ELSE tcb, s)
    /\ UNCHANGED <<used, closing, User, Net, peer>>

\* A reset from the peer frees the slot, whatever it carries.
ResetRx ==
    /\ Hears
    /\ peer.state = "Dead"
    /\ Released
    /\ UNCHANGED <<User, Net, peer>>

\* Nobody listens to the segment: it is answered by a reset.
Refuse ==
    /\ ~Hears
    /\ ~Unopened
    /\ PeerUp
    /\ flags' = flags \cup {"RST"}
    /\ UNCHANGED <<Sock, User, wire, peer>>

----------------------------------------------------------------------------
(* The socket calls *)

\* tcp_send() of n bytes; the device may stop taking them after d.
TcpSend(n, d) ==
    /\ used /\ ~closing
    /\ tcb.state \in {"Est", "CloseWait"}
    /\ wrote + n <= MaxSend
    /\ Len(tcb.unacked) + n <= UnackCap
    /\ d \in 1 .. n
    /\ LET out == [k \in 1 .. d |-> wrote + k] IN
       /\ tcb' = [tcb EXCEPT !.unacked = @ \o out, !.nxt = @ + d, !.retries = 0]
       /\ wire' = wire \cup {<<tcb.nxt + k - 1, out[k]>> : k \in 1 .. d}
    /\ wrote' = wrote + d
    /\ UNCHANGED <<used, closing, got, eof, flags, peer>>

\* tcp_recv() with room for n bytes.
TcpRecv(n) ==
    /\ used /\ ~closing
    /\ IF tcb.rx # <<>>
       THEN /\ LET k == IF n < Len(tcb.rx) THEN n ELSE Len(tcb.rx) IN
               /\ got' = got \o SubSeq(tcb.rx, 1, k)
               /\ tcb' = [tcb EXCEPT !.rx = SubSeq(@, k + 1, Len(@))]
            /\ UNCHANGED eof
       ELSE /\ eof' = (eof \/ tcb.state = "CloseWait")
            /\ UNCHANGED <<got, tcb>>
    /\ UNCHANGED <<used, closing, wrote, Net, peer>>

\* tcp_close() of a connection: FIN, and the slot stays; of a half-open one:
\* reset, and the slot is free.
TcpCloseOpen ==
    /\ used /\ ~closing
    /\ tcb.state \in {"Est", "CloseWait"}
    /\ closing' = TRUE
    /\ tcb' = [tcb EXCEPT !.nxt = @ + 1, !.retries = 0,
                          !.state = IF @ = "Est" THEN "FinW1" ELSE "LastAck"]
    /\ Transmit("FIN")
    /\ UNCHANGED <<used, User, wire, peer>>

\* The second close of such a slot is sock_open_kind() reclaiming it.
TcpCloseOther ==
    /\ used
    /\ tcb.state \notin {"Est", "CloseWait"}
    /\ closing \/ tcb.state \in HalfOpen
    /\ Transmit("RST")
    /\ Released
    /\ UNCHANGED <<User, wire, peer>>

----------------------------------------------------------------------------
(* tcp_tick() *)

\* Mutant: a retransmission is not counted.
Again_Uncounted(t) == t

Again(t) == [t EXCEPT !.retries = @ + 1]

Resends == tcb.state \in HalfOpen \/ (tcb.state \in Data /\ tcb.unacked # <<>>)

\* SYN or data again, from snd_una on.
Retransmit ==
    /\ used
    /\ Resends
    /\ tcb.retries < MaxRetry
    /\ tcb' = Again(tcb)
    /\ IF tcb.state \in HalfOpen
       THEN Transmit("SYN") /\ UNCHANGED wire
       ELSE /\ wire' = wire \cup {<<tcb.una + k - 1, tcb.unacked[k]>> : k \in DOMAIN tcb.unacked}
            /\ UNCHANGED flags
    /\ UNCHANGED <<used, closing, User, peer>>

GiveUp ==
    /\ used
    /\ Resends
    /\ tcb.retries >= MaxRetry
    /\ IF tcb.state \in HalfOpen THEN UNCHANGED flags ELSE Transmit("RST")
    /\ Released
    /\ UNCHANGED <<User, wire, peer>>

\* Mutant: nothing ends the wait for the last acknowledgement.
Lingers_Never == FALSE

Lingers == tcb.state \in {"FinW2", "LastAck", "Closing"}

\* CLOSE_TIMEOUT.
LingerTimeout ==
    /\ used /\ closing
    /\ Lingers
    /\ tcb.unacked = <<>>
    /\ Released
    /\ UNCHANGED <<User, Net, peer>>

TcpTick == Retransmit \/ GiveUp \/ LingerTimeout

----------------------------------------------------------------------------
(* The peer (external) *)

PeerKeeps == UNCHANGED <<Sock, User, Net>>

PeerConnect ==
    /\ peer.state = "Idle" /\ Unopened
    /\ peer' = [peer EXCEPT !.state = "SynSent"]
    /\ PeerKeeps

\* The handshake from its side, as a client or as a server.
PeerOpen ==
    /\ peer.state \in {"Idle", "SynSent"}
    /\ "SYN" \in flags
    /\ peer' = [peer EXCEPT !.state = "Est", !.rcv = 1]
    /\ PeerKeeps

PeerSend ==
    /\ peer.state = "Est" /\ ~peer.fin
    /\ peer.sent < MaxPeer
    /\ peer' = [peer EXCEPT !.sent = @ + 1]
    /\ PeerKeeps

PeerFin ==
    /\ peer.state = "Est" /\ ~peer.fin
    /\ peer' = [peer EXCEPT !.fin = TRUE]
    /\ PeerKeeps

PeerRecv ==
    /\ peer.state = "Est"
    /\ \E seg \in wire :
         /\ seg[1] = peer.rcv
         /\ peer' = [peer EXCEPT !.rcv = @ + 1, !.got = Append(@, seg[2])]
    /\ PeerKeeps

PeerGone ==
    /\ peer.state \in {"SynSent", "Est"}
    /\ peer' = [peer EXCEPT !.state = "Dead"]
    /\ PeerKeeps

----------------------------------------------------------------------------

TcpNext ==
    \/ ListenerSyn \/ TcpConnect
    \/ \E s \in PeerSegments : ChildRx(s)
    \/ ResetRx \/ Refuse
    \/ \E n, d \in 1 .. MaxSend : TcpSend(n, d)
    \/ \E n \in 1 .. MaxPeer : TcpRecv(n)
    \/ TcpCloseOpen \/ TcpCloseOther
    \/ TcpTick
    \/ PeerConnect \/ PeerOpen \/ PeerSend \/ PeerFin \/ PeerRecv \/ PeerGone

TcpSpec == TcpInit /\ [][TcpNext]_tcpVars

\* The timer interrupt comes every 10 ms, and the device works.
TcpFairSpec == TcpSpec /\ WF_tcpVars(TcpTick)

----------------------------------------------------------------------------

TcpTypeOK ==
    /\ tcb.state \in TStates
    /\ Len(tcb.rx) <= RxCap /\ Len(tcb.unacked) <= UnackCap
    /\ tcb.retries <= MaxRetry
    /\ closing => used /\ tcb.state \notin {"Est", "CloseWait"} \cup HalfOpen

\* Safety.  What the program reads is the peer's stream in order, without a gap
\* or a repetition, and it reads end of file only when it has read all of it
\* (child_rx, tcp_recv), whatever the network does.
ReadsTheStream ==
    /\ got \o tcb.rx = Upto(Len(got) + Len(tcb.rx))
    /\ eof => peer.fin /\ Len(got) = peer.sent

\* Safety.  A retransmission carries at every sequence number the byte that was
\* sent there first, so the peer gets the program's stream (tcp_send, tcp_tick).
SendsTheStream ==
    /\ \A seg \in wire : seg[1] = seg[2]
    /\ peer.got = Upto(Len(peer.got))

\* Safety.  A byte tcp_send() took is dropped from the retransmission buffer
\* only when the peer has it, as long as the connection is open (child_rx).
NothingForgotten ==
    used /\ ~closing =>
      /\ tcb.una <= peer.rcv
      /\ wrote = (IF tcb.una = 0 THEN 0 ELSE tcb.una - 1) + Len(tcb.unacked)

\* Liveness.  Neither a handshake nor data waits for ever for a peer that does
\* not answer: it is acknowledged or the slot is free again (tcp_tick).
WaitsEnd ==
    /\ tcb.state \in HalfOpen ~> tcb.state \notin HalfOpen
    /\ tcb.unacked # <<>> ~> tcb.unacked = <<>>

\* Liveness.  After the peer closed first, the slot of a closed connection is
\* free again (CLOSE_TIMEOUT in tcp_tick).
LastAckEnds == tcb.state = "LastAck" ~> ~used

\* Stated by net/mod.rs:29-31 ("TCP close lingers its slot until the FIN
\* handshake drains (up to the 30s CLOSE_TIMEOUT when the close stalls)"); does
\* not hold: a slot in FinW1 hears no segment and has no timeout.
CloseDrains == closing ~> ~used
============================================================================
