----------------------------- MODULE NetProofs -----------------------------
(***************************************************************************)
(* The network stack for any number of buffers, stations, sockets, owners, *)
(* ports, packets and bytes: what NetDev, Sockets, Datagrams and Tcp say   *)
(* of a frame, a slot, a packet and a stream, and MCNet of the four.       *)
(***************************************************************************)
EXTENDS MCNet, FiniteSetTheorems, SequenceTheorems, NaturalsInduction, WellFoundedInduction, TLAPS

----------------------------------------------------------------------------
(* Runs of numbers: a stream is the numbers from some place on, in order *)

Runs(q, a) == q \in Seq(Nat) /\ \A k \in 1 .. Len(q) : q[k] = a + k

LEMMA RunEmpty == \A a \in Int : Runs(<<>>, a) /\ Len(<<>>) = 0
BY EmptySeq DEF Runs

LEMMA RunConcat ==
    ASSUME NEW a \in Int, NEW q, Runs(q, a), NEW r, Runs(r, a + Len(q))
    PROVE  Runs(q \o r, a) /\ Len(q \o r) = Len(q) + Len(r)
<1>1. /\ q \in Seq(Nat) /\ r \in Seq(Nat) /\ Len(q) \in Nat /\ Len(r) \in Nat
      /\ \A k \in 1 .. Len(q) : q[k] = a + k
      /\ \A k \in 1 .. Len(r) : r[k] = a + Len(q) + k
  BY LenProperties DEF Runs
<1>2. /\ q \o r \in Seq(Nat) /\ Len(q \o r) = Len(q) + Len(r)
      /\ \A i \in 1 .. Len(q) + Len(r) :
            (q \o r)[i] = IF i <= Len(q) THEN q[i] ELSE r[i - Len(q)]
  BY <1>1, ConcatProperties, Zenon
<1>3. ASSUME NEW i \in 1 .. Len(q \o r) PROVE (q \o r)[i] = a + i
  <2>1. CASE i <= Len(q)
    BY <1>1, <1>2, <1>3, <2>1
  <2>2. CASE i > Len(q)
    <3>1. i - Len(q) \in 1 .. Len(r)
      BY <1>1, <1>2, <1>3, <2>2
    <3>2. r[i - Len(q)] = a + Len(q) + (i - Len(q))
      BY <1>1, <3>1
    <3>3. (q \o r)[i] = r[i - Len(q)]
      BY <1>1, <1>2, <1>3, <2>2
    <3> QED
      BY <1>1, <1>3, <3>2, <3>3
  <2> QED
    BY <1>1, <1>2, <1>3, <2>1, <2>2
<1> QED
  BY <1>2, <1>3 DEF Runs

LEMMA RunAppend ==
    ASSUME NEW a \in Int, NEW q, Runs(q, a), NEW x \in Nat, x = a + Len(q) + 1
    PROVE  Runs(Append(q, x), a) /\ Len(Append(q, x)) = Len(q) + 1
<1>1. q \in Seq(Nat) /\ Len(q) \in Nat /\ \A k \in 1 .. Len(q) : q[k] = a + k
  BY LenProperties DEF Runs
<1>2. /\ Append(q, x) \in Seq(Nat) /\ Len(Append(q, x)) = Len(q) + 1
      /\ \A i \in 1 .. Len(q) : Append(q, x)[i] = q[i]
      /\ Append(q, x)[Len(q) + 1] = x
  BY <1>1, AppendProperties
<1>3. ASSUME NEW i \in 1 .. Len(q) + 1 PROVE Append(q, x)[i] = a + i
  <2>1. CASE i \in 1 .. Len(q)
    BY <1>1, <1>2, <2>1
  <2>2. CASE i = Len(q) + 1
    BY <1>1, <1>2, <2>2
  <2> QED
    BY <1>1, <1>3, <2>1, <2>2
<1> QED
  BY <1>2, <1>3 DEF Runs

\* What is left of a run after its first n, and those.
LEMMA RunParts ==
    ASSUME NEW a \in Int, NEW q, Runs(q, a), NEW n \in Nat, n <= Len(q)
    PROVE  /\ Runs(SubSeq(q, n + 1, Len(q)), a + n)
           /\ Len(SubSeq(q, n + 1, Len(q))) = Len(q) - n
           /\ Runs(SubSeq(q, 1, n), a)
           /\ Len(SubSeq(q, 1, n)) = n
<1>1. q \in Seq(Nat) /\ Len(q) \in Nat /\ \A k \in 1 .. Len(q) : q[k] = a + k
  BY LenProperties DEF Runs
<1>2. \A k \in 1 .. Len(q) : q[k] \in Nat
  BY <1>1, ElementOfSeq
<1>3. n + 1 \in Int /\ Len(q) \in Int /\ \A k \in n + 1 .. Len(q) : q[k] \in Nat
  BY <1>1, <1>2
<1>4. /\ SubSeq(q, n + 1, Len(q)) \in Seq(Nat)
      /\ Len(SubSeq(q, n + 1, Len(q))) = IF n + 1 <= Len(q) THEN Len(q) - (n + 1) + 1 ELSE 0
      /\ \A i \in 1 .. Len(q) - (n + 1) + 1 : SubSeq(q, n + 1, Len(q))[i] = q[(n + 1) + i - 1]
  BY <1>3, SubSeqProperties
<1>5. Len(SubSeq(q, n + 1, Len(q))) = Len(q) - n
  BY <1>1, <1>4
<1>6. Runs(SubSeq(q, n + 1, Len(q)), a + n)
  <2>1. ASSUME NEW i \in 1 .. Len(q) - n
        PROVE  SubSeq(q, n + 1, Len(q))[i] = a + n + i
    <3>1. SubSeq(q, n + 1, Len(q))[i] = q[(n + 1) + i - 1]
      BY <1>1, <1>4, <2>1
    <3>2. (n + 1) + i - 1 = n + i /\ n + i \in 1 .. Len(q)
      BY <1>1, <2>1
    <3>3. q[n + i] = a + (n + i)
      BY <1>1, <3>2
    <3> QED
      BY <3>1, <3>2, <3>3
  <2> QED
    BY <1>4, <1>5, <2>1 DEF Runs
<1>7. 1 \in Int /\ n \in Int /\ \A k \in 1 .. n : q[k] \in Nat
  BY <1>1, <1>2
<1>8. /\ SubSeq(q, 1, n) \in Seq(Nat)
      /\ Len(SubSeq(q, 1, n)) = IF 1 <= n THEN n - 1 + 1 ELSE 0
      /\ \A i \in 1 .. n - 1 + 1 : SubSeq(q, 1, n)[i] = q[1 + i - 1]
  BY <1>7, SubSeqProperties
<1>9. Len(SubSeq(q, 1, n)) = n
  BY <1>8
<1>10. Runs(SubSeq(q, 1, n), a)
  <2>1. ASSUME NEW i \in 1 .. n PROVE SubSeq(q, 1, n)[i] = a + i
    <3>1. SubSeq(q, 1, n)[i] = q[1 + i - 1]
      BY <1>8, <2>1
    <3>2. 1 + i - 1 = i /\ i \in 1 .. Len(q)
      BY <1>1, <2>1
    <3> QED
      BY <1>1, <3>1, <3>2
  <2> QED
    BY <1>8, <1>9, <2>1 DEF Runs
<1> QED
  BY <1>5, <1>6, <1>9, <1>10

LEMMA RunOf ==
    ASSUME NEW a \in Nat, NEW n \in Nat
    PROVE  /\ Runs([k \in 1 .. n |-> a + k], a)
           /\ Len([k \in 1 .. n |-> a + k]) = n
<1>1. [k \in 1 .. n |-> a + k] \in Seq(Nat)
  OBVIOUS
<1>2. Len([k \in 1 .. n |-> a + k]) = n
  OBVIOUS
<1> QED
  BY <1>1, <1>2 DEF Runs

LEMMA RunIsUpto ==
    ASSUME NEW q, Runs(q, 0) PROVE q = Upto(Len(q))
<1>1. q \in Seq(Nat) /\ Len(q) \in Nat /\ DOMAIN q = 1 .. Len(q) /\ q \in [1 .. Len(q) -> Nat]
  BY LenProperties DEF Runs
<1>2. \A k \in 1 .. Len(q) : q[k] = k
  BY <1>1 DEF Runs
<1> QED
  BY <1>1, <1>2 DEF Upto

----------------------------------------------------------------------------
(* Tcp: the control block *)

Numbers == Seq(Nat)
TcbType == [state : TStates, una : Nat, nxt : Nat, rcv : Nat, retries : Nat,
            unacked : Numbers, rx : Numbers]

LEMMA LenOfRun ==
    ASSUME NEW q, NEW a, Runs(q, a) PROVE q \in Numbers /\ Len(q) \in Nat
BY LenProperties DEF Runs, Numbers

\* What has been received: from g bytes on, of the n of a peer that has sent its FIN or not.
Receives(t, g, n, fin) ==
    /\ Runs(t.rx, g)
    /\ g + Len(t.rx) <= n
    /\ Len(t.rx) <= RxCap
    /\ t.state \in HalfOpen => g = 0 /\ t.rx = <<>>
    /\ t.state = "SynRcvd" => t.rcv = 1
    /\ t.state \in {"Est", "FinW1"} => t.rcv = g + Len(t.rx) + 1
    /\ t.state \in {"CloseWait", "LastAck"} => fin /\ g + Len(t.rx) = n /\ t.rcv = n + 2

\* What is to be acknowledged: of w bytes, by a peer that expects number r.
Sends(t, w, r) ==
    /\ Runs(t.unacked, t.una - 1)
    /\ Len(t.unacked) <= UnackCap
    /\ t.una <= r
    /\ t.retries <= MaxRetry
    /\ t.state \in HalfOpen => w = 0 /\ t.unacked = <<>> /\ t.una <= 1 /\ t.nxt = 1
    /\ t.state \in {"Est", "CloseWait", "FinW1", "LastAck"} =>
          t.una >= 1 /\ t.una + Len(t.unacked) = w + 1
    /\ t.state \in {"Est", "CloseWait"} => t.nxt = w + 1

Open_ == HalfOpen \cup {"Est", "CloseWait"}

AckedAs(t, st, u, a) == [t EXCEPT !.unacked = u, !.una = a, !.retries = 0, !.state = st]

LEMMA AckedIs ==
    ASSUME NEW t \in TcbType, NEW st \in TStates, NEW u \in Numbers, NEW a \in Nat
    PROVE  /\ AckedAs(t, st, u, a) \in TcbType /\ AckedAs(t, st, u, a).state = st
           /\ AckedAs(t, st, u, a).una = a /\ AckedAs(t, st, u, a).unacked = u
           /\ AckedAs(t, st, u, a).retries = 0
           /\ AckedAs(t, st, u, a).nxt = t.nxt /\ AckedAs(t, st, u, a).rcv = t.rcv
           /\ AckedAs(t, st, u, a).rx = t.rx
BY DEF TcbType, AckedAs

\* A segment a peer can have sent.
LEMMA SegmentType ==
    ASSUME NEW s \in PeerSegments, peer.rcv \in Nat, peer.sent \in Nat
    PROVE  /\ s.seq \in Nat /\ s.len \in Nat /\ s.ackn \in Nat
           /\ s.ack \in BOOLEAN /\ s.syn \in BOOLEAN /\ s.fin \in BOOLEAN
           /\ s.ack => s.ackn \in 1 .. peer.rcv
           /\ s.seq + s.len <= peer.sent + 1
           /\ s.syn => s.seq = 0
           /\ s.fin => peer.fin /\ s.seq + s.len = peer.sent + 1
<1> DEFINE Plain == {x \in [syn : {FALSE}, ack : {TRUE}, fin : BOOLEAN, seq : 1 .. peer.sent + 1,
                          len : 0 .. peer.sent, ackn : 1 .. peer.rcv] :
                    /\ PeerUp
                    /\ x.seq + x.len <= peer.sent + 1
                    /\ x.fin => peer.fin /\ x.seq + x.len = peer.sent + 1}
<1>1. CASE s \in Plain
  <2>1. /\ s \in [syn : {FALSE}, ack : {TRUE}, fin : BOOLEAN, seq : 1 .. peer.sent + 1,
                   len : 0 .. peer.sent, ackn : 1 .. peer.rcv]
        /\ s.seq + s.len <= peer.sent + 1
        /\ s.fin => peer.fin /\ s.seq + s.len = peer.sent + 1
    BY <1>1
  <2>2. /\ s.syn = FALSE /\ s.ack = TRUE /\ s.fin \in BOOLEAN
        /\ s.seq \in 1 .. peer.sent + 1 /\ s.len \in 0 .. peer.sent /\ s.ackn \in 1 .. peer.rcv
    BY <2>1
  <2>3. s.seq \in Nat /\ s.len \in Nat /\ s.ackn \in Nat
    BY <2>2
  <2> QED
    BY <2>1, <2>2, <2>3
<1>2. CASE s = [syn |-> TRUE, ack |-> FALSE, fin |-> FALSE, seq |-> 0, len |-> 0, ackn |-> 0]
  BY <1>2
<1>3. CASE /\ s = [syn |-> TRUE, ack |-> TRUE, fin |-> FALSE, seq |-> 0, len |-> 0, ackn |-> 1]
           /\ peer.rcv > 0
  BY <1>3
<1>4. \/ s = [syn |-> TRUE, ack |-> FALSE, fin |-> FALSE, seq |-> 0, len |-> 0, ackn |-> 0]
      \/ /\ s = [syn |-> TRUE, ack |-> TRUE, fin |-> FALSE, seq |-> 0, len |-> 0, ackn |-> 1]
         /\ peer.rcv > 0
      \/ s \in Plain
  BY DEF PeerSegments, PeerUp
<1> QED
  BY <1>1, <1>2, <1>3, <1>4

LEMMA AckedFits ==
    ASSUME NEW t \in TcbType, NEW a \in Nat, NEW w \in Nat, NEW r \in Nat,
           NEW g \in Nat, NEW n \in Nat, NEW fin,
           t.state \in Open_, Receives(t, g, n, fin), Sends(t, w, r),
           t.una < a, a <= t.nxt, a <= r
    PROVE  /\ Acked(t, a) \in TcbType /\ Acked(t, a).state \in Open_
           /\ Receives(Acked(t, a), g, n, fin) /\ Sends(Acked(t, a), w, r)
           /\ Acked(t, a).una = a
<1> DEFINE u == t.unacked
           adv == a - t.una
           u1 == SubSeq(u, adv + 1, Len(u))
           st == IF t.state = "SynRcvd" THEN "Est" ELSE t.state
<1>1. t.una \in Nat /\ Len(u) \in Nat
  BY LenOfRun DEF TcbType, Sends
<1>2. adv \in Nat /\ t.una + adv = a
  BY <1>1
<1>3. CASE t.state \notin HalfOpen
  <2>1. t.state \in {"Est", "CloseWait"}
    BY <1>3 DEF Open_
  <2>2. Runs(u, t.una - 1)
    BY <2>1 DEF Sends
  <2>12. t.una >= 1 /\ t.una + Len(u) = w + 1 /\ t.nxt = w + 1
    BY <2>1 DEF Sends
  <2>3. adv <= Len(u)
    <3>1. a <= w + 1 /\ a \in Nat /\ w \in Nat
      BY <2>12
    <3> HIDE DEF u
    <3> QED BY <1>1, <3>1, <2>12
  <2>4. t.una - 1 \in Int /\ t.una - 1 + adv = a - 1
    BY <1>1, <1>2
  <2>5. Runs(u1, a - 1) /\ Len(u1) = Len(u) - adv
    <3> HIDE DEF u, adv
    <3> QED BY <1>2, <2>2, <2>3, <2>4, RunParts
  <2>6. Acked(t, a) = AckedAs(t, t.state, u1, a)
    <3>1. (IF a - t.una < Len(u) THEN a - t.una ELSE Len(u)) = adv
      BY <1>1, <1>2, <2>3
    <3> QED
      BY <2>1, <3>1 DEF Acked, AckedAs
  <2>7. u1 \in Numbers /\ Len(u1) \in Nat
    BY <2>5, LenOfRun
  <2>8. a + Len(u1) = w + 1 /\ Len(u1) <= Len(u) /\ a >= 1 /\ Len(u1) \in Nat
    <3>1. Len(u1) = Len(u) - adv
      BY <2>5
    <3>2. a >= 1
      BY <1>1, <2>12
    <3> HIDE DEF u1, u, adv
    <3> QED BY SMTT(20), <1>1, <1>2, <2>12, <2>3, <2>7, <3>1, <3>2
  <2> HIDE DEF u1, adv
  <2>9. /\ Acked(t, a).state = t.state /\ Acked(t, a).una = a /\ Acked(t, a).nxt = t.nxt
        /\ Acked(t, a).rcv = t.rcv /\ Acked(t, a).retries = 0 /\ Acked(t, a).unacked = u1
        /\ Acked(t, a).rx = t.rx /\ Acked(t, a) \in TcbType
    <3>1. t.state \in TStates
      BY DEF TcbType
    <3> QED BY <2>6, <2>7, <3>1, AckedIs
  <2>10. Receives(Acked(t, a), g, n, fin)
    BY <2>9 DEF Receives
  <2>11. Sends(Acked(t, a), w, r)
    <3>1. Len(u) <= UnackCap /\ UnackCap \in Nat /\ 0 <= MaxRetry
      BY TcpAssumption DEF Sends
    <3>2. Len(u1) <= UnackCap
      BY <1>1, <2>8, <3>1
    <3>3. t.state \notin HalfOpen
      BY <1>3
    <3> QED
      BY <2>12, <2>5, <2>8, <2>9, <3>1, <3>2, <3>3 DEF Sends
  <2> QED
    BY <2>9, <2>10, <2>11
<1>4. CASE t.state \in HalfOpen
  <2>1. /\ t.una = 0 /\ a = 1 /\ u = <<>> /\ Len(u) = 0 /\ w = 0 /\ t.nxt = 1 /\ g = 0
        /\ t.rx = <<>> /\ Len(t.rx) = 0
    BY <1>1, <1>4, EmptySeq DEF Sends, Receives, TcbType
  <2>2. SubSeq(u, 0 + 1, Len(u)) = <<>>
    BY <2>1, RunParts, RunEmpty
  <2>3. Acked(t, a) = AckedAs(t, st, <<>>, a)
    <3>1. (IF a - t.una < Len(u) THEN a - t.una ELSE Len(u)) = 0
      BY <2>1
    <3>2. t.state \in {"SynRcvd", "SynSent"}
      BY <1>4 DEF HalfOpen
    <3> QED
      BY <2>2, <3>1, <3>2 DEF Acked, AckedAs
  <2>4. /\ Acked(t, a).state = st /\ Acked(t, a).una = a /\ Acked(t, a).nxt = t.nxt
        /\ Acked(t, a).rcv = t.rcv /\ Acked(t, a).retries = 0 /\ Acked(t, a).unacked = <<>>
        /\ Acked(t, a).rx = t.rx /\ Acked(t, a) \in TcbType
    <3>1. <<>> \in Numbers
      BY EmptySeq DEF Numbers
    <3>2. st \in TStates
      BY DEF TcbType, TStates, Data
    <3> HIDE DEF st
    <3> QED BY <2>3, <3>1, <3>2, AckedIs
  <2>5. Receives(Acked(t, a), g, n, fin)
    BY <1>4, <2>1, <2>4 DEF Receives, HalfOpen
  <2>6. Sends(Acked(t, a), w, r)
    <3>1. Runs(<<>>, a - 1) /\ Len(<<>>) = 0
      BY RunEmpty, <2>1
    <3>2. 0 <= MaxRetry /\ 0 <= UnackCap
      BY TcpAssumption
    <3> QED
      BY <1>4, <2>1, <2>4, <3>1, <3>2 DEF Sends, HalfOpen
  <2> QED
    BY <1>4, <2>4, <2>5, <2>6 DEF Open_, HalfOpen
<1> QED
  BY <1>3, <1>4

RcvAs(t, q, c) == [t EXCEPT !.rx = q, !.rcv = c]

LEMMA RcvIs ==
    ASSUME NEW t \in TcbType, NEW q \in Numbers, NEW c \in Nat
    PROVE  /\ RcvAs(t, q, c) \in TcbType /\ RcvAs(t, q, c).rx = q /\ RcvAs(t, q, c).rcv = c
           /\ RcvAs(t, q, c).state = t.state /\ RcvAs(t, q, c).una = t.una
           /\ RcvAs(t, q, c).nxt = t.nxt /\ RcvAs(t, q, c).retries = t.retries
           /\ RcvAs(t, q, c).unacked = t.unacked
BY DEF TcbType, RcvAs

\* Data: what continues the stream is taken, as much as there is room for.
LEMMA DataFits ==
    ASSUME NEW t \in TcbType, NEW s, NEW w, NEW r, NEW g \in Nat, NEW n \in Nat, NEW fin,
           s.seq \in Nat, s.len \in Nat, s.seq + s.len <= n + 1,
           t.state \in {"Est", "CloseWait"}, Receives(t, g, n, fin), Sends(t, w, r)
    PROVE  /\ DataTaken(t, s) \in TcbType /\ DataTaken(t, s).state = t.state
           /\ Receives(DataTaken(t, s), g, n, fin) /\ Sends(DataTaken(t, s), w, r)
<1> DEFINE k == IF s.len < RxCap - Len(t.rx) THEN s.len ELSE RxCap - Len(t.rx)
           more == [i \in 1 .. k |-> s.seq + i - 1]
           q == t.rx \o more
           c == t.rcv + k
<1>1. CASE s.seq # t.rcv
  <2>1. DataTaken(t, s) = t
    BY <1>1 DEF DataTaken
  <2> QED BY <2>1
<1>2. CASE s.seq = t.rcv
  <2>1. t.rcv \in Nat /\ Len(t.rx) \in Nat /\ t.rx \in Numbers /\ RxCap \in Nat /\ Len(t.rx) <= RxCap
    BY LenOfRun, TcpAssumption DEF TcbType, Receives
  <2>2. k \in Nat /\ k <= s.len /\ Len(t.rx) + k <= RxCap
    BY <2>1
  <2> HIDE DEF k
  <2>3. t.state = "Est" /\ t.rcv = g + Len(t.rx) + 1
    <3>1. CASE t.state = "CloseWait"
      <4>1. t.rcv = n + 2
        BY <3>1 DEF Receives
      <4> QED BY <1>2, <4>1
    <3> QED BY <3>1 DEF Receives
  <2>4. g + Len(t.rx) \in Nat /\ s.seq = g + Len(t.rx) + 1
    BY <1>2, <2>1, <2>3
  <2>5. Runs(more, g + Len(t.rx)) /\ Len(more) = k
    <3>1. more = [i \in 1 .. k |-> (g + Len(t.rx)) + i]
      <4>1. \A i \in 1 .. k : s.seq + i - 1 = (g + Len(t.rx)) + i
        BY <2>1, <2>2, <2>4
      <4> QED BY <4>1
    <3> QED BY <2>2, <2>4, <3>1, RunOf
  <2> HIDE DEF more
  <2>6. Runs(q, g) /\ Len(q) = Len(t.rx) + k
    <3>1. Runs(t.rx, g)
      BY DEF Receives
    <3>2. g \in Int
      OBVIOUS
    <3> QED BY <2>5, <3>1, <3>2, RunConcat
  <2>7. q \in Numbers /\ c \in Nat
    BY SMTT(20), <2>1, <2>2, <2>6, LenOfRun
  <2>8. DataTaken(t, s) = RcvAs(t, q, c)
    BY <1>2 DEF DataTaken, RcvAs, k, more
  <2> HIDE DEF q, c
  <2>9. /\ DataTaken(t, s) \in TcbType /\ DataTaken(t, s).rx = q /\ DataTaken(t, s).rcv = c
        /\ DataTaken(t, s).state = t.state /\ DataTaken(t, s).una = t.una
        /\ DataTaken(t, s).nxt = t.nxt /\ DataTaken(t, s).retries = t.retries
        /\ DataTaken(t, s).unacked = t.unacked
    <3>1. t \in TcbType /\ q \in Numbers /\ c \in Nat
      BY <2>7
    <3>2. /\ RcvAs(t, q, c) \in TcbType /\ RcvAs(t, q, c).rx = q /\ RcvAs(t, q, c).rcv = c
          /\ RcvAs(t, q, c).state = t.state /\ RcvAs(t, q, c).una = t.una
          /\ RcvAs(t, q, c).nxt = t.nxt /\ RcvAs(t, q, c).retries = t.retries
          /\ RcvAs(t, q, c).unacked = t.unacked
      BY SMTT(20), <3>1, RcvIs
    <3> QED BY <2>8, <3>2
  <2>10. g + Len(q) <= n /\ Len(q) <= RxCap /\ c = g + Len(q) + 1
    <3>1. s.seq + s.len <= n + 1 /\ s.seq \in Nat /\ s.len \in Nat
      OBVIOUS
    <3> QED BY SMTT(20), <2>1, <2>2, <2>3, <2>4, <2>6, <3>1 DEF c
  <2>11. Receives(DataTaken(t, s), g, n, fin)
    BY <2>3, <2>6, <2>9, <2>10 DEF Receives, HalfOpen
  <2>12. Sends(DataTaken(t, s), w, r)
    BY <2>9 DEF Sends
  <2> QED
    BY <2>9, <2>11, <2>12
<1> QED
  BY <1>1, <1>2

FinAs(t, c, st) == [t EXCEPT !.rcv = c, !.state = st]

LEMMA FinIs ==
    ASSUME NEW t \in TcbType, NEW st \in TStates, NEW c \in Nat
    PROVE  /\ FinAs(t, c, st) \in TcbType /\ FinAs(t, c, st).rx = t.rx /\ FinAs(t, c, st).rcv = c
           /\ FinAs(t, c, st).state = st /\ FinAs(t, c, st).una = t.una
           /\ FinAs(t, c, st).nxt = t.nxt /\ FinAs(t, c, st).retries = t.retries
           /\ FinAs(t, c, st).unacked = t.unacked
BY DEF TcbType, FinAs

\* A FIN counts only after the last byte before it.
LEMMA FinFits ==
    ASSUME NEW t \in TcbType, NEW s, NEW w, NEW r, NEW g \in Nat, NEW n \in Nat, NEW fin,
           s.fin => fin /\ s.seq + s.len = n + 1,
           t.state \in {"Est", "CloseWait"}, Receives(t, g, n, fin), Sends(t, w, r)
    PROVE  /\ FinTaken(t, s) \in TcbType /\ FinTaken(t, s).state \in {"Est", "CloseWait"}
           /\ Receives(FinTaken(t, s), g, n, fin) /\ Sends(FinTaken(t, s), w, r)
<1>1. CASE ~(s.fin /\ s.seq + s.len = t.rcv)
  <2>1. FinTaken(t, s) = t
    BY <1>1 DEF FinTaken
  <2> QED BY <2>1
<1>2. CASE s.fin /\ s.seq + s.len = t.rcv
  <2>1. t.rcv \in Nat /\ Len(t.rx) \in Nat /\ t.rcv = n + 1 /\ fin
    BY <1>2, LenOfRun DEF TcbType, Receives
  <2>2. t.state = "Est" /\ t.rcv = g + Len(t.rx) + 1
    <3>1. CASE t.state = "CloseWait"
      <4>1. t.rcv = n + 2
        BY <3>1 DEF Receives
      <4> QED BY <2>1, <4>1
    <3> QED BY <3>1 DEF Receives
  <2>3. FinTaken(t, s) = FinAs(t, t.rcv + 1, "CloseWait")
    BY <1>2, <2>2 DEF FinTaken, FinAs
  <2>4. t.rcv + 1 \in Nat /\ "CloseWait" \in TStates
    BY <2>1 DEF TStates, Data
  <2>5. /\ FinTaken(t, s) \in TcbType /\ FinTaken(t, s).rx = t.rx
        /\ FinTaken(t, s).rcv = t.rcv + 1 /\ FinTaken(t, s).state = "CloseWait"
        /\ FinTaken(t, s).una = t.una /\ FinTaken(t, s).nxt = t.nxt
        /\ FinTaken(t, s).retries = t.retries /\ FinTaken(t, s).unacked = t.unacked
    BY SMTT(20), <2>3, <2>4, FinIs
  <2>6. g + Len(t.rx) = n /\ t.rcv + 1 = n + 2
    BY <2>1, <2>2
  <2>7. Receives(FinTaken(t, s), g, n, fin)
    BY <2>1, <2>5, <2>6 DEF Receives, HalfOpen
  <2>8. Sends(FinTaken(t, s), w, r)
    BY <2>2, <2>5 DEF Sends, HalfOpen
  <2> QED
    BY <2>5, <2>7, <2>8
<1> QED
  BY <1>1, <1>2

EstAs(t, c) == [t EXCEPT !.rcv = c, !.state = "Est", !.retries = 0]

LEMMA EstIs ==
    ASSUME NEW t \in TcbType, NEW c \in Nat
    PROVE  /\ EstAs(t, c) \in TcbType /\ EstAs(t, c).rx = t.rx /\ EstAs(t, c).rcv = c
           /\ EstAs(t, c).state = "Est" /\ EstAs(t, c).una = t.una
           /\ EstAs(t, c).nxt = t.nxt /\ EstAs(t, c).retries = 0 /\ EstAs(t, c).unacked = t.unacked
<1> "Est" \in TStates
  BY DEF TStates, Data
<1> QED BY DEF TcbType, EstAs

\* What a segment does to an open connection after its acknowledgement was looked at.
LEMMA InStateFits ==
    ASSUME NEW t \in TcbType, NEW s, NEW w \in Nat, NEW r \in Nat, NEW g \in Nat, NEW n \in Nat,
           NEW fin,
           s.seq \in Nat, s.len \in Nat, s.ackn \in Nat, s.seq + s.len <= n + 1,
           s.syn => s.seq = 0, s.fin => fin /\ s.seq + s.len = n + 1,
           s.ack => t.una = s.ackn,
           t.state \in Open_, Receives(t, g, n, fin), Sends(t, w, r)
    PROVE  /\ InState(t, s) \in TcbType /\ InState(t, s).state \in Open_
           /\ Receives(InState(t, s), g, n, fin) /\ Sends(InState(t, s), w, r)
<1>1. CASE t.state = "SynSent"
  <2>1. CASE s.syn /\ s.ack /\ s.ackn = t.nxt
    <3>1. s.seq + 1 = 1
      BY <2>1
    <3>2. InState(t, s) = EstAs(t, 1)
      BY <1>1, <2>1, <3>1 DEF InState, EstAs
    <3>3. /\ InState(t, s) \in TcbType /\ InState(t, s).rx = t.rx
          /\ InState(t, s).rcv = 1 /\ InState(t, s).state = "Est"
          /\ InState(t, s).una = t.una /\ InState(t, s).nxt = t.nxt
          /\ InState(t, s).retries = 0 /\ InState(t, s).unacked = t.unacked
      <4>1. t \in TcbType /\ 1 \in Nat
        OBVIOUS
      <4>2. /\ EstAs(t, 1) \in TcbType /\ EstAs(t, 1).rx = t.rx /\ EstAs(t, 1).rcv = 1
            /\ EstAs(t, 1).state = "Est" /\ EstAs(t, 1).una = t.una /\ EstAs(t, 1).nxt = t.nxt
            /\ EstAs(t, 1).retries = 0 /\ EstAs(t, 1).unacked = t.unacked
        BY <4>1, EstIs
      <4> QED BY <3>2, <4>2
    <3>4. g = 0 /\ t.rx = <<>> /\ w = 0 /\ t.unacked = <<>> /\ t.nxt = 1 /\ t.una = 1 /\ Len(<<>>) = 0
      BY <1>1, <2>1, EmptySeq DEF Receives, Sends, HalfOpen
    <3>5. Receives(InState(t, s), g, n, fin)
      BY <3>3, <3>4 DEF Receives, HalfOpen
    <3>6. 0 <= MaxRetry
      BY TcpAssumption
    <3>7. Sends(InState(t, s), w, r)
      BY <3>3, <3>4, <3>6 DEF Sends, HalfOpen
    <3> QED BY <3>3, <3>5, <3>7 DEF Open_
  <2>2. CASE ~(s.syn /\ s.ack /\ s.ackn = t.nxt)
    <3>1. InState(t, s) = t
      BY <1>1, <2>2 DEF InState
    <3> QED BY <3>1
  <2> QED BY <2>1, <2>2
<1>2. CASE t.state \in {"Est", "CloseWait"}
  <2>1. InState(t, s) = FinTaken(DataTaken(t, s), s)
    BY <1>2 DEF InState
  <2>2. /\ DataTaken(t, s) \in TcbType /\ DataTaken(t, s).state \in {"Est", "CloseWait"}
        /\ Receives(DataTaken(t, s), g, n, fin) /\ Sends(DataTaken(t, s), w, r)
    BY <1>2, DataFits
  <2>3. /\ FinTaken(DataTaken(t, s), s) \in TcbType
        /\ FinTaken(DataTaken(t, s), s).state \in {"Est", "CloseWait"}
        /\ Receives(FinTaken(DataTaken(t, s), s), g, n, fin)
        /\ Sends(FinTaken(DataTaken(t, s), s), w, r)
    BY <2>2, FinFits
  <2> QED BY <2>1, <2>3 DEF Open_
<1>3. CASE t.state = "SynRcvd"
  <2>1. InState(t, s) = t
    BY <1>3 DEF InState
  <2> QED BY <2>1
<1> QED
  BY <1>1, <1>2, <1>3 DEF Open_, HalfOpen

----------------------------------------------------------------------------
(* Tcp: the invariant *)

PeerType == [state : {"Idle", "SynSent", "Est", "Dead"}, rcv : Nat, got : Numbers,
             sent : Nat, fin : BOOLEAN]

\* The peer has what it has acknowledged.
PeerFits ==
    /\ peer \in PeerType
    /\ Runs(peer.got, 0)
    /\ peer.rcv = 0 => Len(peer.got) = 0
    /\ peer.rcv > 0 => peer.rcv = Len(peer.got) + 1
    /\ peer.state \in {"Idle", "SynSent"} => peer.rcv = 0
    /\ peer.state = "Est" => peer.rcv > 0

WireFits == \A seg \in wire : seg[2] \in Nat /\ seg[1] = seg[2]

SlotFits ==
    /\ ~used => tcb = Fresh /\ ~closing
    /\ used /\ ~closing => tcb.state \in Open_
    /\ closing => tcb.state \in {"FinW1", "LastAck"}

UserFits ==
    /\ wrote \in Nat
    /\ Runs(got, 0)
    /\ eof => peer.fin /\ Len(got) = peer.sent

Streams ==
    /\ tcb \in TcbType
    /\ Receives(tcb, Len(got), peer.sent, peer.fin)
    /\ Sends(tcb, wrote, peer.rcv)

TcpInv == PeerFits /\ WireFits /\ SlotFits /\ UserFits /\ Streams

\* The control block of an opened, or a released, slot.
LEMMA FreshFits ==
    ASSUME NEW g \in Nat, NEW n \in Nat, NEW fin, NEW w, NEW r \in Nat, g <= n
    PROVE  Fresh \in TcbType /\ Receives(Fresh, g, n, fin) /\ Sends(Fresh, w, r)
<1>1. /\ Fresh.state = "Closed" /\ Fresh.una = 0 /\ Fresh.nxt = 0 /\ Fresh.rcv = 0
      /\ Fresh.retries = 0 /\ Fresh.unacked = <<>> /\ Fresh.rx = <<>>
  BY DEF Fresh
<1>2. Fresh \in TcbType
  <2>1. "Closed" \in TStates /\ <<>> \in Numbers
    BY EmptySeq DEF TStates, Numbers
  <2> QED BY <2>1 DEF Fresh, TcbType
<1>3. Runs(<<>>, g) /\ Runs(<<>>, 0 - 1) /\ Len(<<>>) = 0
  BY RunEmpty
<1>4. 0 <= RxCap /\ 0 <= UnackCap /\ 0 <= MaxRetry
  BY TcpAssumption
<1>5. Receives(Fresh, g, n, fin)
  BY <1>1, <1>3, <1>4 DEF Receives, HalfOpen
<1>6. Sends(Fresh, w, r)
  BY <1>1, <1>3, <1>4 DEF Sends, HalfOpen
<1> QED
  BY <1>2, <1>5, <1>6

OpenAs(st, c) == [Fresh EXCEPT !.state = st, !.nxt = 1, !.rcv = c]

LEMMA OpenFits ==
    ASSUME NEW n \in Nat, NEW fin, NEW r \in Nat,
           NEW st, NEW c, \/ st = "SynRcvd" /\ c = 1
                          \/ st = "SynSent" /\ c = 0
    PROVE  /\ OpenAs(st, c) \in TcbType /\ OpenAs(st, c).state \in Open_
           /\ Receives(OpenAs(st, c), 0, n, fin) /\ Sends(OpenAs(st, c), 0, r)
<1> DEFINE o == OpenAs(st, c)
<1>1. /\ o.state = st /\ o.una = 0 /\ o.nxt = 1 /\ o.rcv = c
      /\ o.retries = 0 /\ o.unacked = <<>> /\ o.rx = <<>>
  BY DEF OpenAs, Fresh
<1>2. o \in TcbType
  <2>1. st \in TStates /\ <<>> \in Numbers /\ c \in Nat
    BY EmptySeq DEF TStates, Numbers, HalfOpen
  <2> QED BY <2>1 DEF OpenAs, Fresh, TcbType
<1> HIDE DEF o
<1>3. Runs(<<>>, 0) /\ Runs(<<>>, 0 - 1) /\ Len(<<>>) = 0
  BY RunEmpty
<1>4. 0 <= RxCap /\ 0 <= UnackCap /\ 0 <= MaxRetry
  BY TcpAssumption
<1>5. Receives(o, 0, n, fin)
  BY <1>1, <1>3, <1>4 DEF Receives, HalfOpen
<1>6. Sends(o, 0, r)
  BY <1>1, <1>3, <1>4 DEF Sends, HalfOpen
<1> QED
  BY <1>1, <1>2, <1>5, <1>6 DEF o, Open_, HalfOpen

LEMMA TcpInitFits == TcpInit => TcpInv
<1> SUFFICES ASSUME TcpInit PROVE TcpInv
  OBVIOUS
<1>1. Runs(<<>>, 0) /\ Len(<<>>) = 0 /\ <<>> \in Numbers
  BY RunEmpty, LenOfRun
<1>2. /\ peer.state = "Idle" /\ peer.rcv = 0 /\ peer.got = <<>> /\ peer.sent = 0
      /\ peer.fin = FALSE /\ peer \in PeerType
  BY <1>1 DEF TcpInit, PeerType
<1>3. PeerFits /\ WireFits /\ UserFits /\ SlotFits
  BY <1>1, <1>2 DEF TcpInit, PeerFits, WireFits, UserFits, SlotFits
<1>4. Streams
  <2>1. tcb = Fresh /\ Len(got) = 0 /\ wrote = 0
    BY <1>1 DEF TcpInit
  <2>2. 0 \in Nat /\ 0 <= 0
    OBVIOUS
  <2>3. Fresh \in TcbType /\ Receives(Fresh, 0, 0, FALSE) /\ Sends(Fresh, 0, 0)
    BY <2>2, FreshFits
  <2> QED BY <1>2, <2>1, <2>3 DEF Streams
<1> QED
  BY <1>3, <1>4 DEF TcpInv

\* What the steps below need of the numbers.
LEMMA TcpCounts ==
    ASSUME TcpInv
    PROVE  /\ Len(got) \in Nat /\ Len(tcb.rx) \in Nat /\ Len(got) + Len(tcb.rx) <= peer.sent
           /\ Len(tcb.unacked) \in Nat /\ wrote \in Nat /\ tcb \in TcbType /\ tcb.una \in Nat
           /\ tcb.nxt \in Nat /\ tcb.retries \in Nat
           /\ peer.sent \in Nat /\ peer.rcv \in Nat /\ Len(got) <= peer.sent
           /\ tcb.una <= peer.rcv
<1>1. /\ Len(got) \in Nat /\ Len(tcb.rx) \in Nat /\ Len(tcb.unacked) \in Nat
  BY LenOfRun DEF TcpInv, UserFits, Streams, Receives, Sends
<1>2. /\ peer.sent \in Nat /\ peer.rcv \in Nat
  BY DEF TcpInv, PeerFits, PeerType
<1>3. /\ tcb \in TcbType /\ tcb.una \in Nat /\ tcb.nxt \in Nat /\ tcb.retries \in Nat /\ wrote \in Nat
  BY DEF TcpInv, Streams, TcbType, UserFits
<1>4. Len(got) + Len(tcb.rx) <= peer.sent /\ tcb.una <= peer.rcv
  BY DEF TcpInv, Streams, Receives, Sends
<1> QED
  BY <1>1, <1>2, <1>3, <1>4

LEMMA OpeningKeeps ==
    ASSUME TcpInv, ListenerSyn \/ TcpConnect PROVE TcpInv'
<1>1. /\ Unopened /\ used' /\ tcb' \in {OpenAs("SynRcvd", 1), OpenAs("SynSent", 0)}
      /\ UNCHANGED <<closing, User, wire, peer>>
  BY DEF ListenerSyn, TcpConnect, Opened, OpenAs
<1>2. ~used /\ wrote = 0 /\ got = <<>> /\ Len(got) = 0 /\ ~closing
  BY <1>1, EmptySeq DEF Unopened, TcpInv, SlotFits
<1>3. peer.sent \in Nat /\ peer.rcv \in Nat
  BY TcpCounts
<1>4. /\ tcb' \in TcbType /\ tcb'.state \in Open_
      /\ Receives(tcb', 0, peer.sent, peer.fin) /\ Sends(tcb', 0, peer.rcv)
  BY <1>1, <1>3, OpenFits
<1>5. PeerFits' /\ WireFits' /\ UserFits'
  BY <1>1 DEF TcpInv, PeerFits, WireFits, UserFits, User
<1>6. SlotFits'
  BY <1>1, <1>2, <1>4 DEF SlotFits
<1>7. Streams'
  BY <1>1, <1>2, <1>4 DEF Streams, User
<1> QED
  BY <1>5, <1>6, <1>7 DEF TcpInv

LEMMA ChildRxKeeps ==
    ASSUME TcpInv, NEW s \in PeerSegments, ChildRx(s) PROVE TcpInv'
<1> DEFINE t == IF s.ack /\ s.ackn # tcb.una THEN Acked(tcb, s.ackn) ELSE tcb
           g == Len(got)
           n == peer.sent
           r == peer.rcv
<1>1. /\ used /\ ~closing /\ tcb.state \in Open_ /\ tcb \in TcbType
      /\ Receives(tcb, g, n, peer.fin) /\ Sends(tcb, wrote, r)
  BY DEF ChildRx, Hears, TcpInv, SlotFits, Streams
<1>2. /\ g \in Nat /\ n \in Nat /\ r \in Nat /\ wrote \in Nat /\ tcb.una \in Nat
  BY TcpCounts
<1>3. /\ s.seq \in Nat /\ s.len \in Nat /\ s.ackn \in Nat
      /\ s.ack \in BOOLEAN /\ s.syn \in BOOLEAN /\ s.fin \in BOOLEAN
      /\ s.ack => s.ackn \in 1 .. r
      /\ s.seq + s.len <= n + 1
      /\ s.syn => s.seq = 0
      /\ s.fin => peer.fin /\ s.seq + s.len = n + 1
  BY <1>2, SegmentType
<1>4. s.ack => tcb.una <= s.ackn /\ s.ackn <= tcb.nxt /\ s.ackn <= r
  BY <1>2, <1>3 DEF ChildRx, InWindow
<1>5. /\ t \in TcbType /\ t.state \in Open_ /\ (s.ack => t.una = s.ackn)
      /\ Receives(t, g, n, peer.fin) /\ Sends(t, wrote, r)
  <2>1. CASE s.ack /\ s.ackn # tcb.una
    <3>1. tcb.una < s.ackn /\ s.ackn <= tcb.nxt /\ s.ackn <= r
      BY <1>2, <1>3, <1>4, <2>1
    <3>2. /\ Acked(tcb, s.ackn) \in TcbType /\ Acked(tcb, s.ackn).state \in Open_
          /\ Receives(Acked(tcb, s.ackn), g, n, peer.fin) /\ Sends(Acked(tcb, s.ackn), wrote, r)
          /\ Acked(tcb, s.ackn).una = s.ackn
      <4> HIDE DEF g, n, r
      <4> QED BY <1>1, <1>2, <1>3, <3>1, AckedFits
    <3> QED BY <2>1, <3>2
  <2>2. CASE ~(s.ack /\ s.ackn # tcb.una)
    BY <1>1, <2>2
  <2> QED BY <2>1, <2>2
<1>6. tcb' = InState(t, s) /\ UNCHANGED <<used, closing, wrote, got, eof, wire, peer>>
  BY DEF ChildRx, User, Net
<1>7. /\ InState(t, s) \in TcbType /\ InState(t, s).state \in Open_
      /\ Receives(InState(t, s), g, n, peer.fin) /\ Sends(InState(t, s), wrote, r)
  <2> HIDE DEF t, g, n, r
  <2> QED BY <1>2, <1>3, <1>5, InStateFits
<1> HIDE DEF t
<1>8. PeerFits' /\ WireFits' /\ UserFits'
  BY <1>6 DEF TcpInv, PeerFits, WireFits, UserFits
<1>9. SlotFits'
  BY <1>1, <1>6, <1>7 DEF SlotFits
<1>10. Streams'
  BY <1>6, <1>7 DEF Streams
<1> QED
  BY <1>8, <1>9, <1>10 DEF TcpInv

\* A slot is free again after a reset, a close or a timeout.
LEMMA ReleaseKeeps ==
    ASSUME TcpInv, ResetRx \/ GiveUp \/ LingerTimeout \/ TcpCloseOther PROVE TcpInv'
<1>1. /\ used' = FALSE /\ closing' = FALSE /\ tcb' = Fresh
      /\ UNCHANGED <<wrote, got, eof, wire, peer>>
  BY DEF ResetRx, GiveUp, LingerTimeout, TcpCloseOther, Released, User, Net
<1>2. Len(got) \in Nat /\ peer.sent \in Nat /\ peer.rcv \in Nat /\ Len(got) <= peer.sent
  BY TcpCounts
<1>3. PeerFits' /\ WireFits' /\ UserFits' /\ SlotFits'
  BY <1>1 DEF TcpInv, PeerFits, WireFits, UserFits, SlotFits
<1>4. Streams'
  BY <1>1, <1>2, FreshFits DEF Streams
<1> QED
  BY <1>3, <1>4 DEF TcpInv

SentAs(t, q, c) == [t EXCEPT !.unacked = q, !.nxt = c, !.retries = 0]

LEMMA SentIs ==
    ASSUME NEW t \in TcbType, NEW q \in Numbers, NEW c \in Nat
    PROVE  /\ SentAs(t, q, c) \in TcbType /\ SentAs(t, q, c).unacked = q
           /\ SentAs(t, q, c).nxt = c /\ SentAs(t, q, c).retries = 0
           /\ SentAs(t, q, c).state = t.state /\ SentAs(t, q, c).una = t.una
           /\ SentAs(t, q, c).rcv = t.rcv /\ SentAs(t, q, c).rx = t.rx
BY DEF TcbType, SentAs

LEMMA SendKeeps ==
    ASSUME TcpInv, NEW n \in Nat, NEW d \in Nat, TcpSend(n, d) PROVE TcpInv'
<1> DEFINE u == tcb.unacked
           out == [k \in 1 .. d |-> wrote + k]
           q == u \o out
           c == tcb.nxt + d
<1>1. /\ used /\ ~closing /\ tcb.state \in {"Est", "CloseWait"}
      /\ Len(u) + n <= UnackCap /\ d \in 1 .. n
      /\ tcb' = SentAs(tcb, q, c)
      /\ wire' = wire \cup {<<tcb.nxt + k - 1, out[k]>> : k \in 1 .. d}
      /\ wrote' = wrote + d
      /\ UNCHANGED <<used, closing, got, eof, peer>>
  BY DEF TcpSend, SentAs
<1>2. /\ Len(u) \in Nat /\ wrote \in Nat /\ tcb.nxt \in Nat /\ tcb.una \in Nat /\ tcb \in TcbType
  BY TcpCounts
<1>3. /\ tcb.una >= 1 /\ tcb.una + Len(u) = wrote + 1 /\ tcb.nxt = wrote + 1 /\ Runs(u, tcb.una - 1)
  BY <1>1 DEF TcpInv, Streams, Sends
<1>4. Runs(out, wrote) /\ Len(out) = d
  BY <1>2, RunOf
<1>5. Runs(q, tcb.una - 1) /\ Len(q) = Len(u) + d
  <2>1. tcb.una - 1 \in Int /\ tcb.una - 1 + Len(u) = wrote
    BY <1>2, <1>3
  <2>2. Runs(u, tcb.una - 1)
    BY <1>3
  <2> HIDE DEF u, out
  <2> QED BY <1>4, <2>1, <2>2, RunConcat
<1>6. q \in Numbers /\ c \in Nat
  BY <1>2, <1>5, LenOfRun
<1> HIDE DEF q, c
<1>7. /\ tcb' \in TcbType /\ tcb'.unacked = q /\ tcb'.nxt = c /\ tcb'.retries = 0
      /\ tcb'.state = tcb.state /\ tcb'.una = tcb.una /\ tcb'.rcv = tcb.rcv /\ tcb'.rx = tcb.rx
  <2>1. tcb \in TcbType /\ q \in Numbers /\ c \in Nat
    BY <1>2, <1>6
  <2>2. /\ SentAs(tcb, q, c) \in TcbType /\ SentAs(tcb, q, c).unacked = q
        /\ SentAs(tcb, q, c).nxt = c /\ SentAs(tcb, q, c).retries = 0
        /\ SentAs(tcb, q, c).state = tcb.state /\ SentAs(tcb, q, c).una = tcb.una
        /\ SentAs(tcb, q, c).rcv = tcb.rcv /\ SentAs(tcb, q, c).rx = tcb.rx
    BY <2>1, SentIs
  <2> QED BY <1>1, <2>2
<1>8. /\ tcb.una + Len(q) = wrote' + 1 /\ c = wrote' + 1 /\ Len(q) <= UnackCap /\ wrote' \in Nat
  <2>1. UnackCap \in Nat
    BY TcpAssumption
  <2>2. Len(u) + n <= UnackCap /\ d \in 1 .. n /\ wrote' = wrote + d
    BY <1>1
  <2>3. Len(q) = Len(u) + d /\ c = tcb.nxt + d
    BY <1>5 DEF c
  <2>4. tcb.una + Len(u) = wrote + 1 /\ tcb.nxt = wrote + 1
    BY <1>3
  <2>5. tcb.una \in Nat /\ Len(u) \in Nat /\ wrote \in Nat
    BY <1>2
  <2> HIDE DEF u, out
  <2> QED BY SMTT(20), <2>1, <2>2, <2>3, <2>4, <2>5
<1>9. WireFits'
  <2>1. \A k \in 1 .. d : out[k] \in Nat /\ tcb.nxt + k - 1 = out[k]
    BY <1>2, <1>3
  <2> HIDE DEF out
  <2> QED BY <1>1, <2>1 DEF TcpInv, WireFits
<1>10. PeerFits' /\ UserFits' /\ SlotFits'
  BY <1>1, <1>7, <1>8 DEF TcpInv, PeerFits, UserFits, SlotFits, Open_
<1>11. Receives(tcb', Len(got), peer.sent, peer.fin)
  BY <1>7 DEF TcpInv, Streams, Receives
<1>12. Sends(tcb', wrote', peer.rcv)
  <2>1. tcb.una <= peer.rcv /\ 0 <= MaxRetry
    BY TcpAssumption DEF TcpInv, Streams, Sends
  <2>2. tcb.state \notin HalfOpen
    BY <1>1 DEF HalfOpen
  <2> QED BY <1>3, <1>5, <1>7, <1>8, <2>1, <2>2 DEF Sends
<1>13. Streams'
  BY <1>1, <1>7, <1>11, <1>12 DEF Streams
<1> QED
  BY <1>9, <1>10, <1>13 DEF TcpInv

ReadAs(t, q) == [t EXCEPT !.rx = q]

LEMMA ReadIs ==
    ASSUME NEW t \in TcbType, NEW q \in Numbers
    PROVE  /\ ReadAs(t, q) \in TcbType /\ ReadAs(t, q).rx = q
           /\ ReadAs(t, q).state = t.state /\ ReadAs(t, q).una = t.una
           /\ ReadAs(t, q).rcv = t.rcv /\ ReadAs(t, q).unacked = t.unacked
           /\ ReadAs(t, q).nxt = t.nxt /\ ReadAs(t, q).retries = t.retries
BY DEF TcbType, ReadAs

LEMMA RecvKeeps ==
    ASSUME TcpInv, NEW n \in Nat, TcpRecv(n) PROVE TcpInv'
<1> DEFINE rx == tcb.rx
           k == IF n < Len(rx) THEN n ELSE Len(rx)
           q == SubSeq(rx, k + 1, Len(rx))
           r == SubSeq(rx, 1, k)
<1>1. used /\ ~closing /\ UNCHANGED <<used, closing, wrote, wire, peer>>
  BY DEF TcpRecv, Net
<1>2. /\ Len(got) \in Nat /\ Len(rx) \in Nat /\ tcb \in TcbType /\ peer.sent \in Nat
      /\ Len(got) + Len(rx) <= peer.sent
  BY TcpCounts
<1>3. Runs(rx, Len(got)) /\ Runs(got, 0) /\ rx \in Numbers
  BY LenOfRun DEF TcpInv, Streams, Receives, UserFits
<1>4. CASE rx # <<>>
  <2>1. got' = got \o r /\ tcb' = ReadAs(tcb, q) /\ eof' = eof
    BY <1>4 DEF TcpRecv, ReadAs
  <2>2. k \in Nat /\ k <= Len(rx)
    BY <1>2
  <2>3. Len(got) \in Int /\ Runs(rx, Len(got))
    BY <1>2, <1>3
  <2>4. Runs(q, Len(got) + k) /\ Len(q) = Len(rx) - k /\ Runs(r, Len(got)) /\ Len(r) = k
    <3> HIDE DEF k, rx
    <3> QED BY <2>2, <2>3, RunParts
  <2> HIDE DEF q, r, k, rx
  <2>5. Runs(got', 0) /\ Len(got') = Len(got) + k
    <3>1. 0 \in Int /\ Runs(got, 0) /\ Runs(r, 0 + Len(got))
      BY <1>2, <1>3, <2>4
    <3> QED BY <2>1, <2>4, <3>1, RunConcat
  <2>6. q \in Numbers /\ Len(q) \in Nat
    BY <2>4, LenOfRun
  <2>7. /\ tcb' \in TcbType /\ tcb'.rx = q /\ tcb'.state = tcb.state /\ tcb'.una = tcb.una
        /\ tcb'.rcv = tcb.rcv /\ tcb'.unacked = tcb.unacked /\ tcb'.nxt = tcb.nxt
        /\ tcb'.retries = tcb.retries
    BY <1>2, <2>1, <2>6, ReadIs
  <2>8. Len(got') + Len(q) = Len(got) + Len(rx) /\ Len(q) <= Len(rx)
    BY <1>2, <2>2, <2>4, <2>5, <2>6
  <2>9. Runs(q, Len(got'))
    BY <2>4, <2>5
  <2>10. tcb.state \notin HalfOpen
    BY <1>4 DEF TcpInv, Streams, Receives, rx
  <2>11. Receives(tcb', Len(got'), peer.sent, peer.fin)
    <3>1. /\ Len(rx) <= RxCap
          /\ tcb.state \in {"Est", "FinW1"} => tcb.rcv = Len(got) + Len(rx) + 1
          /\ tcb.state \in {"CloseWait", "LastAck"} =>
               peer.fin /\ Len(got) + Len(rx) = peer.sent /\ tcb.rcv = peer.sent + 2
      BY DEF TcpInv, Streams, Receives, rx
    <3>2. RxCap \in Nat
      BY TcpAssumption
    <3>3. Len(q) <= RxCap
      BY <1>2, <2>6, <2>8, <3>1, <3>2
    <3>4. "SynRcvd" \in HalfOpen
      BY DEF HalfOpen
    <3> QED BY <1>2, <2>7, <2>8, <2>9, <2>10, <3>1, <3>3, <3>4 DEF Receives
  <2>12. Sends(tcb', wrote, peer.rcv)
    BY <2>7 DEF TcpInv, Streams, Sends
  <2>13. eof => Len(got') = peer.sent
    <3>1. eof => Len(got) = peer.sent
      BY DEF TcpInv, UserFits
    <3>2. Len(got') <= peer.sent /\ Len(got) <= Len(got')
      BY <1>2, <2>2, <2>5, <2>6, <2>8
    <3>3. Len(got') \in Nat
      BY <1>2, <2>2, <2>5
    <3> QED BY <1>2, <3>1, <3>2, <3>3
  <2>14. UserFits'
    BY <1>1, <2>1, <2>5, <2>13 DEF TcpInv, UserFits
  <2>15. PeerFits' /\ WireFits' /\ SlotFits'
    BY <1>1, <2>7 DEF TcpInv, PeerFits, WireFits, SlotFits
  <2> QED
    BY <1>1, <2>7, <2>11, <2>12, <2>14, <2>15 DEF TcpInv, Streams
<1>5. CASE rx = <<>>
  <2>1. got' = got /\ tcb' = tcb /\ eof' = (eof \/ tcb.state = "CloseWait")
    BY <1>5 DEF TcpRecv
  <2>2. tcb.state = "CloseWait" => peer.fin /\ Len(got) = peer.sent
    BY <1>2, <1>5, EmptySeq DEF TcpInv, Streams, Receives
  <2>3. UserFits'
    BY <1>1, <2>1, <2>2 DEF TcpInv, UserFits
  <2>4. PeerFits' /\ WireFits' /\ SlotFits' /\ Streams'
    BY <1>1, <2>1 DEF TcpInv, PeerFits, WireFits, SlotFits, Streams
  <2> QED
    BY <2>3, <2>4 DEF TcpInv
<1> QED
  BY <1>4, <1>5

ClosedAs(t, c, st) == [t EXCEPT !.nxt = c, !.retries = 0, !.state = st]

LEMMA ClosedIs ==
    ASSUME NEW t \in TcbType, NEW c \in Nat, NEW st \in TStates
    PROVE  /\ ClosedAs(t, c, st) \in TcbType /\ ClosedAs(t, c, st).nxt = c
           /\ ClosedAs(t, c, st).state = st /\ ClosedAs(t, c, st).retries = 0
           /\ ClosedAs(t, c, st).una = t.una /\ ClosedAs(t, c, st).rcv = t.rcv
           /\ ClosedAs(t, c, st).unacked = t.unacked /\ ClosedAs(t, c, st).rx = t.rx
BY DEF TcbType, ClosedAs

LEMMA CloseKeeps ==
    ASSUME TcpInv, TcpCloseOpen PROVE TcpInv'
<1> DEFINE st == IF tcb.state = "Est" THEN "FinW1" ELSE "LastAck"
           c == tcb.nxt + 1
<1>1. /\ used /\ closing' = TRUE /\ tcb.state \in {"Est", "CloseWait"}
      /\ tcb' = ClosedAs(tcb, c, st)
      /\ UNCHANGED <<used, wrote, got, eof, wire, peer>>
  BY DEF TcpCloseOpen, ClosedAs, User
<1>2. tcb \in TcbType /\ c \in Nat /\ st \in TStates /\ st \in {"FinW1", "LastAck"}
  BY TcpCounts DEF TStates, Data
<1> HIDE DEF c
<1>3. /\ tcb' \in TcbType /\ tcb'.nxt = c /\ tcb'.state = st /\ tcb'.retries = 0
      /\ tcb'.una = tcb.una /\ tcb'.rcv = tcb.rcv /\ tcb'.unacked = tcb.unacked /\ tcb'.rx = tcb.rx
  <2> HIDE DEF st
  <2> QED BY <1>1, <1>2, ClosedIs
<1>4. Receives(tcb', Len(got), peer.sent, peer.fin)
  BY <1>1, <1>3 DEF TcpInv, Streams, Receives, HalfOpen
<1>5. Sends(tcb', wrote, peer.rcv)
  <2>1. 0 <= MaxRetry
    BY TcpAssumption
  <2> QED BY <1>1, <1>3, <2>1 DEF TcpInv, Streams, Sends, HalfOpen
<1>6. PeerFits' /\ WireFits' /\ UserFits' /\ SlotFits'
  BY <1>1, <1>2, <1>3 DEF TcpInv, PeerFits, WireFits, UserFits, SlotFits
<1> QED
  BY <1>1, <1>3, <1>4, <1>5, <1>6 DEF TcpInv, Streams

LEMMA AgainIs ==
    ASSUME NEW t \in TcbType
    PROVE  /\ Again(t) \in TcbType /\ Again(t).retries = t.retries + 1
           /\ Again(t).state = t.state /\ Again(t).nxt = t.nxt
           /\ Again(t).una = t.una /\ Again(t).rcv = t.rcv
           /\ Again(t).unacked = t.unacked /\ Again(t).rx = t.rx
BY DEF TcbType, Again

LEMMA RetransmitKeeps ==
    ASSUME TcpInv, Retransmit PROVE TcpInv'
<1> DEFINE u == tcb.unacked
<1>1. /\ tcb.retries < MaxRetry /\ tcb' = Again(tcb)
      /\ UNCHANGED <<used, closing, wrote, got, eof, peer>>
      /\ \/ wire' = wire
         \/ wire' = wire \cup {<<tcb.una + k - 1, u[k]>> : k \in DOMAIN u}
  BY DEF Retransmit, User
<1>2. tcb \in TcbType /\ tcb.retries \in Nat /\ tcb.una \in Nat /\ Len(u) \in Nat
  BY TcpCounts
<1>3. /\ tcb' \in TcbType /\ tcb'.retries = tcb.retries + 1
      /\ tcb'.state = tcb.state /\ tcb'.nxt = tcb.nxt
      /\ tcb'.una = tcb.una /\ tcb'.rcv = tcb.rcv /\ tcb'.unacked = tcb.unacked /\ tcb'.rx = tcb.rx
  BY <1>1, <1>2, AgainIs
<1>4. tcb.retries + 1 <= MaxRetry
  <2>1. MaxRetry \in Nat
    BY TcpAssumption
  <2> QED BY <1>1, <1>2, <2>1
<1>5. Receives(tcb', Len(got), peer.sent, peer.fin)
  BY <1>3 DEF TcpInv, Streams, Receives
<1>6. Sends(tcb', wrote, peer.rcv)
  BY <1>3, <1>4 DEF TcpInv, Streams, Sends
<1>7. WireFits'
  <2>1. \A k \in DOMAIN u : u[k] \in Nat /\ tcb.una + k - 1 = u[k]
    <3>1. u \in Seq(Nat) /\ Runs(u, tcb.una - 1)
      BY DEF TcpInv, Streams, Sends, Runs
    <3>2. DOMAIN u = 1 .. Len(u) /\ \A k \in 1 .. Len(u) : u[k] \in Nat
      BY <3>1, LenProperties, ElementOfSeq
    <3>3. ASSUME NEW k \in 1 .. Len(u) PROVE tcb.una + k - 1 = u[k]
      <4>1. u[k] = tcb.una - 1 + k
        BY <3>1 DEF Runs
      <4> HIDE DEF u
      <4> QED BY <1>2, <4>1
    <3> QED BY <3>2, <3>3
  <2> HIDE DEF u
  <2> QED BY <1>1, <2>1 DEF TcpInv, WireFits
<1>8. PeerFits' /\ UserFits'
  BY <1>1 DEF TcpInv, PeerFits, UserFits
<1>9. SlotFits'
  BY <1>1, <1>3 DEF TcpInv, SlotFits, Retransmit
<1> QED
  BY <1>1, <1>3, <1>5, <1>6, <1>7, <1>8, <1>9 DEF TcpInv, Streams

\* The peer takes a byte, or says something.
PeerSteps == PeerConnect \/ PeerOpen \/ PeerSend \/ PeerFin \/ PeerRecv \/ PeerGone

LEMMA PeerKeepsFits ==
    ASSUME TcpInv, PeerSteps
    PROVE  /\ PeerFits' /\ peer'.rcv \in Nat /\ peer'.rcv >= peer.rcv
           /\ peer'.sent \in Nat /\ peer'.sent >= peer.sent
           /\ peer.fin => peer'.fin /\ peer'.sent = peer.sent
           /\ UNCHANGED <<used, closing, tcb, wrote, got, eof, wire>>
<1> DEFINE P == [peer EXCEPT !.rcv = @ + 1]
<1>1. /\ peer \in PeerType /\ peer.rcv \in Nat /\ peer.sent \in Nat /\ peer.got \in Numbers
      /\ Runs(peer.got, 0) /\ Len(peer.got) \in Nat
  BY LenOfRun DEF TcpInv, PeerFits, PeerType
<1>2. UNCHANGED <<used, closing, tcb, wrote, got, eof, wire>>
  BY DEF PeerSteps, PeerConnect, PeerOpen, PeerSend, PeerFin, PeerRecv, PeerGone,
         PeerKeeps, Sock, User, Net
<1>3. CASE PeerConnect \/ PeerGone
  <2>1. /\ peer'.rcv = peer.rcv /\ peer'.got = peer.got /\ peer'.sent = peer.sent
        /\ peer'.fin = peer.fin /\ peer' \in PeerType
        /\ \/ peer.state = "Idle" /\ peer'.state = "SynSent"
           \/ peer'.state = "Dead"
    BY <1>1, <1>3 DEF PeerConnect, PeerGone, PeerType
  <2>2. PeerFits'
    BY <2>1 DEF TcpInv, PeerFits
  <2> QED BY <1>1, <1>2, <2>1, <2>2
<1>4. CASE PeerOpen
  <2>1. /\ peer'.rcv = 1 /\ peer'.got = peer.got /\ peer'.sent = peer.sent
        /\ peer'.fin = peer.fin /\ peer' \in PeerType /\ peer'.state = "Est"
        /\ peer.state \in {"Idle", "SynSent"}
    BY <1>1, <1>4 DEF PeerOpen, PeerType
  <2>2. peer.rcv = 0 /\ Len(peer.got) = 0
    BY <2>1 DEF TcpInv, PeerFits
  <2>3. PeerFits'
    BY <1>1, <2>1, <2>2 DEF PeerFits
  <2> QED BY <1>1, <1>2, <2>1, <2>2, <2>3
<1>5. CASE PeerSend
  <2>1. /\ peer'.rcv = peer.rcv /\ peer'.got = peer.got /\ peer'.sent = peer.sent + 1
        /\ peer'.fin = peer.fin /\ ~peer.fin /\ peer'.state = peer.state
    BY <1>1, <1>5 DEF PeerSend, PeerType
  <2>2. peer' \in PeerType
    BY <1>1, <1>5 DEF PeerSend, PeerType
  <2>3. PeerFits'
    BY <2>1, <2>2 DEF TcpInv, PeerFits
  <2> QED BY <1>1, <1>2, <2>1, <2>3
<1>6. CASE PeerFin
  <2>1. /\ peer'.rcv = peer.rcv /\ peer'.got = peer.got /\ peer'.sent = peer.sent
        /\ peer'.fin = TRUE /\ peer'.state = peer.state /\ peer' \in PeerType
    BY <1>1, <1>6 DEF PeerFin, PeerType
  <2>2. PeerFits'
    BY <2>1 DEF TcpInv, PeerFits
  <2> QED BY <1>1, <1>2, <2>1, <2>2
<1>7. CASE PeerRecv
  <2>1. PICK seg \in wire : /\ seg[1] = peer.rcv /\ peer.state = "Est"
                            /\ peer' = [peer EXCEPT !.rcv = @ + 1, !.got = Append(@, seg[2])]
    BY <1>7 DEF PeerRecv
  <2>2. /\ seg[2] \in Nat /\ seg[2] = 0 + Len(peer.got) + 1 /\ peer.rcv = Len(peer.got) + 1
    BY <1>1, <2>1 DEF TcpInv, PeerFits, WireFits
  <2>3. Runs(Append(peer.got, seg[2]), 0) /\ Len(Append(peer.got, seg[2])) = Len(peer.got) + 1
    BY <1>1, <2>2, RunAppend
  <2>4. Append(peer.got, seg[2]) \in Numbers
    BY <2>3, LenOfRun
  <2>5. /\ peer'.rcv = peer.rcv + 1 /\ peer'.got = Append(peer.got, seg[2])
        /\ peer'.sent = peer.sent /\ peer'.fin = peer.fin /\ peer'.state = "Est"
    BY <1>1, <2>1 DEF PeerType
  <2>6. peer' \in PeerType
    <3>1. peer.rcv + 1 \in Nat
      BY <1>1
    <3> QED BY <1>1, <2>1, <2>4, <3>1 DEF PeerType
  <2>7. PeerFits'
    BY <1>1, <2>2, <2>3, <2>5, <2>6 DEF PeerFits
  <2> QED BY <1>1, <1>2, <2>5, <2>7
<1> QED
  BY <1>3, <1>4, <1>5, <1>6, <1>7 DEF PeerSteps

LEMMA PeerStepKeeps ==
    ASSUME TcpInv, PeerSteps PROVE TcpInv'
<1>1. /\ PeerFits' /\ peer'.rcv \in Nat /\ peer'.rcv >= peer.rcv
      /\ peer'.sent \in Nat /\ peer'.sent >= peer.sent
      /\ peer.fin => peer'.fin /\ peer'.sent = peer.sent
      /\ UNCHANGED <<used, closing, tcb, wrote, got, eof, wire>>
  BY PeerKeepsFits
<1>2. /\ Len(got) \in Nat /\ Len(tcb.rx) \in Nat /\ Len(got) + Len(tcb.rx) <= peer.sent
      /\ tcb.una \in Nat /\ peer.sent \in Nat /\ peer.rcv \in Nat /\ tcb.una <= peer.rcv
  BY TcpCounts
<1>3. WireFits' /\ SlotFits' /\ UserFits'
  BY <1>1 DEF TcpInv, WireFits, SlotFits, UserFits
<1>4. Len(got) + Len(tcb.rx) <= peer'.sent /\ tcb.una <= peer'.rcv
  BY <1>1, <1>2
<1>5. Receives(tcb, Len(got), peer'.sent, peer'.fin)
  BY <1>1, <1>4 DEF TcpInv, Streams, Receives
<1>6. Sends(tcb, wrote, peer'.rcv)
  BY <1>4 DEF TcpInv, Streams, Sends
<1>7. Streams'
  BY <1>1, <1>5, <1>6 DEF TcpInv, Streams
<1> QED
  BY <1>1, <1>3, <1>7 DEF TcpInv

LEMMA TcpStepKeeps == TcpInv /\ [TcpNext]_tcpVars => TcpInv'
<1> SUFFICES ASSUME TcpInv, [TcpNext]_tcpVars PROVE TcpInv'
  OBVIOUS
<1>1. CASE ListenerSyn \/ TcpConnect
  BY <1>1, OpeningKeeps
<1>2. CASE \E s \in PeerSegments : ChildRx(s)
  BY <1>2, ChildRxKeeps
<1>3. CASE ResetRx \/ TcpCloseOther \/ GiveUp \/ LingerTimeout
  BY <1>3, ReleaseKeeps
<1>4. CASE \E n, d \in 1 .. MaxSend : TcpSend(n, d)
  BY <1>4, SendKeeps
<1>5. CASE \E n \in 1 .. MaxPeer : TcpRecv(n)
  BY <1>5, RecvKeeps
<1>6. CASE TcpCloseOpen
  BY <1>6, CloseKeeps
<1>7. CASE Retransmit
  BY <1>7, RetransmitKeeps
<1>8. CASE PeerSteps
  BY <1>8, PeerStepKeeps
<1>9. CASE Refuse \/ UNCHANGED tcpVars
  <2>1. UNCHANGED <<used, closing, tcb, wrote, got, eof, wire, peer>>
    BY <1>9 DEF Refuse, tcpVars, Sock, User
  <2> QED
    BY <2>1 DEF TcpInv, PeerFits, WireFits, SlotFits, UserFits, Streams
<1> QED
  BY <1>1, <1>2, <1>3, <1>4, <1>5, <1>6, <1>7, <1>8, <1>9 DEF TcpNext, TcpTick, PeerSteps

LEMMA TcpInvIsEnough ==
    TcpInv => TcpTypeOK /\ ReadsTheStream /\ SendsTheStream /\ NothingForgotten
<1> SUFFICES ASSUME TcpInv PROVE TcpTypeOK /\ ReadsTheStream /\ SendsTheStream /\ NothingForgotten
  OBVIOUS
<1>1. TcpTypeOK
  BY DEF TcpInv, Streams, TcbType, Receives, Sends, SlotFits, TcpTypeOK, HalfOpen
<1>2. ReadsTheStream
  <2>1. Runs(got, 0) /\ Runs(tcb.rx, Len(got)) /\ Len(got) \in Nat
    BY TcpCounts DEF TcpInv, UserFits, Streams, Receives
  <2>2. Runs(tcb.rx, 0 + Len(got)) /\ 0 \in Int
    BY <2>1
  <2>3. Runs(got \o tcb.rx, 0) /\ Len(got \o tcb.rx) = Len(got) + Len(tcb.rx)
    BY <2>1, <2>2, RunConcat
  <2>4. got \o tcb.rx = Upto(Len(got) + Len(tcb.rx))
    BY <2>3, RunIsUpto
  <2> QED BY <2>4 DEF TcpInv, UserFits, ReadsTheStream
<1>3. SendsTheStream
  BY RunIsUpto DEF TcpInv, WireFits, PeerFits, SendsTheStream
<1>4. NothingForgotten
  <2> SUFFICES ASSUME used, ~closing
               PROVE  /\ tcb.una <= peer.rcv
                      /\ wrote = (IF tcb.una = 0 THEN 0 ELSE tcb.una - 1) + Len(tcb.unacked)
    BY DEF NothingForgotten
  <2>1. tcb.state \in Open_ /\ tcb.una <= peer.rcv /\ tcb.una \in Nat /\ wrote \in Nat
        /\ Len(tcb.unacked) \in Nat
    BY TcpCounts DEF TcpInv, SlotFits
  <2>2. CASE tcb.state \in HalfOpen
    <3>1. wrote = 0 /\ tcb.unacked = <<>> /\ tcb.una <= 1
      BY <2>2 DEF TcpInv, Streams, Sends
    <3> QED BY <2>1, <3>1, EmptySeq
  <2>3. CASE tcb.state \in {"Est", "CloseWait"}
    <3>1. tcb.una >= 1 /\ tcb.una + Len(tcb.unacked) = wrote + 1
      BY <2>3 DEF TcpInv, Streams, Sends
    <3> QED BY <2>1, <3>1
  <2> QED BY <2>1, <2>2, <2>3 DEF Open_
<1> QED
  BY <1>1, <1>2, <1>3, <1>4

\* On any network, with any peer: a program reads its peer's stream in order, and what it
\* wrote is kept, as it was, until the peer has it (child_rx, tcp_send, tcp_tick).
THEOREM StreamsAreKept ==
    TcpSpec => [](TcpTypeOK /\ ReadsTheStream /\ SendsTheStream /\ NothingForgotten)
BY TcpInitFits, TcpStepKeeps, TcpInvIsEnough, PTL DEF TcpSpec

----------------------------------------------------------------------------
(* Datagrams *)

Packet == [n : Nat, proto : {"udp", "icmp"}]
Staged == Seq(Packet)

DgType == [kind : {"free", "udp", "icmp", "tcp"}, port : DgPorts \cup {0}, peer : BOOLEAN,
           rx : Staged, since : Nat]

\* Numbers that rise, all after lo and none after hi.
Rises(q, lo, hi) ==
    /\ \A k \in 1 .. Len(q) : lo < q[k].n /\ q[k].n <= hi
    /\ \A j, k \in 1 .. Len(q) : j < k => q[j].n < q[k].n

\* One socket: d is its slot, lo the number of the packet it gave last.
SocketFits(d, lo, hi) ==
    /\ d \in DgType
    /\ lo <= hi
    /\ Rises(d.rx, lo, hi)
    /\ Len(d.rx) <= StageCap
    /\ d.since <= hi
    /\ d.kind # "free" => \A k \in 1 .. Len(d.rx) : d.rx[k].n > d.since

DgInv ==
    /\ packets \in Nat
    /\ dg \in [DgSlots -> DgType]
    /\ got0 \in [DgSlots -> Nat]
    /\ \A i \in DgSlots : SocketFits(dg[i], got0[i], packets)

LEMMA StagedLen ==
    ASSUME NEW q \in Staged
    PROVE  Len(q) \in Nat /\ DOMAIN q = 1 .. Len(q) /\ \A k \in 1 .. Len(q) : q[k] \in Packet /\ q[k].n \in Nat
<1>1. Len(q) \in Nat /\ DOMAIN q = 1 .. Len(q) /\ \A k \in 1 .. Len(q) : q[k] \in Packet
  BY LenProperties, ElementOfSeq DEF Staged
<1> QED
  BY <1>1 DEF Packet

LEMMA NoneStaged == <<>> \in Staged /\ Len(<<>>) = 0 /\ \A lo, hi : Rises(<<>>, lo, hi)
<1>1. <<>> \in Staged /\ Len(<<>>) = 0
  BY EmptySeq DEF Staged
<1> QED
  BY <1>1 DEF Rises

\* A packet is staged behind the others.
LEMMA StageRises ==
    ASSUME NEW q \in Staged, NEW x \in Packet, NEW lo \in Nat, NEW hi \in Nat, Rises(q, lo, hi),
           x.n = hi + 1, lo <= hi
    PROVE  /\ Append(q, x) \in Staged /\ Len(Append(q, x)) = Len(q) + 1
           /\ Rises(Append(q, x), lo, hi + 1)
           /\ \A k \in 1 .. Len(q) + 1 : Append(q, x)[k] = x \/ (k \in 1 .. Len(q) /\ Append(q, x)[k] = q[k])
<1> DEFINE a == Append(q, x)
<1>1. Len(q) \in Nat /\ \A k \in 1 .. Len(q) : q[k].n \in Nat
  BY StagedLen
<1>2. /\ a \in Staged /\ Len(a) = Len(q) + 1
      /\ \A k \in 1 .. Len(q) : a[k] = q[k]
      /\ a[Len(q) + 1] = x
  BY AppendProperties DEF Staged
<1> HIDE DEF a
<1>3. ASSUME NEW k \in 1 .. Len(q) + 1 PROVE k \in 1 .. Len(q) \/ k = Len(q) + 1
  BY <1>1
<1>4. ASSUME NEW k \in 1 .. Len(a) PROVE lo < a[k].n /\ a[k].n <= hi + 1
  <2>1. CASE k \in 1 .. Len(q)
    <3>1. a[k].n = q[k].n /\ lo < q[k].n /\ q[k].n <= hi /\ q[k].n \in Nat
      BY <1>1, <1>2, <2>1 DEF Rises
    <3> QED BY <3>1
  <2>2. CASE k = Len(q) + 1
    BY <1>2, <2>2
  <2> QED BY <1>2, <1>3, <2>1, <2>2
<1>5. ASSUME NEW j \in 1 .. Len(a), NEW k \in 1 .. Len(a), j < k PROVE a[j].n < a[k].n
  <2>1. j \in 1 .. Len(q)
    BY <1>1, <1>2, <1>5
  <2>2. CASE k \in 1 .. Len(q)
    BY <1>2, <1>5, <2>1, <2>2 DEF Rises
  <2>3. CASE k = Len(q) + 1
    <3>1. a[j].n = q[j].n /\ q[j].n <= hi /\ q[j].n \in Nat /\ a[k].n = hi + 1
      BY <1>1, <1>2, <2>1, <2>3 DEF Rises
    <3> QED BY <3>1
  <2> QED BY <1>2, <1>3, <2>2, <2>3
<1>6. Rises(a, lo, hi + 1)
  BY <1>4, <1>5 DEF Rises
<1> QED
  BY <1>2, <1>3, <1>6 DEF a

LEMMA OneLess ==
    \A m, n : n \in Nat /\ n >= 1 /\ (m = IF 2 <= n THEN n - 2 + 1 ELSE 0) => m = n - 1
OBVIOUS

\* The oldest packet is taken.
LEMMA TakeRises ==
    ASSUME NEW q \in Staged, q # <<>>, NEW lo \in Nat, NEW hi \in Nat, Rises(q, lo, hi),
           NEW r, r = SubSeq(q, 1, 1 - 1) \o SubSeq(q, 1 + 1, Len(q))
    PROVE  /\ r \in Staged /\ Len(r) = Len(q) - 1
           /\ Rises(r, q[1].n, hi) /\ lo < q[1].n /\ q[1].n \in Nat
           /\ \A k \in 1 .. Len(r) : k + 1 \in 1 .. Len(q) /\ r[k] = q[k + 1]
<1> DEFINE e == SubSeq(q, 1, 0)
           t == SubSeq(q, 2, Len(q))
<1>1. Len(q) \in Nat /\ \A k \in 1 .. Len(q) : q[k] \in Packet /\ q[k].n \in Nat
  BY StagedLen
<1>2. Len(q) >= 1 /\ 1 \in 1 .. Len(q)
  <2>1. Len(q) # 0
    BY EmptySeq DEF Staged
  <2> QED BY <1>1, <2>1
<1>3. e \in Staged /\ Len(e) = 0
  <2>1. \A k \in 1 .. 0 : q[k] \in Packet
    OBVIOUS
  <2>2. 1 \in Int /\ 0 \in Int
    OBVIOUS
  <2> QED BY <2>1, <2>2, SubSeqProperties DEF Staged
<1>4. t \in Staged /\ Len(t) = Len(q) - 1 /\ \A k \in 1 .. Len(q) - 1 : t[k] = q[k + 1]
  <2>1. 2 \in Int /\ Len(q) \in Int /\ \A k \in 2 .. Len(q) : q[k] \in Packet
    BY <1>1
  <2>2. /\ t \in Staged /\ Len(t) = IF 2 <= Len(q) THEN Len(q) - 2 + 1 ELSE 0
        /\ \A k \in 1 .. Len(q) - 2 + 1 : t[k] = q[2 + k - 1]
    BY <2>1, SubSeqProperties DEF Staged
  <2> HIDE DEF t
  <2>3. Len(t) = Len(q) - 1
    <3>1. Len(t) = IF 2 <= Len(q) THEN Len(q) - 2 + 1 ELSE 0
      BY <2>2
    <3>2. Len(q) \in Nat /\ Len(q) >= 1
      BY <1>1, <1>2
    <3> QED BY <3>1, <3>2, OneLess
  <2>4. ASSUME NEW k \in 1 .. Len(q) - 1 PROVE t[k] = q[k + 1]
    <3>1. 2 + k - 1 = k + 1 /\ k \in 1 .. Len(q) - 2 + 1
      BY <1>1
    <3>2. t[k] = q[2 + k - 1]
      BY <2>2, <3>1
    <3> QED BY <3>1, <3>2
  <2> QED BY <2>2, <2>3, <2>4
<1>5. r = e \o t
  BY DEF e, t
<1> HIDE DEF e, t
<1>6. /\ r \in Staged /\ Len(r) = Len(q) - 1
      /\ \A k \in 1 .. Len(q) - 1 : r[k] = q[k + 1]
  <2>1. /\ r \in Staged /\ Len(r) = Len(e) + Len(t)
        /\ \A k \in 1 .. Len(e) + Len(t) : r[k] = IF k <= Len(e) THEN e[k] ELSE t[k - Len(e)]
    BY <1>3, <1>4, <1>5, ConcatProperties DEF Staged
  <2>2. Len(e) + Len(t) = Len(q) - 1 /\ Len(q) - 1 \in Nat
    BY <1>1, <1>2, <1>3, <1>4
  <2>3. ASSUME NEW k \in 1 .. Len(q) - 1 PROVE r[k] = q[k + 1]
    <3>1. ~(k <= Len(e)) /\ k - Len(e) = k /\ k \in 1 .. Len(e) + Len(t)
      BY <1>3, <2>2
    <3>2. r[k] = t[k]
      BY <2>1, <3>1
    <3> QED BY <1>4, <3>2
  <2> QED BY <2>1, <2>2, <2>3
<1>7. ASSUME NEW k \in 1 .. Len(r) PROVE k + 1 \in 1 .. Len(q) /\ r[k] = q[k + 1] /\ 1 < k + 1
  BY <1>1, <1>6
<1>8. lo < q[1].n /\ q[1].n \in Nat
  BY <1>1, <1>2 DEF Rises
<1>9. Rises(r, q[1].n, hi)
  <2>1. ASSUME NEW k \in 1 .. Len(r) PROVE q[1].n < r[k].n /\ r[k].n <= hi
    BY <1>2, <1>7, <2>1 DEF Rises
  <2>2. ASSUME NEW j \in 1 .. Len(r), NEW k \in 1 .. Len(r), j < k PROVE r[j].n < r[k].n
    <3>1. /\ j + 1 \in 1 .. Len(q) /\ k + 1 \in 1 .. Len(q) /\ r[j] = q[j + 1] /\ r[k] = q[k + 1]
      BY <1>7
    <3>2. j + 1 < k + 1
      BY <1>1, <1>6, <2>2
    <3>3. q[j + 1].n < q[k + 1].n
      BY <3>1, <3>2 DEF Rises
    <3> QED BY <3>1, <3>3
  <2> QED BY <2>1, <2>2 DEF Rises
<1> QED
  BY <1>6, <1>7, <1>8, <1>9

LEMMA DgInitFits == DgInit => DgInv
<1> SUFFICES ASSUME DgInit PROVE DgInv
  OBVIOUS
<1>1. /\ Bare \in DgType /\ Bare.rx = <<>> /\ Bare.since = 0 /\ Bare.kind = "free"
  BY NoneStaged DEF Bare, DgType
<1>2. 0 <= StageCap
  BY DatagramsAssumption
<1>3. SocketFits(Bare, 0, 0)
  BY <1>1, <1>2, NoneStaged DEF SocketFits
<1> QED
  BY <1>1, <1>3 DEF DgInit, DgInv

\* A slot that changes, while packets stay.
LEMMA OneSocket ==
    ASSUME DgInv, NEW i \in DgSlots, NEW d, NEW l \in Nat, SocketFits(d, l, packets),
           dg' = [dg EXCEPT ![i] = d], got0' = [got0 EXCEPT ![i] = l], packets' = packets
    PROVE  DgInv'
<1>1. d \in DgType
  BY DEF SocketFits
<1>2. ASSUME NEW j \in DgSlots PROVE SocketFits(dg'[j], got0'[j], packets)
  BY <1>1 DEF DgInv
<1> QED
  BY <1>1, <1>2 DEF DgInv

\* What a socket has given is older than what arrives: a packet arrives.
LEMMA Arrived ==
    ASSUME DgInv, packets' = packets + 1, got0' = got0,
           \/ dg' = dg
           \/ \E i \in DgSlots, x \in Packet : x.n = packets + 1 /\ Room(i)
                 /\ dg' = [dg EXCEPT ![i].rx = Append(@, x)]
    PROVE  DgInv'
<1>1. packets \in Nat /\ packets + 1 \in Nat /\ packets <= packets + 1
  BY DEF DgInv
<1>2. ASSUME NEW j \in DgSlots PROVE SocketFits(dg[j], got0[j], packets + 1)
  <2>1. /\ dg[j] \in DgType /\ dg[j].rx \in Staged /\ dg[j].since \in Nat
        /\ SocketFits(dg[j], got0[j], packets)
    BY DEF DgInv, DgType
  <2>2. \A k \in 1 .. Len(dg[j].rx) : dg[j].rx[k].n \in Nat
    BY <2>1, StagedLen
  <2>3. Rises(dg[j].rx, got0[j], packets + 1)
    BY <1>1, <2>1, <2>2 DEF SocketFits, Rises
  <2>4. dg[j].since <= packets + 1 /\ got0[j] <= packets + 1
    <3>1. got0[j] \in Nat /\ got0[j] <= packets /\ dg[j].since <= packets
      BY <2>1 DEF SocketFits, DgInv
    <3> QED BY <1>1, <2>1, <3>1
  <2> QED BY <2>1, <2>3, <2>4 DEF SocketFits
<1>3. CASE dg' = dg
  BY <1>1, <1>2, <1>3 DEF DgInv
<1>4. ASSUME NEW i \in DgSlots, NEW x \in Packet, x.n = packets + 1, Room(i),
             dg' = [dg EXCEPT ![i].rx = Append(@, x)]
      PROVE  DgInv'
  <2> DEFINE d == dg[i]
             a == Append(d.rx, x)
             e == [d EXCEPT !.rx = a]
  <2>1. /\ d \in DgType /\ d.rx \in Staged /\ d.since \in Nat /\ SocketFits(d, got0[i], packets)
        /\ got0[i] \in Nat
    BY DEF DgInv, DgType
  <2>2. /\ a \in Staged /\ Len(a) = Len(d.rx) + 1 /\ Rises(a, got0[i], packets + 1)
        /\ \A k \in 1 .. Len(d.rx) + 1 : a[k] = x \/ (k \in 1 .. Len(d.rx) /\ a[k] = d.rx[k])
    <3>1. Rises(d.rx, got0[i], packets) /\ got0[i] <= packets
      BY <2>1 DEF SocketFits
    <3> HIDE DEF d
    <3> QED BY <1>1, <1>4, <2>1, <3>1, StageRises
  <2>3. dg' = [dg EXCEPT ![i] = e]
    BY <1>4 DEF e, a
  <2> HIDE DEF a
  <2>4. e \in DgType /\ e.rx = a /\ e.since = d.since /\ e.kind = d.kind
    BY <2>1, <2>2 DEF DgType
  <2>5. Len(a) <= StageCap
    <3>1. Len(d.rx) < StageCap /\ Len(d.rx) \in Nat /\ StageCap \in Nat
      BY <1>4, <2>1, StagedLen, DatagramsAssumption DEF Room
    <3> QED BY <2>2, <3>1
  <2>6. d.since <= packets /\ d.since <= packets + 1 /\ got0[i] <= packets + 1
    BY <1>1, <2>1 DEF SocketFits
  <2>7. d.kind # "free" => \A k \in 1 .. Len(a) : a[k].n > d.since
    <3>1. x.n > d.since
      BY <1>1, <1>4, <2>1, <2>6
    <3> QED BY <2>1, <2>2, <3>1 DEF SocketFits
  <2> HIDE DEF d, e
  <2>8. SocketFits(e, got0[i], packets + 1)
    BY <2>2, <2>4, <2>5, <2>6, <2>7 DEF SocketFits
  <2>9. ASSUME NEW j \in DgSlots PROVE SocketFits(dg'[j], got0[j], packets + 1)
    <3>1. dg \in [DgSlots -> DgType]
      BY DEF DgInv
    <3> QED BY <1>2, <2>3, <2>8, <3>1
  <2> QED
    BY <1>1, <2>3, <2>4, <2>9 DEF DgInv
<1> QED
  BY <1>3, <1>4

LEMMA StageIs ==
    ASSUME DgInv, NEW i \in DgSlots, NEW proto \in {"udp", "icmp"}, Stage(i, proto), Arrives
    PROVE  \/ dg' = dg
           \/ \E x \in Packet : x.n = packets + 1 /\ Room(i)
                                /\ dg' = [dg EXCEPT ![i].rx = Append(@, x)]
<1> DEFINE x == [n |-> packets + 1, proto |-> proto]
<1>1. x \in Packet /\ x.n = packets + 1
  BY DEF DgInv, Packet
<1>2. CASE ~Room(i)
  BY <1>2 DEF Stage
<1>3. CASE Room(i)
  <2>1. dg' = [dg EXCEPT ![i].rx = Append(@, x)]
    BY <1>3 DEF Stage
  <2> QED BY <1>1, <1>3, <2>1
<1> QED
  BY <1>2, <1>3

\* What a call does to its own socket.
LEMMA DgCallIs ==
    ASSUME DgInv, NEW i \in DgSlots,
           \/ DgClose(i) \/ DgConnect(i) \/ DgRecv(i)
           \/ \E k \in {"udp", "icmp", "tcp"}, port \in DgPorts : DgOpen(i, k, port)
    PROVE  \E d, l : /\ l \in Nat /\ SocketFits(d, l, packets)
                     /\ dg' = [dg EXCEPT ![i] = d] /\ got0' = [got0 EXCEPT ![i] = l]
                     /\ packets' = packets
                     /\ l # got0[i] /\ l # 0 => l > got0[i]
<1> DEFINE D == dg[i]
<1>1. /\ D \in DgType /\ D.rx \in Staged /\ D.since \in Nat /\ packets \in Nat /\ got0[i] \in Nat
      /\ SocketFits(D, got0[i], packets) /\ dg \in [DgSlots -> DgType] /\ got0 \in [DgSlots -> Nat]
  BY DEF DgInv, DgType
<1>2. 0 <= StageCap /\ StageCap \in Nat
  BY DatagramsAssumption
<1>3. CASE DgClose(i)
  <2> DEFINE q == IF D.kind = "tcp" THEN D.rx ELSE <<>>
             d == [D EXCEPT !.kind = "free", !.rx = q]
  <2>1. dg' = [dg EXCEPT ![i] = d] /\ got0' = [got0 EXCEPT ![i] = got0[i]] /\ packets' = packets
    BY <1>1, <1>3 DEF DgClose
  <2>2. q \in Staged /\ Rises(q, got0[i], packets) /\ Len(q) <= StageCap
    BY <1>1, <1>2, NoneStaged DEF SocketFits
  <2> HIDE DEF q
  <2>3. d \in DgType /\ d.kind = "free" /\ d.rx = q /\ d.since = D.since
    BY <1>1, <2>2 DEF DgType
  <2>4. D.since <= packets /\ got0[i] <= packets
    BY <1>1 DEF SocketFits
  <2> HIDE DEF d, D
  <2>5. SocketFits(d, got0[i], packets)
    BY <2>2, <2>3, <2>4 DEF SocketFits
  <2> QED BY <1>1, <2>1, <2>5
<1>4. CASE DgConnect(i)
  <2> DEFINE d == [D EXCEPT !.peer = TRUE]
  <2>1. dg' = [dg EXCEPT ![i] = d] /\ got0' = [got0 EXCEPT ![i] = got0[i]] /\ packets' = packets
    BY <1>1, <1>4 DEF DgConnect
  <2>2. d \in DgType /\ d.kind = D.kind /\ d.rx = D.rx /\ d.since = D.since
    BY <1>1 DEF DgType
  <2> HIDE DEF d, D
  <2>3. SocketFits(d, got0[i], packets)
    BY <1>1, <2>2 DEF SocketFits
  <2> QED BY <1>1, <2>1, <2>3
<1>5. CASE \E k \in {"udp", "icmp", "tcp"}, port \in DgPorts : DgOpen(i, k, port)
  <2>1. PICK k \in {"udp", "icmp", "tcp"}, port \in DgPorts : DgOpen(i, k, port)
    BY <1>5
  <2> DEFINE d == DgOpened(i, k, port)
  <2>2. dg' = [dg EXCEPT ![i] = d] /\ got0' = [got0 EXCEPT ![i] = 0] /\ packets' = packets
    BY <2>1 DEF DgOpen
  <2>3. d \in DgType /\ d.rx = <<>> /\ d.since = packets
    BY <1>1, NoneStaged DEF DgType, DgOpened
  <2> HIDE DEF d, D
  <2>4. 0 <= packets /\ packets <= packets /\ 0 \in Nat
    BY <1>1
  <2>5. SocketFits(d, 0, packets)
    BY <1>2, <2>3, <2>4, NoneStaged DEF SocketFits
  <2> QED BY <2>2, <2>4, <2>5
<1>6. CASE DgRecv(i)
  <2> DEFINE q == D.rx
             r == SubSeq(q, 1, 1 - 1) \o SubSeq(q, 1 + 1, Len(q))
             d == [D EXCEPT !.rx = r]
             l == q[1].n
  <2>1. /\ q # <<>> /\ dg' = [dg EXCEPT ![i] = d] /\ got0' = [got0 EXCEPT ![i] = l]
        /\ packets' = packets
    BY <1>6 DEF DgRecv, NextOf
  <2>2. Rises(q, got0[i], packets) /\ Len(q) <= StageCap /\ D.since <= packets
    BY <1>1 DEF SocketFits
  <2>3. /\ r \in Staged /\ Len(r) = Len(q) - 1
        /\ Rises(r, l, packets) /\ got0[i] < l /\ l \in Nat
        /\ \A k \in 1 .. Len(r) : k + 1 \in 1 .. Len(q) /\ r[k] = q[k + 1]
    <3>1. q \in Staged /\ got0[i] \in Nat /\ packets \in Nat
      BY <1>1
    <3> HIDE DEF q
    <3> QED BY <2>1, <2>2, <3>1, TakeRises
  <2>4. Len(q) \in Nat /\ Len(r) <= StageCap /\ l <= packets
    <3>1. Len(q) \in Nat
      BY <1>1, StagedLen
    <3>2. Len(r) <= StageCap
      BY <1>2, <2>2, <2>3, <3>1
    <3>3. 1 \in 1 .. Len(q)
      <4>1. Len(q) # 0
        BY <1>1, <2>1, EmptySeq DEF Staged
      <4> QED BY <3>1, <4>1
    <3> QED BY <2>2, <3>1, <3>2, <3>3 DEF Rises
  <2> HIDE DEF r
  <2>5. d \in DgType /\ d.kind = D.kind /\ d.rx = r /\ d.since = D.since
    BY <1>1, <2>3 DEF DgType
  <2>6. D.kind # "free" => \A k \in 1 .. Len(r) : r[k].n > D.since
    BY <1>1, <2>3 DEF SocketFits
  <2> HIDE DEF d, q, D
  <2>7. SocketFits(d, l, packets)
    BY <2>2, <2>3, <2>4, <2>5, <2>6 DEF SocketFits
  <2>8. l > got0[i]
    <3> HIDE DEF l
    <3> QED BY <1>1, <2>3
  <2> QED BY <2>1, <2>3, <2>7, <2>8
<1> QED
  BY <1>3, <1>4, <1>5, <1>6

DgSteps ==
    \/ \E i \in DgSlots : DgClose(i) \/ DgConnect(i) \/ DgRecv(i)
                          \/ \E k \in {"udp", "icmp", "tcp"}, port \in DgPorts : DgOpen(i, k, port)
    \/ \E i \in DgSlots : DgSend(i)
    \/ \E port \in DgPorts : UdpRx(port) \/ EchoReplyRx(port)
    \/ EchoRequestRx

LEMMA DgStepIs == DgNext => DgSteps
BY DEF DgNext, DgSteps

LEMMA DgStepKeeps ==
    ASSUME DgInv, [DgNext]_dgVars
    PROVE  /\ DgInv'
           /\ \A i \in DgSlots : got0'[i] # got0[i] /\ got0'[i] # 0 => got0'[i] > got0[i]
<1> DEFINE InOrder == \A i \in DgSlots : got0'[i] # got0[i] /\ got0'[i] # 0 => got0'[i] > got0[i]
<1>1. CASE \E i \in DgSlots : DgClose(i) \/ DgConnect(i) \/ DgRecv(i)
                     \/ \E k \in {"udp", "icmp", "tcp"}, port \in DgPorts : DgOpen(i, k, port)
  <2>1. PICK i \in DgSlots : DgClose(i) \/ DgConnect(i) \/ DgRecv(i)
                     \/ \E k \in {"udp", "icmp", "tcp"}, port \in DgPorts : DgOpen(i, k, port)
    BY <1>1
  <2>2. PICK d, l : /\ l \in Nat /\ SocketFits(d, l, packets)
                    /\ dg' = [dg EXCEPT ![i] = d] /\ got0' = [got0 EXCEPT ![i] = l]
                    /\ packets' = packets
                    /\ l # got0[i] /\ l # 0 => l > got0[i]
    BY <2>1, DgCallIs
  <2>3. DgInv'
    BY <2>2, OneSocket
  <2>4. got0 \in [DgSlots -> Nat]
    BY DEF DgInv
  <2> QED BY <2>2, <2>3, <2>4
<1>2. CASE (\E i \in DgSlots : DgSend(i)) \/ UNCHANGED dgVars
  <2>1. UNCHANGED <<dg, packets, got0>>
    BY <1>2 DEF DgSend, dgVars
  <2> QED BY <2>1 DEF DgInv
<1>3. CASE (\E port \in DgPorts : UdpRx(port) \/ EchoReplyRx(port)) \/ EchoRequestRx
  <2>1. Arrives /\ packets' = packets + 1 /\ got0' = got0
    BY <1>3 DEF UdpRx, EchoReplyRx, EchoRequestRx, Arrives
  <2>2. CASE dg' = dg
    BY <2>1, <2>2, Arrived
  <2>3. CASE dg' # dg
    <3>1. \E i \in DgSlots, proto \in {"udp", "icmp"} : Stage(i, proto)
      <4>1. CASE EchoRequestRx
        BY <2>3, <4>1 DEF EchoRequestRx
      <4>2. ASSUME NEW port \in DgPorts, UdpRx(port) PROVE <3>1!:
        <5>1. /\ InUseBy(port) # {} /\ InUseBy(port) \subseteq DgSlots
              /\ Stage(CHOOSE i \in InUseBy(port) : TRUE, "udp")
          BY <2>3, <4>2 DEF UdpRx, InUseBy
        <5>2. (CHOOSE i \in InUseBy(port) : TRUE) \in DgSlots
          BY <5>1
        <5> QED BY <5>1, <5>2
      <4>3. ASSUME NEW id \in DgPorts, EchoReplyRx(id) PROVE <3>1!:
        <5> DEFINE for == {i \in InUseBy(id) : dg[i].kind = "icmp"}
        <5>1. for # {} /\ for \subseteq DgSlots /\ Stage(CHOOSE i \in for : TRUE, "icmp")
          BY <2>3, <4>3 DEF EchoReplyRx, InUseBy
        <5>2. (CHOOSE i \in for : TRUE) \in DgSlots
          BY <5>1
        <5> QED BY <5>1, <5>2
      <4> QED BY <1>3, <4>1, <4>2, <4>3
    <3>2. PICK i \in DgSlots, proto \in {"udp", "icmp"} : Stage(i, proto)
      BY <3>1
    <3>3. \E x \in Packet : x.n = packets + 1 /\ Room(i)
                            /\ dg' = [dg EXCEPT ![i].rx = Append(@, x)]
      BY <2>1, <2>3, <3>2, StageIs
    <3> QED BY <2>1, <3>3, Arrived
  <2> QED BY <2>2, <2>3
<1> QED
  BY <1>1, <1>2, <1>3, DgStepIs DEF DgSteps

LEMMA DgInvIsEnough == DgInv => StagingBounded /\ NothingOfTheLastOwner
<1> SUFFICES ASSUME DgInv PROVE StagingBounded /\ NothingOfTheLastOwner
  OBVIOUS
<1>1. \A i \in DgSlots : dg[i].rx \in Staged /\ SocketFits(dg[i], got0[i], packets)
  BY DEF DgInv, DgType
<1>2. \A i \in DgSlots : DOMAIN dg[i].rx = 1 .. Len(dg[i].rx)
  BY <1>1, StagedLen
<1> QED
  BY <1>1, <1>2 DEF SocketFits, StagingBounded, NothingOfTheLastOwner

\* A socket is given what arrived for it since it was opened, in the order of arrival, and
\* no more is staged than fits (parse_frame, sock_recv, sock_open_kind).
THEOREM DatagramsHold == DgSpec => [](StagingBounded /\ NothingOfTheLastOwner) /\ ReceivedInOrder
<1>1. DgInv /\ [DgNext]_dgVars => DgInv'
  BY DgStepKeeps
<1>2. DgInv /\ [DgNext]_dgVars =>
        [\A i \in DgSlots : got0'[i] # got0[i] /\ got0'[i] # 0 => got0'[i] > got0[i]]_dgVars
  BY DgStepKeeps
<1> QED
  BY <1>1, <1>2, DgInitFits, DgInvIsEnough, PTL DEF DgSpec, ReceivedInOrder

----------------------------------------------------------------------------
(* Sockets: what is true of a slot, and of all of them                     *)

SlotStates == {"Closed", "Listen", "SynSent", "SynRcvd", "Est", "CloseWait", "FinW1", "LastAck"}
ChildStates == {"SynRcvd", "Est", "CloseWait", "FinW1", "LastAck"}

SlotRecs == [used : BOOLEAN, kind : {"udp", "tcp"}, closing : BOOLEAN, lport : Nat,
             state : SlotStates, parent : 0 .. NSock, accepted : BOOLEAN]

\* A free slot is as it was at first; only a connection waits for its peer to end;
\* a child is a connection.
EntryFits(s) ==
    /\ ~s.used => s = FreeSlot
    /\ s.kind = "udp" => s.state = "Closed"
    /\ s.closing => s.used /\ s.kind = "tcp" /\ s.state \in {"FinW1", "LastAck"}
    /\ s.parent # NoSlot => s.state \in ChildStates

SlotType == {s \in SlotRecs : EntryFits(s)}

HoldType == [Owners -> [Fds -> {Vacant} \cup [slot : SlotIds, mine : BOOLEAN]]]

Excused(s) == s.closing \/ (s.parent # NoSlot /\ ~s.accepted)

Named(i) == \E p \in alive, f \in Fds : hold[p][f].slot = i

OneChild == \A i, j \in SlotIds :
    /\ sock[i].used /\ ~sock[i].closing /\ ~sock[i].accepted
    /\ sock[j].used /\ ~sock[j].closing /\ ~sock[j].accepted
    /\ sock[i].parent = sock[j].parent /\ sock[i].parent # NoSlot
    => i = j

NoneUnnamed == \A i \in SlotIds : sock[i].used => Excused(sock[i]) \/ Named(i)

Tables ==
    /\ sock \in [SlotIds -> SlotType]
    /\ hold \in HoldType
    /\ peek \in [Owners -> 0 .. NSock]
    /\ gen \in [SlotIds -> {0, 1}]
    /\ alive \subseteq Owners
    /\ \A p \in Owners : peek[p] # NoSlot => p \in alive

SockInv == Tables /\ PortsDistinct /\ OneChild /\ NoneUnnamed

LEMMA SockNumbers ==
    /\ NSock \in Nat /\ NFds \in Nat /\ SlotIds \subseteq Nat \ {0} /\ Fds \subseteq Nat
    /\ Fixed \subseteq Nat /\ Ephemeral \subseteq Nat
    /\ 0 \in 0 .. NSock /\ SlotIds \subseteq 0 .. NSock /\ (0 .. NSock) \ {0} = SlotIds
    /\ owner0 \in Owners
BY SocketsAssumption DEF SlotIds, Fds

\* A set of numbers that is not empty has a first one.
LEMMA FirstIs == ASSUME NEW S, S \subseteq Nat, S # {} PROVE FirstOf(S) \in S
<1> DEFINE R == OpToRel(<, Nat)
<1>1. \E i \in S : \A j \in S : i <= j
  <2>1. PICK i \in S : \A j \in S : <<j, i>> \notin R
    BY NatLessThanWellFounded, WFMin
  <2>2. \A j \in S : ~(j < i)
    BY <2>1 DEF OpToRel
  <2> QED BY <2>2
<1> QED BY <1>1 DEF FirstOf

LEMMA SlotIs ==
    ASSUME NEW s \in SlotType
    PROVE  /\ s.used \in BOOLEAN /\ s.closing \in BOOLEAN /\ s.accepted \in BOOLEAN
           /\ s.kind \in {"udp", "tcp"} /\ s.lport \in Nat /\ s.state \in SlotStates
           /\ s.parent \in 0 .. NSock
           /\ EntryFits(s)
BY DEF SlotType, SlotRecs

LEMMA FreeFits == FreeSlot \in SlotType /\ ~FreeSlot.used
BY SockNumbers DEF FreeSlot, SlotType, SlotRecs, EntryFits, SlotStates, NoSlot

LEMMA SockInitFits == SockInit => SockInv
<1> SUFFICES ASSUME SockInit PROVE SockInv
  OBVIOUS
<1>1. sock \in [SlotIds -> SlotType] /\ \A i \in SlotIds : ~sock[i].used
  BY FreeFits DEF SockInit
<1>2. Tables
  BY <1>1, SockNumbers DEF SockInit, Tables, HoldType, NoSlot
<1>3. PortsDistinct /\ OneChild /\ NoneUnnamed
  BY <1>1 DEF PortsDistinct, OneChild, NoneUnnamed, Used
<1> QED BY <1>2, <1>3 DEF SockInv

----------------------------------------------------------------------------
(* Sockets: a step makes slots less, or one slot more                      *)

\* What a slot may become without a word to the others: free, or closing, or the same
\* socket, no less accepted if it is a child.
Wanes(s, t) ==
    t.used => /\ s.used /\ t.lport = s.lport /\ t.parent = s.parent
              /\ t.closing \/ t.parent = NoSlot \/ (~s.closing /\ (s.accepted => t.accepted))

LEMMA Waning ==
    ASSUME SockInv, sock' \in [SlotIds -> SlotType],
           \A i \in SlotIds : Wanes(sock[i], sock'[i])
    PROVE  PortsDistinct' /\ OneChild'
<1>1. sock \in [SlotIds -> SlotType] /\ PortsDistinct /\ OneChild
  BY DEF SockInv, Tables
<1>2. PortsDistinct'
  <2>1. SUFFICES ASSUME NEW i \in SlotIds, NEW j \in SlotIds, sock'[i].used, sock'[j].used, i # j,
                        sock'[i].lport = sock'[j].lport
                 PROVE  sock'[i].parent # NoSlot \/ sock'[j].parent # NoSlot
    BY DEF PortsDistinct, Used
  <2>2. /\ sock[i].used /\ sock'[i].lport = sock[i].lport /\ sock'[i].parent = sock[i].parent
        /\ sock[j].used /\ sock'[j].lport = sock[j].lport /\ sock'[j].parent = sock[j].parent
    BY <2>1 DEF Wanes
  <2> QED BY <1>1, <2>1, <2>2 DEF PortsDistinct, Used
<1>3. OneChild'
  <2>1. SUFFICES ASSUME NEW i \in SlotIds, NEW j \in SlotIds,
                        sock'[i].used, ~sock'[i].closing, ~sock'[i].accepted,
                        sock'[j].used, ~sock'[j].closing, ~sock'[j].accepted,
                        sock'[i].parent = sock'[j].parent, sock'[i].parent # NoSlot
                 PROVE  i = j
    BY DEF OneChild
  <2>2. /\ sock[i].used /\ sock'[i].parent = sock[i].parent /\ ~sock[i].closing /\ ~sock[i].accepted
        /\ sock[j].used /\ sock'[j].parent = sock[j].parent /\ ~sock[j].closing /\ ~sock[j].accepted
    BY <2>1 DEF Wanes
  <2> QED BY <1>1, <2>1, <2>2 DEF OneChild
<1> QED BY <1>2, <1>3

\* One slot becomes more: a socket whose port no other has, or a child where none waits.
Waxes(i, t) ==
    \/ t.parent = NoSlot /\ \A j \in SlotIds \ {i} : sock[j].used => sock[j].lport # t.lport
    \/ t.parent \in SlotIds /\ Waiting(t.parent) = {}

LEMMA Waxing ==
    ASSUME SockInv, NEW i \in SlotIds, NEW t \in SlotType, Waxes(i, t),
           sock' = [sock EXCEPT ![i] = t]
    PROVE  PortsDistinct' /\ OneChild'
<1>1. sock \in [SlotIds -> SlotType] /\ PortsDistinct /\ OneChild
  BY DEF SockInv, Tables
<1>2. sock'[i] = t /\ \A j \in SlotIds : j # i => sock'[j] = sock[j]
  BY <1>1
<1>3. PortsDistinct'
  <2>1. SUFFICES ASSUME NEW j \in SlotIds, NEW k \in SlotIds, sock'[j].used, sock'[k].used, j # k,
                        sock'[j].lport = sock'[k].lport
                 PROVE  sock'[j].parent # NoSlot \/ sock'[k].parent # NoSlot
    BY DEF PortsDistinct, Used
  <2>2. CASE j # i /\ k # i
    BY <1>1, <1>2, <2>1, <2>2 DEF PortsDistinct, Used
  <2>3. CASE j = i
    <3>1. k # i /\ sock'[k] = sock[k]
      BY <1>2, <2>1, <2>3
    <3>2. t.parent # NoSlot
      BY <1>2, <2>1, <2>3, <3>1, SockNumbers DEF Waxes, NoSlot
    <3> QED BY <1>2, <2>3, <3>2
  <2>4. CASE k = i
    <3>1. j # i /\ sock'[j] = sock[j]
      BY <1>2, <2>1, <2>4
    <3>2. t.parent # NoSlot
      BY <1>2, <2>1, <2>4, <3>1, SockNumbers DEF Waxes, NoSlot
    <3> QED BY <1>2, <2>4, <3>2
  <2> QED BY <2>2, <2>3, <2>4
<1>4. OneChild'
  <2>1. SUFFICES ASSUME NEW j \in SlotIds, NEW k \in SlotIds,
                        sock'[j].used, ~sock'[j].closing, ~sock'[j].accepted,
                        sock'[k].used, ~sock'[k].closing, ~sock'[k].accepted,
                        sock'[j].parent = sock'[k].parent, sock'[j].parent # NoSlot
                 PROVE  j = k
    BY DEF OneChild
  <2>2. CASE j # i /\ k # i
    BY <1>1, <1>2, <2>1, <2>2 DEF OneChild
  <2>3. CASE j = i /\ k # i
    <3>1. sock'[k] = sock[k] /\ t.parent # NoSlot /\ sock[k].parent = t.parent
      BY <1>2, <2>1, <2>3
    <3>2. k \in Waiting(t.parent)
      BY <1>2, <2>1, <3>1 DEF Waiting, Used
    <3> QED BY <3>1, <3>2 DEF Waxes
  <2>4. CASE k = i /\ j # i
    <3>1. sock'[j] = sock[j] /\ t.parent # NoSlot /\ sock[j].parent = t.parent
      BY <1>2, <2>1, <2>4
    <3>2. j \in Waiting(t.parent)
      BY <1>2, <2>1, <3>1 DEF Waiting, Used
    <3> QED BY <3>1, <3>2 DEF Waxes
  <2> QED BY <2>2, <2>3, <2>4
<1> QED BY <1>3, <1>4

----------------------------------------------------------------------------
(* Sockets: descriptors                                                    *)

LEMMA HoldIs ==
    ASSUME NEW h \in HoldType, NEW p \in Owners, NEW f \in Fds
    PROVE  /\ h[p][f] = Vacant \/ (h[p][f].slot \in SlotIds /\ h[p][f] # Vacant)
           /\ h[p][f] = Vacant => h[p][f].slot = NoSlot
           /\ h[p][f].slot \in 0 .. NSock
<1>1. h[p][f] \in {Vacant} \cup [slot : SlotIds, mine : BOOLEAN]
  BY DEF HoldType
<1>2. Vacant.slot = NoSlot /\ NoSlot = 0
  BY DEF Vacant, NoSlot
<1>3. CASE h[p][f] \in [slot : SlotIds, mine : BOOLEAN]
  <2>1. h[p][f].slot \in SlotIds
    BY <1>3
  <2> QED BY <1>2, <2>1, SockNumbers
<1> QED BY <1>1, <1>2, <1>3, SockNumbers

LEMMA TakenFits ==
    ASSUME hold \in HoldType, NEW i \in SlotIds
    PROVE  /\ Taken(i) \in HoldType
           /\ \A p \in Owners, f \in Fds : /\ Taken(i)[p][f].slot = hold[p][f].slot
                                           /\ Taken(i)[p][f] = Vacant <=> hold[p][f] = Vacant
<1>1. \A p \in Owners, f \in Fds : /\ hold[p][f] \in {Vacant} \cup [slot : SlotIds, mine : BOOLEAN]
                                   /\ Slot(p, f) = hold[p][f].slot
  BY DEF HoldType, Slot
<1>2. \A p \in Owners, f \in Fds :
        Taken(i)[p][f] = IF Slot(p, f) = i THEN [slot |-> i, mine |-> FALSE] ELSE hold[p][f]
  BY DEF Taken
<1>3. \A p \in Owners, f \in Fds :
        /\ Taken(i)[p][f] \in {Vacant} \cup [slot : SlotIds, mine : BOOLEAN]
        /\ Taken(i)[p][f].slot = hold[p][f].slot
        /\ Taken(i)[p][f] = Vacant <=> hold[p][f] = Vacant
  <2> SUFFICES ASSUME NEW p \in Owners, NEW f \in Fds
               PROVE  /\ Taken(i)[p][f] \in {Vacant} \cup [slot : SlotIds, mine : BOOLEAN]
                      /\ Taken(i)[p][f].slot = hold[p][f].slot
                      /\ Taken(i)[p][f] = Vacant <=> hold[p][f] = Vacant
    OBVIOUS
  <2>1. CASE Slot(p, f) = i
    <3>1. hold[p][f].slot = i /\ Taken(i)[p][f] = [slot |-> i, mine |-> FALSE]
      BY <1>1, <1>2, <2>1
    <3>2. i # Vacant.slot
      BY SockNumbers DEF Vacant, NoSlot
    <3>3. hold[p][f] # Vacant /\ Taken(i)[p][f] # Vacant
      BY <3>1, <3>2
    <3> QED BY <3>1, <3>3
  <2>2. CASE Slot(p, f) # i
    BY <1>1, <1>2, <2>2
  <2> QED BY <2>1, <2>2
<1>4. Taken(i) \in HoldType
  BY <1>3 DEF HoldType, Taken
<1> QED BY <1>3, <1>4

\* A new descriptor is in a place that was vacant.
LEMMA HoldsFits ==
    ASSUME hold \in HoldType, NEW h \in HoldType, NEW p \in Owners, NEW i \in SlotIds,
           FreeFds(p) # {},
           \A q \in Owners, f \in Fds : h[q][f].slot = hold[q][f].slot
    PROVE  /\ Holds(h, p, i) \in HoldType
           /\ \E f \in Fds : Holds(h, p, i)[p][f].slot = i
           /\ \A q \in Owners, f \in Fds : hold[q][f] # Vacant =>
                 Holds(h, p, i)[q][f].slot = hold[q][f].slot
           /\ \A q \in Owners, f \in Fds : Holds(h, p, i)[q][f] # h[q][f] =>
                 Holds(h, p, i)[q][f] # Vacant
<1> DEFINE f0 == FirstOf(FreeFds(p))
           e == [slot |-> i, mine |-> TRUE]
<1>1. FreeFds(p) \subseteq Nat /\ f0 \in FreeFds(p)
  <2>1. FreeFds(p) \subseteq Nat
    BY SockNumbers DEF FreeFds
  <2> QED BY <2>1, FirstIs
<1>2. f0 \in Fds /\ hold[p][f0] = Vacant
  BY <1>1 DEF FreeFds
<1>3. Holds(h, p, i) = [h EXCEPT ![p][f0] = e]
  BY DEF Holds
<1>4. e \in {Vacant} \cup [slot : SlotIds, mine : BOOLEAN] /\ e.slot = i /\ e # Vacant
  BY SockNumbers DEF Vacant, NoSlot
<1> HIDE DEF f0, e
<1>5. /\ Holds(h, p, i) \in HoldType /\ Holds(h, p, i)[p][f0] = e
      /\ \A q \in Owners, f \in Fds : q # p \/ f # f0 => Holds(h, p, i)[q][f] = h[q][f]
  BY <1>2, <1>3, <1>4 DEF HoldType
<1> QED
  BY <1>2, <1>4, <1>5

----------------------------------------------------------------------------
(* Sockets: each step                                                      *)

LEMMA CandidateIs ==
    ASSUME sock \in [SlotIds -> SlotType], NEW i \in Candidates
    PROVE  i \in SlotIds /\ (~sock[i].used \/ sock[i].closing)
<1>1. Free \subseteq SlotIds /\ \A j \in Free : ~sock[j].used
  BY DEF Free, Used
<1>2. CASE Free # {}
  <2>1. FirstOf(Free) \in Free
    <3>1. Free \subseteq Nat
      BY <1>1, SockNumbers
    <3> QED BY <1>2, <3>1, FirstIs
  <2> QED BY <1>1, <1>2, <2>1 DEF Candidates
<1>3. CASE Free = {}
  BY <1>3 DEF Candidates, Victims, Used
<1> QED BY <1>2, <1>3

LEMMA PortIs ==
    ASSUME NEW ports, NEW port \in NextPort(ports)
    PROVE  port \in Nat /\ port \notin ports
<1>1. Ephemeral \ ports # {} /\ port = FirstOf(Ephemeral \ ports)
  BY DEF NextPort
<1>2. Ephemeral \ ports \subseteq Nat
  BY SockNumbers
<1>3. port \in Ephemeral \ ports
  BY <1>1, <1>2, FirstIs
<1> QED BY <1>2, <1>3

SockOpened(s, k, port) == [s EXCEPT !.used = TRUE, !.kind = k, !.lport = port]

LEMMA OpenedIs ==
    ASSUME NEW s \in SlotRecs, NEW k \in {"udp", "tcp"}, NEW port \in Nat
    PROVE  LET t == SockOpened(s, k, port) IN
           /\ t \in SlotRecs /\ t.used /\ t.kind = k /\ t.lport = port /\ t.closing = s.closing
           /\ t.state = s.state /\ t.parent = s.parent
BY DEF SockOpened, SlotRecs

LEMMA OpenedFits ==
    ASSUME NEW k \in {"udp", "tcp"}, NEW port \in Nat
    PROVE  LET t == SockOpened(FreeSlot, k, port) IN
           t \in SlotType /\ t.used /\ t.parent = NoSlot /\ t.lport = port
<1>1. FreeSlot \in SlotRecs /\ ~FreeSlot.closing
  BY FreeFits DEF SlotType, FreeSlot
<1>2. FreeSlot.state = "Closed" /\ FreeSlot.parent = NoSlot
  BY DEF FreeSlot
<1> QED
  BY <1>1, <1>2, OpenedIs DEF SlotType, EntryFits

Born(s, port, l) == [s EXCEPT !.used = TRUE, !.kind = "tcp", !.lport = port,
                              !.state = "SynRcvd", !.parent = l]

LEMMA BornIs ==
    ASSUME NEW s \in SlotRecs, NEW port \in Nat, NEW l \in 0 .. NSock
    PROVE  LET t == Born(s, port, l) IN
           /\ t \in SlotRecs /\ t.used /\ t.kind = "tcp" /\ t.lport = port
           /\ t.closing = s.closing /\ t.accepted = s.accepted
           /\ t.state = "SynRcvd" /\ t.parent = l
BY DEF Born, SlotRecs, SlotStates

LEMMA BornFits ==
    ASSUME NEW port \in Nat, NEW l \in SlotIds
    PROVE  LET t == Born(FreeSlot, port, l) IN
           t \in SlotType /\ t.used /\ t.parent = l /\ ~t.accepted /\ ~t.closing
<1>1. FreeSlot \in SlotRecs /\ ~FreeSlot.closing
  BY FreeFits DEF SlotType, FreeSlot
<1>2. ~FreeSlot.accepted
  BY DEF FreeSlot
<1>3. l \in 0 .. NSock
  BY SockNumbers
<1> QED
  BY <1>1, <1>2, <1>3, BornIs DEF SlotType, EntryFits, ChildStates

LEMMA ClosedFits ==
    ASSUME NEW s \in SlotType, s.used
    PROVE  /\ Closed(s) \in SlotType /\ Wanes(s, Closed(s))
           /\ Closed(s).used => Closed(s).closing
           /\ s.state \in {"Est", "CloseWait"} => Closed(s).used
<1>1. CASE s.kind = "tcp" /\ s.state \in {"Est", "CloseWait"}
  <2> DEFINE t == Closed(s)
  <2>1. t = [s EXCEPT !.closing = TRUE, !.state = IF @ = "Est" THEN "FinW1" ELSE "LastAck"]
    BY <1>1 DEF Closed
  <2>2. /\ t.used = s.used /\ t.kind = s.kind /\ t.closing = TRUE /\ t.lport = s.lport
        /\ t.state \in {"FinW1", "LastAck"} /\ t.parent = s.parent /\ t.accepted = s.accepted
        /\ t \in SlotRecs
    BY <2>1, <1>1 DEF SlotType, SlotRecs, SlotStates
  <2>3. EntryFits(t)
    BY <1>1, <2>2 DEF EntryFits, ChildStates
  <2>4. t = Closed(s)
    OBVIOUS
  <2> HIDE DEF t
  <2>5. t \in SlotType /\ Wanes(s, t) /\ t.used /\ t.closing
    BY <2>2, <2>3 DEF SlotType, Wanes
  <2> QED BY <2>4, <2>5
<1>2. CASE ~(s.kind = "tcp" /\ s.state \in {"Est", "CloseWait"})
  <2>1. Closed(s) = FreeSlot
    BY <1>2 DEF Closed
  <2>2. s.state \notin {"Est", "CloseWait"}
    BY <1>2 DEF SlotType, SlotRecs, EntryFits
  <2> QED BY <2>1, <2>2, FreeFits DEF Wanes
<1> QED BY <1>1, <1>2

LEMMA WanesSelf ==
    \A s : Wanes(s, s) /\ Wanes(s, FreeSlot)
BY FreeFits DEF Wanes

\* Who had a descriptor still has it.
LEMMA StillNamed ==
    ASSUME SockInv, alive \subseteq alive',
           \A q \in Owners, f \in Fds : hold[q][f] # Vacant /\ q \in alive =>
                                        hold'[q][f].slot = hold[q][f].slot,
           NEW i \in SlotIds, Named(i)
    PROVE  Named(i)'
<1>1. PICK q \in alive, f \in Fds : hold[q][f].slot = i
  BY DEF Named
<1>2. q \in Owners /\ hold \in HoldType
  BY DEF SockInv, Tables
<1>3. hold[q][f] # Vacant
  BY <1>1, <1>2, HoldIs, SockNumbers DEF NoSlot
<1>4. hold'[q][f].slot = i /\ q \in alive'
  BY <1>1, <1>2, <1>3
<1> QED BY <1>4 DEF Named

LEMMA SockOpen ==
    ASSUME SockInv, NEW p \in Owners, NEW k \in {"udp", "tcp"}, Open(p, k)
    PROVE  SockInv'
<1>0. Tables /\ NoneUnnamed /\ sock \in [SlotIds -> SlotType] /\ hold \in HoldType
  BY DEF SockInv, Tables
<1>1. PICK i \in Candidates : \E port \in NextPort({sock[j].lport : j \in Used \ {i}}) :
         /\ gen' = [gen EXCEPT ![i] = 1 - @]
         /\ IF FreeFds(p) # {}
            THEN sock' = [sock EXCEPT ![i] = SockOpened(FreeSlot, k, port)] /\ hold' = Holds(Taken(i), p, i)
            ELSE sock' = [sock EXCEPT ![i] = FreeSlot] /\ hold' = Taken(i)
  BY DEF Open, SockOpened
<1>6. PICK port \in NextPort({sock[j].lport : j \in Used \ {i}}) :
         /\ gen' = [gen EXCEPT ![i] = 1 - @]
         /\ IF FreeFds(p) # {}
            THEN sock' = [sock EXCEPT ![i] = SockOpened(FreeSlot, k, port)] /\ hold' = Holds(Taken(i), p, i)
            ELSE sock' = [sock EXCEPT ![i] = FreeSlot] /\ hold' = Taken(i)
  BY <1>1
<1>2. /\ i \in SlotIds /\ port \in Nat
      /\ \A j \in SlotIds \ {i} : sock[j].used => sock[j].lport # port
  BY <1>0, CandidateIs, PortIs DEF Used
<1>3. p \in alive /\ alive' = alive /\ peek' = peek /\ gen' \in [SlotIds -> {0, 1}]
  <2>1. gen \in [SlotIds -> {0, 1}] /\ \A x \in {0, 1} : 1 - x \in {0, 1}
    BY <1>0 DEF Tables
  <2> QED BY <1>6, <1>2, <2>1 DEF Open, Calls
<1>4. CASE FreeFds(p) # {}
  <2>1. sock' = [sock EXCEPT ![i] = SockOpened(FreeSlot, k, port)] /\ hold' = Holds(Taken(i), p, i)
    BY <1>6, <1>4
  <2>2. PortsDistinct' /\ OneChild'
    <3>1. Waxes(i, SockOpened(FreeSlot, k, port))
      BY <1>2, OpenedFits DEF Waxes
    <3>2. SockOpened(FreeSlot, k, port) \in SlotType
      BY <1>2, OpenedFits
    <3> QED BY <1>2, <2>1, <3>1, <3>2, Waxing
  <2>3. /\ hold' \in HoldType /\ \E f \in Fds : hold'[p][f].slot = i
        /\ \A q \in Owners, f \in Fds : hold[q][f] # Vacant => hold'[q][f].slot = hold[q][f].slot
    <3>1. Taken(i) \in HoldType /\ \A q \in Owners, f \in Fds : Taken(i)[q][f].slot = hold[q][f].slot
      BY <1>0, <1>2, TakenFits
    <3> QED BY <1>0, <1>2, <1>4, <2>1, <3>1, HoldsFits
  <2>4. sock' \in [SlotIds -> SlotType]
    BY <1>0, <1>2, <2>1, OpenedFits
  <2>5. NoneUnnamed'
    <3>1. Named(i)'
      BY <1>3, <2>3 DEF Named
    <3>2. ASSUME NEW j \in SlotIds, j # i, sock'[j].used PROVE Excused(sock'[j]) \/ Named(j)'
      <4>1. sock'[j] = sock[j]
        BY <1>0, <2>1, <3>2
      <4>2. CASE Named(j)
        BY <1>3, <2>3, <4>2, StillNamed
      <4> QED BY <1>0, <3>2, <4>1, <4>2 DEF NoneUnnamed
    <3> QED BY <3>1, <3>2 DEF NoneUnnamed
  <2>6. Tables'
    BY <1>0, <1>3, <2>3, <2>4 DEF Tables
  <2> QED BY <2>2, <2>5, <2>6 DEF SockInv
<1>5. CASE FreeFds(p) = {}
  <2>1. sock' = [sock EXCEPT ![i] = FreeSlot] /\ hold' = Taken(i)
    BY <1>6, <1>5
  <2>2. sock' \in [SlotIds -> SlotType] /\ \A j \in SlotIds : sock'[j] = sock[j] \/ ~sock'[j].used
    BY <1>0, <1>2, <2>1, FreeFits
  <2>3. PortsDistinct' /\ OneChild'
    <3>1. \A j \in SlotIds : Wanes(sock[j], sock'[j])
      BY <2>2 DEF Wanes
    <3> QED BY <2>2, <3>1, Waning
  <2>4. hold' \in HoldType /\ \A q \in Owners, f \in Fds : hold'[q][f].slot = hold[q][f].slot
    BY <1>0, <1>2, <2>1, TakenFits
  <2>5. NoneUnnamed'
    <3>1. ASSUME NEW j \in SlotIds, sock'[j].used PROVE Excused(sock'[j]) \/ Named(j)'
      <4>1. sock'[j] = sock[j]
        BY <2>2, <3>1
      <4>2. CASE Named(j)
        BY <1>3, <2>4, <4>2, StillNamed
      <4> QED BY <1>0, <3>1, <4>1, <4>2 DEF NoneUnnamed
    <3> QED BY <3>1 DEF NoneUnnamed
  <2>6. Tables'
    BY <1>0, <1>3, <2>2, <2>4 DEF Tables
  <2> QED BY <2>3, <2>5, <2>6 DEF SockInv
<1> QED BY <1>4, <1>5

LEMMA OneWanes ==
    ASSUME SockInv, NEW i \in SlotIds, NEW t \in SlotType, Wanes(sock[i], t),
           sock' = [sock EXCEPT ![i] = t]
    PROVE  /\ sock' \in [SlotIds -> SlotType] /\ PortsDistinct' /\ OneChild'
           /\ sock'[i] = t /\ \A j \in SlotIds : j # i => sock'[j] = sock[j]
<1>1. sock \in [SlotIds -> SlotType]
  BY DEF SockInv, Tables
<1>2. /\ sock' \in [SlotIds -> SlotType]
      /\ sock'[i] = t /\ \A j \in SlotIds : j # i => sock'[j] = sock[j]
  BY <1>1
<1>3. \A j \in SlotIds : Wanes(sock[j], sock'[j])
  BY <1>2, WanesSelf
<1> QED BY <1>2, <1>3, Waning

LEMMA SockCloseFd ==
    ASSUME SockInv, NEW p \in Owners, NEW f \in Fds, CloseFd(p, f)
    PROVE  SockInv'
<1> DEFINE i == Slot(p, f)
           t == IF sock[i].used THEN Closed(sock[i]) ELSE sock[i]
<1>0. Tables /\ NoneUnnamed /\ sock \in [SlotIds -> SlotType] /\ hold \in HoldType
  BY DEF SockInv, Tables
<1>1. i \in SlotIds /\ i = hold[p][f].slot
  <2>1. hold[p][f] # Vacant /\ i = hold[p][f].slot
    BY DEF CloseFd, Slot
  <2> QED BY <1>0, <2>1, HoldIs
<1>2. /\ sock' = [sock EXCEPT ![i] = t] /\ hold' = [hold EXCEPT ![p][f] = Vacant]
      /\ UNCHANGED <<peek, alive, gen>>
  BY DEF CloseFd
<1> HIDE DEF i
<1>3. t \in SlotType /\ Wanes(sock[i], t) /\ (t.used => t.closing)
  <2>1. sock[i] \in SlotType
    BY <1>0, <1>1
  <2>2. CASE sock[i].used
    BY <2>1, <2>2, ClosedFits
  <2>3. CASE ~sock[i].used
    BY <2>1, <2>3, WanesSelf
  <2> QED BY <2>2, <2>3
<1> HIDE DEF t
<1>4. /\ sock' \in [SlotIds -> SlotType] /\ PortsDistinct' /\ OneChild'
      /\ sock'[i] = t /\ \A j \in SlotIds : j # i => sock'[j] = sock[j]
  BY <1>1, <1>2, <1>3, OneWanes
<1>5. hold' \in HoldType /\ \A q \in Owners, g \in Fds : hold'[q][g] = hold[q][g] \/ hold[q][g].slot = i
  BY <1>0, <1>1, <1>2 DEF HoldType
<1>6. NoneUnnamed'
  <2>1. ASSUME NEW j \in SlotIds, j # i, sock'[j].used PROVE Excused(sock'[j]) \/ Named(j)'
    <3>1. sock'[j] = sock[j]
      BY <1>4, <2>1
    <3>2. CASE Named(j)
      <4>1. PICK q \in alive, g \in Fds : hold[q][g].slot = j
        BY <3>2 DEF Named
      <4>2. q \in Owners
        BY <1>0 DEF Tables
      <4>3. hold'[q][g].slot = j /\ q \in alive'
        BY <1>2, <1>5, <2>1, <4>1, <4>2
      <4> QED BY <4>3 DEF Named
    <3> QED BY <1>0, <2>1, <3>1, <3>2 DEF NoneUnnamed
  <2>2. sock'[i].used => Excused(sock'[i])
    BY <1>3, <1>4 DEF Excused
  <2> QED BY <2>1, <2>2 DEF NoneUnnamed
<1>7. Tables'
  BY <1>0, <1>2, <1>4, <1>5 DEF Tables
<1> QED BY <1>4, <1>6, <1>7 DEF SockInv

\* One slot changes, and no descriptor.
LEMMA OneSlotSame ==
    ASSUME SockInv, NEW i \in SlotIds, NEW t \in SlotType,
           sock' = [sock EXCEPT ![i] = t], UNCHANGED <<hold, peek, alive, gen>>,
           PortsDistinct', OneChild',
           t.used => Excused(t) \/ Named(i)
    PROVE  SockInv'
<1>0. Tables /\ NoneUnnamed /\ sock \in [SlotIds -> SlotType]
  BY DEF SockInv, Tables
<1>1. /\ sock' \in [SlotIds -> SlotType]
      /\ sock'[i] = t /\ \A j \in SlotIds : j # i => sock'[j] = sock[j]
  BY <1>0
<1>2. \A j \in SlotIds : Named(j)' <=> Named(j)
  BY DEF Named
<1>3. NoneUnnamed'
  BY <1>0, <1>1, <1>2 DEF NoneUnnamed
<1>4. Tables'
  BY <1>0, <1>1 DEF Tables
<1> QED BY <1>3, <1>4 DEF SockInv

LEMMA SlotNamed ==
    ASSUME NEW p \in alive, NEW f \in Fds
    PROVE  Named(Slot(p, f))
BY DEF Named, Slot

LEMMA SockBind ==
    ASSUME SockInv, NEW p \in Owners, NEW f \in Fds, NEW port \in Fixed, Bind(p, f, port)
    PROVE  SockInv'
<1> DEFINE i == Slot(p, f)
           t == [sock[i] EXCEPT !.lport = port]
<1>1. /\ i \in SlotIds /\ sock[i].used /\ p \in alive
      /\ \A j \in SlotIds \ {i} : sock[j].used => sock[j].lport # port
      /\ sock' = [sock EXCEPT ![i].lport = port] /\ UNCHANGED <<hold, peek, alive, gen>>
  BY DEF Bind, Calls, Used, Bindable
<1>2. Named(i)
  BY <1>1, SlotNamed
<1> HIDE DEF i
<1>3. sock \in [SlotIds -> SlotType] /\ sock[i] \in SlotType /\ OneChild /\ PortsDistinct
  BY <1>1 DEF SockInv, Tables
<1>4. sock' = [sock EXCEPT ![i] = t]
  BY <1>1, <1>3
<1>5. /\ t \in SlotType /\ t.used = sock[i].used /\ t.closing = sock[i].closing
      /\ t.accepted = sock[i].accepted /\ t.parent = sock[i].parent /\ t.lport = port
  <2>1. port \in Nat
    BY SockNumbers
  <2>2. /\ t \in SlotRecs /\ t.used = sock[i].used /\ t.closing = sock[i].closing
        /\ t.accepted = sock[i].accepted /\ t.parent = sock[i].parent /\ t.lport = port
        /\ t.kind = sock[i].kind /\ t.state = sock[i].state
    BY <1>3, <2>1 DEF SlotType, SlotRecs
  <2>3. EntryFits(sock[i])
    BY <1>3, SlotIs
  <2>4. EntryFits(t)
    BY <1>1, <2>2, <2>3 DEF EntryFits
  <2> QED BY <2>2, <2>4 DEF SlotType
<1> HIDE DEF t
<1>6. sock'[i] = t /\ \A j \in SlotIds : j # i => sock'[j] = sock[j]
  BY <1>1, <1>3, <1>4
<1>7. PortsDistinct'
  <2>1. SUFFICES ASSUME NEW j \in SlotIds, NEW k \in SlotIds, sock'[j].used, sock'[k].used, j # k,
                        sock'[j].lport = sock'[k].lport
                 PROVE  sock'[j].parent # NoSlot \/ sock'[k].parent # NoSlot
    BY DEF PortsDistinct, Used
  <2>2. j # i /\ k # i
    BY <1>1, <1>5, <1>6, <2>1
  <2> QED BY <1>3, <1>6, <2>1, <2>2 DEF PortsDistinct, Used
<1>8. OneChild'
  BY <1>3, <1>5, <1>6 DEF OneChild
<1> QED
  BY <1>1, <1>2, <1>4, <1>5, <1>7, <1>8, OneSlotSame

LEMMA SockStart ==
    ASSUME SockInv, NEW p \in Owners, NEW f \in Fds, NEW st \in {"Listen", "SynSent"},
           Start(p, f, st)
    PROVE  SockInv'
<1> DEFINE i == Slot(p, f)
           t == [sock[i] EXCEPT !.state = st, !.accepted = (st = "SynSent")]
<1>1. /\ i \in SlotIds /\ sock[i].used /\ p \in alive
      /\ sock[i].kind = "tcp" /\ sock[i].state = "Closed"
      /\ sock' = [sock EXCEPT ![i].state = st, ![i].accepted = (st = "SynSent")]
      /\ UNCHANGED <<hold, peek, alive, gen>>
  BY DEF Start, Calls, Used
<1>2. Named(i)
  BY <1>1, SlotNamed
<1> HIDE DEF i
<1>3. sock \in [SlotIds -> SlotType] /\ sock[i] \in SlotType
  BY <1>1 DEF SockInv, Tables
<1>4. sock' = [sock EXCEPT ![i] = t]
  BY <1>1, <1>3
<1>5. t \in SlotType /\ Wanes(sock[i], t)
  <2>1. EntryFits(sock[i]) /\ sock[i].parent = NoSlot /\ ~sock[i].closing
    BY <1>1, <1>3, SlotIs DEF EntryFits, ChildStates
  <2>2. /\ t \in SlotRecs /\ t.used = sock[i].used /\ t.closing = sock[i].closing
        /\ t.parent = sock[i].parent /\ t.lport = sock[i].lport
        /\ t.kind = sock[i].kind /\ t.state = st
    BY <1>3 DEF SlotType, SlotRecs, SlotStates
  <2> HIDE DEF t
  <2>3. EntryFits(t) /\ Wanes(sock[i], t)
    BY <1>1, <2>1, <2>2 DEF EntryFits, Wanes
  <2> QED BY <2>2, <2>3 DEF SlotType
<1> HIDE DEF t
<1> QED
  BY <1>1, <1>2, <1>4, <1>5, OneWanes, OneSlotSame

LEMMA SockBecomes ==
    ASSUME SockInv, NEW i \in SlotIds, Establish(i) \/ PeerFinRx(i)
    PROVE  SockInv'
<1>1. PICK to \in {"Est", "CloseWait"} :
        /\ sock[i].used /\ ~sock[i].closing
        /\ sock[i].state \in {"SynRcvd", "SynSent", "Est"}
        /\ sock' = [sock EXCEPT ![i].state = to] /\ UNCHANGED <<hold, peek, alive, gen>>
  BY DEF Establish, PeerFinRx, Becomes, Used
<1> DEFINE t == [sock[i] EXCEPT !.state = to]
<1>2. sock \in [SlotIds -> SlotType] /\ sock[i] \in SlotType /\ NoneUnnamed
  BY DEF SockInv, Tables
<1>3. sock' = [sock EXCEPT ![i] = t]
  BY <1>1, <1>2
<1>4. t \in SlotType /\ Wanes(sock[i], t) /\ (Excused(sock[i]) => Excused(t))
  <2>1. EntryFits(sock[i])
    BY <1>2, SlotIs
  <2>2. /\ t \in SlotRecs /\ t.used = sock[i].used /\ t.closing = sock[i].closing
        /\ t.parent = sock[i].parent /\ t.lport = sock[i].lport /\ t.accepted = sock[i].accepted
        /\ t.kind = sock[i].kind /\ t.state = to
    BY <1>1, <1>2 DEF SlotType, SlotRecs, SlotStates
  <2> HIDE DEF t
  <2>3. EntryFits(t) /\ Wanes(sock[i], t)
    BY <1>1, <2>1, <2>2 DEF EntryFits, Wanes, ChildStates
  <2> QED BY <2>2, <2>3 DEF SlotType, Excused
<1> HIDE DEF t
<1> QED
  BY <1>1, <1>2, <1>3, <1>4, OneWanes, OneSlotSame DEF NoneUnnamed

LEMMA SockDrop ==
    ASSUME SockInv, NEW i \in SlotIds, Drop(i)
    PROVE  SockInv'
<1>1. sock' = [sock EXCEPT ![i] = FreeSlot] /\ UNCHANGED <<hold, peek, alive, gen>>
  BY DEF Drop
<1> QED
  BY <1>1, FreeFits, WanesSelf, OneWanes, OneSlotSame

LEMMA SockPeek ==
    ASSUME SockInv, NEW p \in Owners, NEW f \in Fds, Peek(p, f)
    PROVE  SockInv'
<1>1. Tables /\ PortsDistinct /\ OneChild /\ NoneUnnamed
  BY DEF SockInv
<1>2. PICK i \in SlotIds : /\ p \in alive /\ peek' = [peek EXCEPT ![p] = i]
                           /\ UNCHANGED <<sock, hold, alive, gen>>
  BY DEF Peek, Calls, Waiting, Used
<1>3. /\ peek' \in [Owners -> 0 .. NSock]
      /\ \A q \in Owners : peek'[q] # NoSlot => q \in alive
  BY <1>1, <1>2, SockNumbers DEF Tables
<1>4. Tables'
  BY <1>1, <1>2, <1>3 DEF Tables
<1> QED
  BY <1>1, <1>2, <1>4 DEF SockInv, PortsDistinct, OneChild, NoneUnnamed, Used, Named

LEMMA SockCommit ==
    ASSUME SockInv, NEW p \in Owners, Commit(p)
    PROVE  SockInv'
<1>0. Tables /\ PortsDistinct /\ OneChild /\ NoneUnnamed /\ hold \in HoldType
      /\ sock \in [SlotIds -> SlotType]
  BY DEF SockInv, Tables
<1>1. PICK i \in SlotIds : i = peek[p] /\ p \in alive
  BY <1>0, SockNumbers DEF Commit, Tables, NoSlot
<1> DEFINE t == [sock[i] EXCEPT !.accepted = TRUE]
<1>2. /\ hold' = IF FreeFds(p) # {} THEN Holds(hold, p, i) ELSE hold
      /\ sock' = IF FreeFds(p) # {} /\ sock[i].used THEN [sock EXCEPT ![i].accepted = TRUE] ELSE sock
      /\ peek' = [peek EXCEPT ![p] = NoSlot] /\ UNCHANGED <<alive, gen>>
  BY <1>1 DEF Commit, Handed
<1>3. peek' \in [Owners -> 0 .. NSock] /\ \A q \in Owners : peek'[q] # NoSlot => q \in alive'
  BY <1>0, <1>2, SockNumbers DEF Tables, NoSlot
<1>4. CASE FreeFds(p) # {}
  <2>1. hold' = Holds(hold, p, i)
    BY <1>2, <1>4
  <2>2. /\ hold' \in HoldType /\ \E f \in Fds : hold'[p][f].slot = i
        /\ \A q \in Owners, f \in Fds : hold[q][f] # Vacant => hold'[q][f].slot = hold[q][f].slot
    BY <1>0, <1>1, <1>4, <2>1, HoldsFits
  <2>3. Named(i)' /\ \A j \in SlotIds : Named(j) => Named(j)'
    BY <1>1, <1>2, <2>2, StillNamed DEF Named
  <2>4. CASE sock[i].used
    <3>1. sock' = [sock EXCEPT ![i] = t] /\ sock[i] \in SlotType
      BY <1>0, <1>1, <1>2, <1>4, <2>4
    <3>2. t \in SlotType /\ Wanes(sock[i], t)
      <4>1. EntryFits(sock[i])
        BY <3>1, SlotIs
      <4>2. /\ t \in SlotRecs /\ t.used = sock[i].used /\ t.closing = sock[i].closing
            /\ t.parent = sock[i].parent /\ t.lport = sock[i].lport /\ t.accepted
            /\ t.kind = sock[i].kind /\ t.state = sock[i].state
        BY <3>1 DEF SlotType, SlotRecs
      <4> HIDE DEF t
      <4>3. EntryFits(t) /\ Wanes(sock[i], t)
        BY <2>4, <4>1, <4>2 DEF EntryFits, Wanes
      <4> QED BY <4>2, <4>3 DEF SlotType
    <3> HIDE DEF t
    <3>3. /\ sock' \in [SlotIds -> SlotType] /\ PortsDistinct' /\ OneChild'
          /\ \A j \in SlotIds : j # i => sock'[j] = sock[j]
      BY <1>1, <3>1, <3>2, OneWanes
    <3>4. NoneUnnamed'
      BY <1>0, <2>3, <3>3 DEF NoneUnnamed
    <3>5. Tables'
      BY <1>0, <1>2, <1>3, <2>2, <3>3 DEF Tables
    <3> QED BY <3>3, <3>4, <3>5 DEF SockInv
  <2>5. CASE ~sock[i].used
    <3>1. sock' = sock
      BY <1>2, <2>5
    <3>2. NoneUnnamed'
      BY <1>0, <2>3, <3>1 DEF NoneUnnamed
    <3>3. Tables'
      BY <1>0, <1>2, <1>3, <2>2, <3>1 DEF Tables
    <3>4. PortsDistinct' /\ OneChild'
      BY <1>0, <3>1 DEF PortsDistinct, OneChild, Used
    <3> QED BY <3>2, <3>3, <3>4 DEF SockInv
  <2> QED BY <2>4, <2>5
<1>5. CASE FreeFds(p) = {}
  <2>1. hold' = hold /\ sock' = sock /\ alive' = alive /\ gen' = gen
    BY <1>2, <1>5
  <2>2. Tables'
    BY <1>0, <1>3, <2>1 DEF Tables
  <2> QED
    BY <1>0, <2>1, <2>2 DEF SockInv, PortsDistinct, OneChild, NoneUnnamed, Used, Named
<1> QED BY <1>4, <1>5

LEMMA SockSyn ==
    ASSUME SockInv, NEW l \in SlotIds, Syn(l)
    PROVE  SockInv'
<1> DEFINE i == FirstOf(Free)
           t == Born(FreeSlot, sock[l].lport, l)
<1>0. Tables /\ NoneUnnamed /\ hold \in HoldType /\ sock \in [SlotIds -> SlotType]
  BY DEF SockInv, Tables
<1>1. i \in SlotIds /\ ~sock[i].used
  <2>1. Free # {} /\ Free \subseteq Nat
    BY SockNumbers DEF Syn, Free
  <2>2. i \in Free
    BY <2>1, FirstIs
  <2> QED BY <2>2 DEF Free, Used
<1>2. /\ sock' = [sock EXCEPT ![i] = t] /\ hold' = Taken(i)
      /\ gen' = [gen EXCEPT ![i] = 1 - @] /\ UNCHANGED <<peek, alive>>
      /\ Waiting(l) = {}
  BY DEF Syn, Born, Backlog
<1> HIDE DEF i
<1>3. t \in SlotType /\ t.used /\ t.parent = l /\ ~t.accepted
  <2>1. sock[l].lport \in Nat
    BY <1>0, SlotIs
  <2> QED BY <2>1, BornFits
<1> HIDE DEF t
<1>4. PortsDistinct' /\ OneChild'
  <2>1. Waxes(i, t)
    BY <1>2, <1>3 DEF Waxes
  <2> QED BY <1>1, <1>2, <1>3, <2>1, Waxing
<1>5. /\ sock' \in [SlotIds -> SlotType]
      /\ sock'[i] = t /\ \A j \in SlotIds : j # i => sock'[j] = sock[j]
  BY <1>0, <1>1, <1>2, <1>3
<1>6. hold' \in HoldType /\ \A q \in Owners, f \in Fds : hold'[q][f].slot = hold[q][f].slot
  BY <1>0, <1>1, <1>2, TakenFits
<1>7. NoneUnnamed'
  <2>1. Excused(t)
    BY <1>3, SockNumbers DEF Excused, NoSlot
  <2>2. \A j \in SlotIds : Named(j) => Named(j)'
    BY <1>2, <1>6, StillNamed
  <2> QED BY <1>0, <1>5, <2>1, <2>2 DEF NoneUnnamed
<1>8. gen' \in [SlotIds -> {0, 1}]
  <2>1. gen \in [SlotIds -> {0, 1}] /\ \A x \in {0, 1} : 1 - x \in {0, 1}
    BY <1>0 DEF Tables
  <2> QED BY <1>1, <1>2, <2>1
<1>9. Tables'
  BY <1>0, <1>2, <1>5, <1>6, <1>8 DEF Tables
<1> QED BY <1>4, <1>7, <1>9 DEF SockInv

LEMMA SockShare ==
    ASSUME SockInv, NEW p \in Owners, NEW q \in Owners, Share(p, q)
    PROVE  SockInv'
<1>0. Tables /\ PortsDistinct /\ OneChild /\ NoneUnnamed /\ hold \in HoldType
  BY DEF SockInv, Tables
<1>1. /\ q \notin alive /\ hold' = [hold EXCEPT ![q] = hold[p]] /\ alive' = alive \cup {q}
      /\ UNCHANGED <<sock, peek, gen>>
  BY DEF Share
<1>2. hold' \in HoldType
  BY <1>0, <1>1 DEF HoldType
<1>3. \A r \in Owners : r \in alive => hold'[r] = hold[r]
  BY <1>0, <1>1 DEF HoldType
<1>4. \A j \in SlotIds : Named(j) => Named(j)'
  BY <1>0, <1>1, <1>3 DEF Named, Tables
<1>5. Tables'
  BY <1>0, <1>1, <1>2 DEF Tables
<1>6. NoneUnnamed'
  BY <1>0, <1>1, <1>4 DEF NoneUnnamed
<1>7. PortsDistinct' /\ OneChild'
  BY <1>0, <1>1 DEF PortsDistinct, OneChild, Used
<1> QED BY <1>5, <1>6, <1>7 DEF SockInv

LEMMA SockReap ==
    ASSUME SockInv, NEW q \in Owners, ReapOwner(q)
    PROVE  SockInv'
<1> DEFINE slots == {Slot(q, f) : f \in Fds}
<1>0. Tables /\ NoneUnnamed /\ hold \in HoldType /\ sock \in [SlotIds -> SlotType]
  BY DEF SockInv, Tables
<1>1. /\ q \in alive /\ peek[q] = NoSlot
      /\ sock' = [i \in SlotIds |-> IF i \in slots /\ sock[i].used THEN Closed(sock[i]) ELSE sock[i]]
      /\ hold' = [hold EXCEPT ![q] = [f \in Fds |-> Vacant]]
      /\ alive' = alive \ {q} /\ UNCHANGED <<peek, gen>>
  BY DEF ReapOwner, Calls
<1>2. ASSUME NEW i \in SlotIds
      PROVE  /\ sock'[i] \in SlotType /\ Wanes(sock[i], sock'[i])
             /\ (i \in slots /\ sock'[i].used => sock'[i].closing)
             /\ (i \notin slots => sock'[i] = sock[i])
  <2>1. sock[i] \in SlotType
    BY <1>0
  <2>2. CASE i \in slots /\ sock[i].used
    <3>1. sock'[i] = Closed(sock[i])
      BY <1>1, <2>2
    <3> QED BY <2>1, <2>2, <3>1, ClosedFits
  <2>3. CASE ~(i \in slots /\ sock[i].used)
    <3>1. sock'[i] = sock[i]
      BY <1>1, <2>3
    <3> QED BY <2>1, <2>3, <3>1, WanesSelf
  <2> QED BY <2>2, <2>3
<1>3. sock' \in [SlotIds -> SlotType]
  BY <1>1, <1>2
<1>4. PortsDistinct' /\ OneChild'
  BY <1>2, <1>3, Waning
<1>5. hold' \in HoldType /\ \A r \in Owners : r # q => hold'[r] = hold[r]
  BY <1>0, <1>1 DEF HoldType
<1>6. NoneUnnamed'
  <2>1. ASSUME NEW j \in SlotIds, sock'[j].used PROVE Excused(sock'[j]) \/ Named(j)'
    <3>1. CASE j \in slots
      BY <1>2, <2>1, <3>1 DEF Excused
    <3>2. CASE j \notin slots
      <4>1. sock'[j] = sock[j]
        BY <1>2, <3>2
      <4>2. CASE Named(j)
        <5>1. PICK r \in alive, f \in Fds : hold[r][f].slot = j
          BY <4>2 DEF Named
        <5>2. r # q
          BY <3>2, <5>1 DEF Slot
        <5>3. r \in Owners /\ r \in alive'
          BY <1>0, <1>1, <5>2 DEF Tables
        <5> QED BY <1>5, <5>1, <5>2, <5>3 DEF Named
      <4> QED BY <1>0, <2>1, <4>1, <4>2 DEF NoneUnnamed
    <3> QED BY <3>1, <3>2
  <2> QED BY <2>1 DEF NoneUnnamed
<1>7. Tables'
  BY <1>0, <1>1, <1>3, <1>5 DEF Tables
<1> QED BY <1>4, <1>6, <1>7 DEF SockInv

SockSteps ==
    \/ \E p \in Owners, k \in {"udp", "tcp"} : Open(p, k)
    \/ \E p \in Owners, f \in Fds : CloseFd(p, f)
    \/ \E p \in Owners, f \in Fds : Peek(p, f)
    \/ \E p \in Owners, f \in Fds, st \in {"Listen", "SynSent"} : Start(p, f, st)
    \/ \E p \in Owners, f \in Fds, port \in Fixed : Bind(p, f, port)
    \/ \E p \in Owners : Commit(p)
    \/ \E p \in Owners : ReapOwner(p)
    \/ \E p \in Owners, q \in Owners : Share(p, q)
    \/ \E i \in SlotIds : Syn(i)
    \/ \E i \in SlotIds : Establish(i) \/ PeerFinRx(i)
    \/ \E i \in SlotIds : Drop(i)

LEMMA SockStepIs == SockNext => SockSteps
BY DEF SockNext, SockSteps

LEMMA SockStepKeeps == SockInv /\ [SockNext]_sockVars => SockInv'
<1> SUFFICES ASSUME SockInv, [SockNext]_sockVars PROVE SockInv'
  OBVIOUS
<1>1. CASE SockSteps
  BY <1>1, SockOpen, SockCloseFd, SockPeek, SockStart, SockBind, SockCommit, SockReap, SockShare,
     SockSyn, SockBecomes, SockDrop DEF SockSteps
<1>2. CASE UNCHANGED sockVars
  BY <1>2 DEF sockVars, SockInv, Tables, PortsDistinct, OneChild, NoneUnnamed, Used, Named
<1> QED BY <1>1, <1>2, SockStepIs

LEMMA SockInvIsEnough == SockInv => OneWaiting /\ PortsDistinct /\ NoSlotLost
<1> SUFFICES ASSUME SockInv PROVE OneWaiting /\ PortsDistinct /\ NoSlotLost
  OBVIOUS
<1>1. OneWaiting
  <2> SUFFICES ASSUME NEW l \in SlotIds PROVE Cardinality(Waiting(l)) <= 1
    BY DEF OneWaiting
  <2>1. \A i, j \in Waiting(l) : i = j
    <3>1. l # NoSlot
      BY SockNumbers DEF NoSlot
    <3> QED BY <3>1 DEF SockInv, OneChild, Waiting, Used
  <2>2. CASE Waiting(l) = {}
    BY <2>2, FS_EmptySet
  <2>3. CASE Waiting(l) # {}
    <3>1. PICK i : i \in Waiting(l)
      BY <2>3
    <3>2. Waiting(l) = {i}
      BY <2>1, <3>1
    <3>3. Cardinality({i}) = 1
      BY FS_Singleton
    <3> QED BY <3>2, <3>3
  <2> QED BY <2>2, <2>3
<1>2. NoSlotLost
  <2> SUFFICES ASSUME NEW i \in Used \ Held
               PROVE  sock[i].closing \/ (sock[i].parent # NoSlot /\ ~sock[i].accepted)
    BY DEF NoSlotLost
  <2>1. i \in SlotIds /\ sock[i].used /\ ~Named(i)
    BY DEF Used, Held, Named, Slot
  <2> QED BY <2>1 DEF SockInv, NoneUnnamed, Excused
<1> QED BY <1>1, <1>2 DEF SockInv

LEMMA NoneStolen ==
    ASSUME SockInv, [SockNext]_sockVars, NEW i \in SlotIds, gen'[i] # gen[i]
    PROVE  ~sock[i].used \/ sock[i].closing
<1>0. sock \in [SlotIds -> SlotType] /\ gen \in [SlotIds -> {0, 1}]
  BY DEF SockInv, Tables
<1>1. CASE \E p \in Owners, k \in {"udp", "tcp"} : Open(p, k)
  <2>1. PICK j \in Candidates : gen' = [gen EXCEPT ![j] = 1 - @]
    BY <1>1 DEF Open
  <2>2. i = j
    BY <1>0, <2>1
  <2> QED BY <1>0, <2>2, CandidateIs
<1>2. CASE \E l \in SlotIds : Syn(l)
  <2>1. Free # {} /\ Free \subseteq Nat /\ gen' = [gen EXCEPT ![FirstOf(Free)] = 1 - @]
    BY <1>2, SockNumbers DEF Syn, Free
  <2>2. FirstOf(Free) \in Free
    BY <2>1, FirstIs
  <2>3. i = FirstOf(Free)
    BY <1>0, <2>1
  <2> QED BY <2>2, <2>3 DEF Free, Used
<1>3. CASE UNCHANGED sockVars
  BY <1>3 DEF sockVars
<1>4. CASE SockSteps /\ gen' = gen
  BY <1>4
<1>5. SockSteps => gen' = gen \/ (\E p \in Owners, k \in {"udp", "tcp"} : Open(p, k))
                              \/ (\E l \in SlotIds : Syn(l))
  BY DEF SockSteps, CloseFd, Peek, Start, Bind, Commit, ReapOwner, Share, Establish, PeerFinRx,
         Becomes, Drop
<1> QED BY <1>1, <1>2, <1>3, <1>4, <1>5, SockStepIs

\* Whoever closes it, an established connection is a slot in use until a reset or a timeout.
LEMMA Graceful ==
    ASSUME SockInv, [SockNext]_sockVars, NEW i \in SlotIds, sock[i].state \in {"Est", "CloseWait"},
           \E p \in Owners, f \in Fds : Slot(p, f) = i /\ hold'[p][f] = Vacant
    PROVE  sock'[i].used
<1>0. /\ sock \in [SlotIds -> SlotType] /\ hold \in HoldType /\ EntryFits(sock[i])
      /\ sock[i].used /\ ~sock[i].closing
  <2>1. sock \in [SlotIds -> SlotType] /\ hold \in HoldType /\ EntryFits(sock[i])
    BY SlotIs DEF SockInv, Tables
  <2>2. FreeSlot.state = "Closed"
    BY DEF FreeSlot
  <2> QED BY <2>1, <2>2 DEF EntryFits
<1>1. hold' # hold
  <2>1. PICK p \in Owners, f \in Fds : Slot(p, f) = i /\ hold'[p][f] = Vacant
    OBVIOUS
  <2>2. hold[p][f] # Vacant
    BY <2>1, <1>0, HoldIs, SockNumbers DEF Slot, NoSlot
  <2> QED BY <2>1, <2>2
<1>2. CASE \E p \in Owners, k \in {"udp", "tcp"} : Open(p, k)
  <2>1. PICK j \in Candidates : \E t : sock' = [sock EXCEPT ![j] = t]
    BY <1>2 DEF Open
  <2>2. i # j
    BY <1>0, CandidateIs
  <2> QED BY <1>0, <2>1, <2>2
<1>3. CASE \E p \in Owners, f \in Fds : CloseFd(p, f)
  <2>1. PICK j : sock' = [sock EXCEPT ![j] = IF @.used THEN Closed(@) ELSE @]
    BY <1>3 DEF CloseFd
  <2>2. sock'[i] = sock[i] \/ sock'[i] = Closed(sock[i])
    BY <1>0, <2>1
  <2>3. Closed(sock[i]).used
    BY <1>0, ClosedFits
  <2> QED BY <1>0, <2>2, <2>3
<1>4. CASE \E p \in Owners : Commit(p)
  <2>1. PICK j : sock' = sock \/ sock' = [sock EXCEPT ![j].accepted = TRUE]
    BY <1>4 DEF Commit
  <2>2. sock'[i].used = sock[i].used
    BY <1>0, <2>1 DEF SlotType, SlotRecs
  <2> QED BY <1>0, <2>2
<1>5. CASE \E q \in Owners : ReapOwner(q)
  <2>1. sock'[i] = sock[i] \/ sock'[i] = Closed(sock[i])
    BY <1>5 DEF ReapOwner
  <2>2. Closed(sock[i]).used
    BY <1>0, ClosedFits
  <2> QED BY <1>0, <2>1, <2>2
<1>6. CASE \E p \in Owners, q \in Owners : Share(p, q)
  BY <1>0, <1>6 DEF Share
<1>7. CASE \E l \in SlotIds : Syn(l)
  <2>1. Free # {} /\ Free \subseteq Nat /\ \E t : sock' = [sock EXCEPT ![FirstOf(Free)] = t]
    BY <1>7, SockNumbers DEF Syn, Free
  <2>2. FirstOf(Free) \in Free
    BY <2>1, FirstIs
  <2>3. i # FirstOf(Free)
    BY <1>0, <2>2 DEF Free, Used
  <2> QED BY <1>0, <2>1, <2>3
<1>8. SockSteps => \/ hold' = hold
                   \/ (\E p \in Owners, k \in {"udp", "tcp"} : Open(p, k))
                   \/ (\E p \in Owners, f \in Fds : CloseFd(p, f))
                   \/ (\E p \in Owners : Commit(p))
                   \/ (\E q \in Owners : ReapOwner(q))
                   \/ (\E p \in Owners, q \in Owners : Share(p, q))
                   \/ (\E l \in SlotIds : Syn(l))
  BY DEF SockSteps, Peek, Start, Bind, Establish, PeerFinRx, Becomes, Drop
<1>9. UNCHANGED sockVars => hold' = hold
  BY DEF sockVars
<1> QED
  BY <1>1, <1>2, <1>3, <1>4, <1>5, <1>6, <1>7, <1>8, <1>9, SockStepIs

\* However processes open, fork, accept, close and die, and the peers and the timer act in
\* between: ports are not shared, a listener has one connection that waits, no slot is lost;
\* a slot in use is taken by nobody, and a close takes the connection through its closing
\* state (sock_open_kind, alloc_port, sock_bind, listener_syn, sys_accept, tcp_close, waitpid).
THEOREM SocketsHold ==
    SockSpec => [](OneWaiting /\ PortsDistinct /\ NoSlotLost) /\ NeverStolen /\ CloseIsGraceful
<1> DEFINE Fair == \A i \in SlotIds : gen'[i] # gen[i] => ~sock[i].used \/ sock[i].closing
           Gentle == \A i \in SlotIds :
                       /\ sock[i].state \in {"Est", "CloseWait"}
                       /\ \E p \in Owners, f \in Fds : Slot(p, f) = i /\ hold'[p][f] = Vacant
                       => sock'[i].used
<1>1. SockInv /\ [SockNext]_sockVars => [Fair]_sockVars
  BY NoneStolen
<1>2. SockInv /\ [SockNext]_sockVars => [Gentle]_sockVars
  BY Graceful
<1>3. SockSpec => [](OneWaiting /\ PortsDistinct /\ NoSlotLost) /\ [][Fair]_sockVars /\ [][Gentle]_sockVars
  <2> HIDE DEF Fair, Gentle
  <2> QED BY <1>1, <1>2, SockInitFits, SockStepKeeps, SockInvIsEnough, PTL DEF SockSpec
<1> QED
  BY <1>3 DEF NeverStolen, CloseIsGraceful

----------------------------------------------------------------------------
(* The device: what queues hold                                            *)

LEMMA ToSetHead ==
    ASSUME NEW S, NEW s \in Seq(S), s # <<>>
    PROVE  ToSet(s) = {Head(s)} \cup ToSet(Tail(s))
<1>1. /\ Len(s) \in Nat /\ Len(s) >= 1 /\ DOMAIN s = 1 .. Len(s)
      /\ Tail(s) \in Seq(S) /\ Len(Tail(s)) = Len(s) - 1 /\ DOMAIN Tail(s) = 1 .. Len(Tail(s))
      /\ \A i \in 1 .. Len(Tail(s)) : Tail(s)[i] = s[i + 1]
  BY LenProperties, EmptySeq, HeadTailProperties
<1>2. Head(s) = s[1] /\ 1 \in DOMAIN s
  BY <1>1
<1>3. ASSUME NEW i \in DOMAIN s PROVE s[i] \in {Head(s)} \cup ToSet(Tail(s))
  <2>1. CASE i = 1
    BY <1>2, <2>1
  <2>2. CASE i # 1
    <3>1. i - 1 \in DOMAIN Tail(s) /\ (i - 1) + 1 = i
      BY <1>1, <2>2
    <3>2. Tail(s)[i - 1] = s[i]
      BY <1>1, <3>1
    <3> QED BY <3>1, <3>2 DEF ToSet
  <2> QED BY <2>1, <2>2
<1>4. ASSUME NEW i \in DOMAIN Tail(s) PROVE Tail(s)[i] \in ToSet(s)
  <2>1. i + 1 \in DOMAIN s /\ Tail(s)[i] = s[i + 1]
    BY <1>1
  <2> QED BY <2>1 DEF ToSet
<1>5. ToSet(s) \subseteq {Head(s)} \cup ToSet(Tail(s))
  BY <1>3 DEF ToSet
<1>6. ToSet(Tail(s)) \subseteq ToSet(s) /\ Head(s) \in ToSet(s)
  BY <1>2, <1>4 DEF ToSet
<1> QED BY <1>5, <1>6

LEMMA ToSetAppend ==
    ASSUME NEW S, NEW s \in Seq(S), NEW e \in S
    PROVE  ToSet(Append(s, e)) = ToSet(s) \cup {e}
<1> DEFINE r == Append(s, e)
<1>1. /\ Len(s) \in Nat /\ DOMAIN s = 1 .. Len(s)
      /\ DOMAIN r = 1 .. Len(s) + 1
      /\ \A i \in 1 .. Len(s) : r[i] = s[i]
      /\ r[Len(s) + 1] = e
  <2>1. r \in Seq(S) /\ Len(r) = Len(s) + 1
    BY AppendProperties
  <2>2. DOMAIN r = 1 .. Len(r)
    BY <2>1, LenProperties
  <2> QED BY <2>1, <2>2, AppendProperties, LenProperties
<1> HIDE DEF r
<1>2. ASSUME NEW i \in DOMAIN r PROVE r[i] \in ToSet(s) \cup {e}
  <2>1. CASE i = Len(s) + 1
    BY <1>1, <2>1
  <2>2. CASE i # Len(s) + 1
    <3>1. i \in 1 .. Len(s)
      BY <1>1, <2>2
    <3> QED BY <1>1, <3>1 DEF ToSet
  <2> QED BY <2>1, <2>2
<1>3. ASSUME NEW i \in DOMAIN s PROVE s[i] \in ToSet(r)
  <2>1. i \in DOMAIN r
    BY <1>1
  <2> QED BY <1>1, <2>1 DEF ToSet
<1>4. e \in ToSet(r)
  <2>1. Len(s) + 1 \in DOMAIN r
    BY <1>1
  <2> QED BY <1>1, <2>1 DEF ToSet
<1>5. ToSet(r) = ToSet(s) \cup {e}
  BY <1>2, <1>3, <1>4 DEF ToSet
<1> QED BY <1>5 DEF r

\* The empty queue, and one of one.
LEMMA ToSetFew ==
    /\ ToSet(<<>>) = {} /\ Len(<<>>) = 0
    /\ \A x : ToSet(<<x>>) = {x} /\ Len(<<x>>) = 1
<1>1. ToSet(<<>>) = {} /\ Len(<<>>) = 0
  BY DEF ToSet
<1>2. ASSUME NEW x PROVE ToSet(<<x>>) = {x} /\ Len(<<x>>) = 1
  BY DEF ToSet
<1> QED BY <1>1, <1>2

LEMMA BuffersFinite == IsFiniteSet(Buffers) /\ Cardinality(Buffers) \in Nat
BY NetDevAssumption, FS_CardinalityType

LEMMA AllPosted ==
    LET q == SetToSeq(Buffers) IN
    q \in Seq(Buffers) /\ ToSet(q) = Buffers /\ Len(q) = Cardinality(Buffers)
<1> DEFINE n == Cardinality(Buffers)
           q == SetToSeq(Buffers)
<1>1. n \in Nat /\ ExistsBijection(1 .. n, Buffers)
  BY BuffersFinite, FS_CardinalityType
<1>2. \E f \in [1 .. n -> Buffers] : IsInjective(f)
  BY <1>1 DEF ExistsBijection, Bijection, Injection
<1>3. q \in [1 .. n -> Buffers] /\ IsInjective(q)
  BY <1>2 DEF SetToSeq
<1>4. q \in Injection(1 .. n, Buffers)
  BY <1>3 DEF Injection
<1>5. Cardinality(1 .. n) = n
  BY <1>1, FS_Interval
<1>6. q \in Surjection(1 .. n, Buffers)
  BY <1>4, <1>5, BuffersFinite, FS_Injection
<1>7. q \in Seq(Buffers) /\ Len(q) = n /\ DOMAIN q = 1 .. n
  <2>1. q \in Seq(Buffers)
    BY <1>1, <1>3
  <2> QED BY <1>1, <1>3, <2>1, LenProperties
<1>8. ToSet(q) = Buffers
  BY <1>3, <1>6, <1>7 DEF ToSet, Surjection
<1> QED BY <1>7, <1>8

IdsOf(q) == {e.id : e \in ToSet(q)}

LEMMA IdsHead ==
    ASSUME NEW S, NEW s \in Seq(S), s # <<>>
    PROVE  IdsOf(s) = {Head(s).id} \cup IdsOf(Tail(s))
<1>1. ToSet(s) = {Head(s)} \cup ToSet(Tail(s))
  BY ToSetHead
<1> QED BY <1>1 DEF IdsOf

LEMMA IdsAppend ==
    ASSUME NEW S, NEW s \in Seq(S), NEW e \in S
    PROVE  IdsOf(Append(s, e)) = IdsOf(s) \cup {e.id}
<1>1. ToSet(Append(s, e)) = ToSet(s) \cup {e}
  BY ToSetAppend
<1> QED BY <1>1 DEF IdsOf

LEMMA IdsFew == IdsOf(<<>>) = {} /\ \A x : IdsOf(<<x>>) = {x.id}
<1>1. ToSet(<<>>) = {} /\ \A x : ToSet(<<x>>) = {x}
  BY ToSetFew
<1> QED BY <1>1 DEF IdsOf

----------------------------------------------------------------------------
(* The device: what is always true                                         *)

InRingType == [id : Buffers, frame : Arriving]
InHandType == [id : Buffers, frame : Arriving, parsed : BOOLEAN]

\* Every buffer is at one place.
RxFits ==
    /\ avail \in Seq(Buffers) /\ usedRing \in Seq(InRingType)
    /\ inHand = <<>> \/ \E e \in InHandType : inHand = <<e>>
    /\ ready => /\ ToSet(avail) \cup IdsOf(usedRing) \cup IdsOf(inHand) = Buffers
                /\ Len(avail) + Len(usedRing) + Len(inHand) = Cardinality(Buffers)

Macs == Stations \cup {"us", "all", "nobody"}
Cells == 0 .. ArpSlots - 1

CacheFits ==
    /\ arp \in [Cells -> [ip : Stations \cup {None}, mac : Macs]]
    /\ victim \in Cells
    /\ \A i, j \in Cells : arp[i].ip = arp[j].ip /\ arp[i].ip # None => i = j

Sent == {"request", "reply", "ip"}

\* Until a deadline passed, one frame at most is on its way, and it is the one in the
\* transmit buffer, for which somebody waits.
TxFits ==
    /\ timeouts \in Nat /\ txDone \in Nat /\ txQueue \in Seq(Sent)
    /\ timeouts = 0 =>
         /\ claimed \subseteq onWire
         /\ \/ polling = <<>> /\ txDone = 0 /\ txQueue = <<>>
            \/ polling = <<txp>> /\ txDone = 0 /\ Len(txQueue) = 1
            \/ polling = <<txp>> /\ txDone = 1 /\ txQueue = <<>> /\ txp \in onWire

DevInv == RxFits /\ CacheFits /\ TxFits

LEMMA DevNumbers ==
    /\ ArpSlots \in Nat /\ 0 \in Cells /\ Cells \subseteq Nat
    /\ \A k \in Cells : (k + 1) % ArpSlots \in Cells
    /\ None \notin Stations
<1>1. ArpSlots \in Nat /\ ArpSlots # 0 /\ None \notin Stations
  BY NetDevAssumption DEF None
<1>2. 0 \in Cells /\ Cells \subseteq Nat
  BY <1>1 DEF Cells
<1>3. ASSUME NEW k \in Cells PROVE (k + 1) % ArpSlots \in Cells
  <2>1. k + 1 \in Int /\ ArpSlots > 0 /\ ArpSlots \in Int
    BY <1>1, <1>2
  <2>2. (k + 1) % ArpSlots \in 0 .. ArpSlots - 1
    BY <2>1
  <2> QED BY <2>2 DEF Cells
<1> QED BY <1>1, <1>2, <1>3

LEMMA DevInitFits == DevInit => DevInv
<1> SUFFICES ASSUME DevInit PROVE DevInv
  OBVIOUS
<1>1. RxFits
  <2>1. usedRing = <<>> /\ inHand = <<>> /\ avail = IF ready THEN SetToSeq(Buffers) ELSE <<>>
    BY DEF DevInit
  <2>2. <<>> \in Seq(Buffers) /\ <<>> \in Seq(InRingType)
    BY EmptySeq
  <2>3. CASE ready
    <3>1. avail \in Seq(Buffers) /\ ToSet(avail) = Buffers /\ Len(avail) = Cardinality(Buffers)
      BY <2>1, <2>3, AllPosted
    <3>2. Len(usedRing) = 0 /\ Len(inHand) = 0 /\ IdsOf(usedRing) = {} /\ IdsOf(inHand) = {}
      BY <2>1, IdsFew, ToSetFew
    <3>3. Len(avail) + Len(usedRing) + Len(inHand) = Cardinality(Buffers)
      BY <3>1, <3>2, BuffersFinite
    <3> QED BY <2>1, <2>2, <3>1, <3>2, <3>3 DEF RxFits
  <2>4. CASE ~ready
    BY <2>1, <2>2, <2>4 DEF RxFits
  <2> QED BY <2>3, <2>4
<1>2. CacheFits
  <2>1. arp = [k \in Cells |-> Empty] /\ victim = 0
    BY DEF DevInit, Cells
  <2>2. Empty \in [ip : Stations \cup {None}, mac : Macs] /\ Empty.ip = None
    BY DEF Empty, Macs, None
  <2> QED BY <2>1, <2>2, DevNumbers DEF CacheFits
<1>3. TxFits
  BY EmptySeq DEF DevInit, TxFits
<1> QED BY <1>1, <1>2, <1>3 DEF DevInv

\* The frame of the queue goes where the buffer goes.
LEMMA RxStepKeeps ==
    ASSUME RxFits, DevNext
    PROVE  RxFits'
<1> DEFINE A == ToSet(avail)
           U == IdsOf(usedRing)
           H == IdsOf(inHand)
<1>0. /\ ready' = ready
      /\ avail \in Seq(Buffers) /\ usedRing \in Seq(InRingType)
      /\ Len(avail) \in Nat /\ Len(usedRing) \in Nat
      /\ (inHand = <<>> \/ \E e \in InHandType : inHand = <<e>>)
      /\ ready => /\ A \cup U \cup H = Buffers
                  /\ Len(avail) + Len(usedRing) + Len(inHand) = Cardinality(Buffers)
  <2>1. ready' = ready
    BY DEF DevNext, DeviceReceives, DeviceSends, TxCompletes, TxDeadline, Call, Irq, IrqEnter,
           IrqTake, Parse, Repost, IrqLeave
  <2> QED BY <2>1, LenProperties DEF RxFits
<1>a. Cardinality(Buffers) \in Nat
  BY BuffersFinite
<1>1. CASE \E f \in Arriving : DeviceReceives(f)
  <2>1. PICK f \in Arriving : DeviceReceives(f)
    BY <1>1
  <2> DEFINE x == [id |-> Head(avail), frame |-> f]
  <2>2. /\ avail # <<>> /\ usedRing' = Append(usedRing, x) /\ avail' = Tail(avail)
        /\ inHand' = inHand
    BY <2>1 DEF DeviceReceives
  <2>3. /\ Head(avail) \in Buffers /\ Tail(avail) \in Seq(Buffers)
        /\ Len(Tail(avail)) = Len(avail) - 1
        /\ A = {Head(avail)} \cup ToSet(Tail(avail))
    BY <1>0, <2>2, HeadTailProperties, ToSetHead
  <2>4. x \in InRingType /\ x.id = Head(avail)
    BY <2>3 DEF InRingType
  <2> HIDE DEF x
  <2>5. /\ usedRing' \in Seq(InRingType) /\ Len(usedRing') = Len(usedRing) + 1
        /\ IdsOf(usedRing') = U \cup {Head(avail)}
    BY <1>0, <2>2, <2>4, AppendProperties, IdsAppend
  <2>6. ready => ToSet(avail') \cup IdsOf(usedRing') \cup IdsOf(inHand') = Buffers
    BY <1>0, <2>2, <2>3, <2>5
  <2>7. ready => Len(avail') + Len(usedRing') + Len(inHand') = Cardinality(Buffers)
    <3>1. /\ Len(avail') = Len(avail) - 1 /\ Len(usedRing') = Len(usedRing) + 1
          /\ Len(inHand') = Len(inHand)
      BY <2>2, <2>3, <2>5
    <3>2. Len(inHand) \in Nat
      BY <1>0, ToSetFew
    <3> QED BY <1>0, <1>a, <3>1, <3>2
  <2> QED BY <1>0, <2>2, <2>3, <2>5, <2>6, <2>7 DEF RxFits
<1>2. CASE IrqTake
  <2> DEFINE x == [id |-> Head(usedRing).id, frame |-> Head(usedRing).frame, parsed |-> FALSE]
  <2>1. /\ inHand = <<>> /\ usedRing # <<>> /\ inHand' = <<x>> /\ usedRing' = Tail(usedRing)
        /\ avail' = avail
    BY <1>2 DEF IrqTake
  <2>2. /\ Head(usedRing) \in InRingType /\ Tail(usedRing) \in Seq(InRingType)
        /\ Len(Tail(usedRing)) = Len(usedRing) - 1
        /\ U = {Head(usedRing).id} \cup IdsOf(Tail(usedRing))
    BY <1>0, <2>1, HeadTailProperties, IdsHead
  <2>3. x \in InHandType /\ x.id = Head(usedRing).id
    BY <2>2 DEF InRingType, InHandType
  <2> HIDE DEF x
  <2>4. H = {} /\ IdsOf(inHand') = {Head(usedRing).id} /\ Len(inHand) = 0 /\ Len(inHand') = 1
    BY <2>1, <2>3, IdsFew, ToSetFew
  <2>5. ready => ToSet(avail') \cup IdsOf(usedRing') \cup IdsOf(inHand') = Buffers
    BY <1>0, <2>1, <2>2, <2>4
  <2>6. ready => Len(avail') + Len(usedRing') + Len(inHand') = Cardinality(Buffers)
    <3>1. Len(avail') = Len(avail) /\ Len(usedRing') = Len(usedRing) - 1
      BY <2>1, <2>2
    <3> QED BY <1>0, <1>a, <2>4, <3>1
  <2> QED BY <1>0, <2>1, <2>2, <2>3, <2>5, <2>6 DEF RxFits
<1>3. CASE Parse
  <2>1. /\ inHand # <<>> /\ inHand' = <<[inHand[1] EXCEPT !.parsed = TRUE]>>
        /\ UNCHANGED <<avail, usedRing>>
    BY <1>3 DEF Parse
  <2>2. PICK e \in InHandType : inHand = <<e>>
    BY <1>0, <2>1
  <2> DEFINE x == [e EXCEPT !.parsed = TRUE]
  <2>3. x \in InHandType /\ x.id = e.id /\ inHand' = <<x>>
    BY <2>1, <2>2 DEF InHandType
  <2> HIDE DEF x
  <2>4. H = {e.id} /\ IdsOf(inHand') = {e.id} /\ Len(inHand) = 1 /\ Len(inHand') = 1
    BY <2>2, <2>3, IdsFew, ToSetFew
  <2> QED BY <1>0, <2>1, <2>3, <2>4 DEF RxFits
<1>4. CASE Repost
  <2>1. /\ inHand # <<>> /\ inHand' = <<>> /\ avail' = Append(avail, inHand[1].id)
        /\ usedRing' = usedRing
    BY <1>4 DEF Repost, Reposted
  <2>2. PICK e \in InHandType : inHand = <<e>>
    BY <1>0, <2>1
  <2>3. avail' = Append(avail, e.id) /\ e.id \in Buffers
    BY <2>1, <2>2 DEF InHandType
  <2>4. /\ avail' \in Seq(Buffers) /\ Len(avail') = Len(avail) + 1 /\ ToSet(avail') = A \cup {e.id}
    BY <1>0, <2>3, AppendProperties, ToSetAppend
  <2>5. H = {e.id} /\ IdsOf(inHand') = {} /\ Len(inHand) = 1 /\ Len(inHand') = 0
    BY <2>1, <2>2, IdsFew, ToSetFew
  <2>6. ready => ToSet(avail') \cup IdsOf(usedRing') \cup IdsOf(inHand') = Buffers
    BY <1>0, <2>1, <2>4, <2>5
  <2>7. ready => Len(avail') + Len(usedRing') + Len(inHand') = Cardinality(Buffers)
    BY <1>0, <1>a, <2>1, <2>4, <2>5
  <2> QED BY <1>0, <2>1, <2>4, <2>6, <2>7 DEF RxFits
<1>5. CASE UNCHANGED Rx
  BY <1>0, <1>5 DEF RxFits, Rx
<1> QED
  BY <1>1, <1>2, <1>3, <1>4, <1>5
     DEF DevNext, DeviceSends, TxCompletes, TxDeadline, Call, Irq, IrqEnter, IrqLeave

\* A station is looked for before it is entered.
LEMMA LearnFits ==
    ASSUME CacheFits, NEW ip \in Stations, NEW mac \in Macs, Learn(ip, mac)
    PROVE  CacheFits'
<1>0. /\ arp \in [Cells -> [ip : Stations \cup {None}, mac : Macs]] /\ victim \in Cells
      /\ \A i, j \in Cells : arp[i].ip = arp[j].ip /\ arp[i].ip # None => i = j
      /\ Known(ip) = {k \in Cells : arp[k].ip = ip}
  BY DEF CacheFits, Known
<1>1. CASE Known(ip) # {}
  <2> DEFINE k == CHOOSE k \in Known(ip) : TRUE
  <2>1. k \in Cells
    BY <1>0, <1>1
  <2>2. arp' = [arp EXCEPT ![k].mac = mac] /\ victim' = victim
    BY <1>1 DEF Learn
  <2> HIDE DEF k
  <2>3. /\ arp' \in [Cells -> [ip : Stations \cup {None}, mac : Macs]]
        /\ \A i \in Cells : arp'[i].ip = arp[i].ip
    BY <1>0, <2>1, <2>2
  <2> QED BY <1>0, <2>2, <2>3 DEF CacheFits
<1>2. CASE Known(ip) = {}
  <2> DEFINE e == [ip |-> ip, mac |-> mac]
  <2>1. arp' = [arp EXCEPT ![victim] = e] /\ victim' = (victim + 1) % ArpSlots
    BY <1>2 DEF Learn
  <2>2. e \in [ip : Stations \cup {None}, mac : Macs] /\ e.ip = ip
    OBVIOUS
  <2> HIDE DEF e
  <2>3. victim' \in Cells
    BY <1>0, <2>1, DevNumbers
  <2>4. /\ arp' \in [Cells -> [ip : Stations \cup {None}, mac : Macs]]
        /\ arp'[victim] = e /\ \A i \in Cells : i # victim => arp'[i] = arp[i]
    BY <1>0, <2>1, <2>2
  <2>5. \A i \in Cells : arp[i].ip # ip
    BY <1>0, <1>2
  <2>6. \A i, j \in Cells : arp'[i].ip = arp'[j].ip /\ arp'[i].ip # None => i = j
    BY <1>0, <2>2, <2>4, <2>5
  <2> QED BY <2>3, <2>4, <2>6 DEF CacheFits
<1> QED BY <1>1, <1>2

LEMMA FrameIs ==
    ASSUME NEW f \in Arriving
    PROVE  f.src \in Stations /\ f.dst \in Macs
BY DEF Arriving, Macs

LEMMA CacheStepKeeps ==
    ASSUME RxFits, CacheFits, DevNext
    PROVE  CacheFits'
<1>1. CASE Parse
  <2>1. inHand # <<>> /\ Learn(inHand[1].frame.src,
                               IF inHand[1].frame.type = "ip" THEN inHand[1].frame.dst
                                                              ELSE inHand[1].frame.src)
    BY <1>1 DEF Parse
  <2>2. PICK e \in InHandType : inHand = <<e>>
    BY <2>1 DEF RxFits
  <2>3. e.frame \in Arriving /\ inHand[1] = e
    BY <2>2 DEF InHandType
  <2> DEFINE ip == e.frame.src
             mac == IF e.frame.type = "ip" THEN e.frame.dst ELSE e.frame.src
  <2>4. ip \in Stations /\ mac \in Macs
    BY <2>3, FrameIs DEF Macs
  <2>5. Learn(ip, mac)
    BY <2>1, <2>3
  <2> HIDE DEF ip, mac
  <2> QED BY <2>4, <2>5, LearnFits
<1>2. CASE UNCHANGED <<arp, victim>>
  BY <1>2 DEF CacheFits
<1> QED
  BY <1>1, <1>2 DEF DevNext, DeviceReceives, DeviceSends, TxCompletes, TxDeadline, Call, Ask, Irq,
                    IrqEnter, IrqTake, Repost, IrqLeave, Cache

LEMMA QueueEmpty ==
    ASSUME NEW q \in Seq(Sent), Len(q) = 1
    PROVE  q # <<>> /\ Tail(q) = <<>> /\ Tail(q) \in Seq(Sent)
<1>1. q # <<>>
  BY EmptySeq
<1>2. Tail(q) \in Seq(Sent) /\ Len(Tail(q)) = 0
  BY <1>1, HeadTailProperties
<1> QED BY <1>1, <1>2, EmptySeq

LEMMA SubmitFits ==
    ASSUME TxFits, NEW f, f.type \in Sent, Submit(f), UNCHANGED <<timeouts, claimed, onWire>>
    PROVE  TxFits'
<1>1. /\ polling = <<>> /\ txp' = f /\ txQueue' = Append(txQueue, f.type) /\ polling' = <<f>>
      /\ txDone' = txDone
  BY DEF Submit
<1>2. txQueue' \in Seq(Sent) /\ Len(txQueue') = Len(txQueue) + 1
  BY <1>1, AppendProperties DEF TxFits
<1>3. ASSUME timeouts = 0 PROVE txDone = 0 /\ Len(txQueue') = 1
  <2>1. txDone = 0 /\ txQueue = <<>>
    BY <1>1, <1>3 DEF TxFits
  <2> QED BY <1>2, <2>1, ToSetFew
<1> QED BY <1>1, <1>2, <1>3 DEF TxFits

LEMMA TxStepKeeps ==
    ASSUME TxFits, DevNext
    PROVE  TxFits'
<1>0. timeouts \in Nat /\ txDone \in Nat /\ txQueue \in Seq(Sent)
  BY DEF TxFits
<1>1. CASE DeviceSends
  <2>1. /\ txQueue # <<>> /\ txQueue' = Tail(txQueue) /\ onWire' = onWire \cup {txp}
        /\ txDone' = txDone + 1 /\ UNCHANGED <<txp, polling, claimed, timeouts>>
    BY <1>1 DEF DeviceSends
  <2>2. txQueue' \in Seq(Sent) /\ txDone' \in Nat
    BY <1>0, <2>1, HeadTailProperties
  <2>3. ASSUME timeouts = 0
        PROVE  /\ claimed' \subseteq onWire'
               /\ polling' = <<txp'>> /\ txDone' = 1 /\ txQueue' = <<>> /\ txp' \in onWire'
    <3>1. claimed \subseteq onWire /\ polling = <<txp>> /\ txDone = 0 /\ Len(txQueue) = 1
      BY <2>1, <2>3 DEF TxFits
    <3>2. txQueue' = <<>>
      BY <1>0, <2>1, <3>1, QueueEmpty
    <3> QED BY <2>1, <3>1, <3>2
  <2> QED BY <2>1, <2>2, <2>3 DEF TxFits
<1>2. CASE TxCompletes
  <2>1. /\ polling # <<>> /\ txDone > 0 /\ txDone' = txDone - 1
        /\ claimed' = claimed \cup {polling[1]} /\ polling' = <<>>
        /\ UNCHANGED <<txp, txQueue, onWire, timeouts>>
    BY <1>2 DEF TxCompletes, Completed, Seen
  <2>2. txDone' \in Nat
    BY <1>0, <2>1
  <2>3. ASSUME timeouts = 0
        PROVE  claimed' \subseteq onWire' /\ txDone' = 0 /\ txQueue' = <<>>
    <3>1. claimed \subseteq onWire /\ polling = <<txp>> /\ txDone = 1 /\ txQueue = <<>> /\ txp \in onWire
      BY <2>1, <2>3 DEF TxFits
    <3> QED BY <2>1, <3>1
  <2> QED BY <1>0, <2>1, <2>2, <2>3 DEF TxFits
<1>3. CASE TxDeadline
  <2>1. timeouts' = timeouts + 1 /\ UNCHANGED <<txQueue, txDone>>
    BY <1>3 DEF TxDeadline
  <2>2. timeouts' \in Nat /\ timeouts' # 0
    BY <1>0, <2>1
  <2> QED BY <1>0, <2>1, <2>2 DEF TxFits
<1>4. CASE \E ip \in Stations : Call(ip)
  <2>1. PICK ip \in Stations : Call(ip)
    BY <1>4
  <2>2. UNCHANGED <<timeouts, claimed, onWire>>
    BY <2>1 DEF Call, Past
  <2>3. CASE UNCHANGED Tx
    BY <1>0, <2>2, <2>3 DEF Tx, TxFits
  <2>4. CASE \E mac : Submit(FrameTo("request", mac)) \/ Submit(FrameTo("ip", mac))
    <3>1. \A mac : FrameTo("request", mac).type \in Sent /\ FrameTo("ip", mac).type \in Sent
      BY DEF FrameTo, Sent
    <3> QED BY <2>2, <2>4, <3>1, SubmitFits
  <2> QED BY <2>1, <2>3, <2>4 DEF Call, Ask
<1>5. CASE Parse
  <2>1. UNCHANGED <<timeouts, claimed, onWire>>
    BY <1>5 DEF Parse, Past
  <2>2. CASE UNCHANGED Tx
    BY <1>0, <2>1, <2>2 DEF Tx, TxFits
  <2>3. CASE \E mac : Submit(FrameTo("reply", mac)) \/ Submit(FrameTo("ip", mac))
    <3>1. \A mac : FrameTo("reply", mac).type \in Sent /\ FrameTo("ip", mac).type \in Sent
      BY DEF FrameTo, Sent
    <3> QED BY <2>1, <2>3, <3>1, SubmitFits
  <2> QED BY <1>5, <2>2, <2>3 DEF Parse
<1>6. CASE IrqLeave
  <2>1. polling = <<>> /\ txDone' = 0 /\ UNCHANGED <<txp, txQueue, polling, onWire, claimed, timeouts>>
    BY <1>6 DEF IrqLeave, Past
  <2> QED BY <1>0, <2>1 DEF TxFits
<1>7. CASE UNCHANGED <<Tx, onWire, claimed, timeouts>>
  BY <1>0, <1>7 DEF TxFits, Tx
<1> QED
  BY <1>1, <1>2, <1>3, <1>4, <1>5, <1>6, <1>7
     DEF DevNext, DeviceReceives, Irq, IrqEnter, IrqTake, Repost, Past

LEMMA DevStepKeeps == DevInv /\ [DevNext]_devVars => DevInv'
<1>1. DevInv /\ DevNext => DevInv'
  BY RxStepKeeps, CacheStepKeeps, TxStepKeeps DEF DevInv
<1>2. ASSUME DevInv, UNCHANGED devVars PROVE DevInv'
  <2>1. RxFits'
    BY <1>2 DEF DevInv, RxFits, devVars
  <2>2. CacheFits'
    BY <1>2 DEF DevInv, CacheFits, devVars
  <2>3. TxFits'
    BY <1>2 DEF DevInv, TxFits, devVars
  <2> QED BY <2>1, <2>2, <2>3 DEF DevInv
<1> QED BY <1>1, <1>2

LEMMA DevInvIsEnough == DevInv => BuffersConserved /\ OneEntryPerStation /\ ReportedIsSent
<1> SUFFICES ASSUME DevInv PROVE BuffersConserved /\ OneEntryPerStation /\ ReportedIsSent
  OBVIOUS
<1>1. BuffersConserved
  <2>1. InRing = ToSet(avail) \cup IdsOf(usedRing) /\ InUse = IdsOf(inHand)
    BY DEF InRing, InUse, IdsOf
  <2> QED BY <2>1 DEF BuffersConserved, DevInv, RxFits
<1>2. OneEntryPerStation
  BY DEF OneEntryPerStation, DevInv, CacheFits
<1>3. ReportedIsSent
  <2> SUFFICES ASSUME timeouts = 0 PROVE claimed \subseteq onWire /\ txDone + Len(txQueue) <= 1
    BY DEF ReportedIsSent
  <2>1. /\ claimed \subseteq onWire
        /\ (txDone = 0 /\ txQueue = <<>>) \/ (txDone = 0 /\ Len(txQueue) = 1)
             \/ (txDone = 1 /\ txQueue = <<>>)
    BY DEF DevInv, TxFits
  <2>2. txQueue = <<>> => Len(txQueue) = 0
    BY ToSetFew
  <2>3. CASE txDone = 0 /\ Len(txQueue) = 1
    BY <2>1, <2>3
  <2>4. CASE txDone \in {0, 1} /\ txQueue = <<>>
    <3>1. Len(txQueue) = 0
      BY <2>2, <2>4
    <3> QED BY <2>1, <2>4, <3>1
  <2> QED BY <2>1, <2>3, <2>4
<1> QED BY <1>1, <1>2, <1>3

LEMMA FrameStays ==
    ASSUME DevInv, [DevNext]_devVars, timeouts = 0, txQueue # <<>>
    PROVE  txp' = txp
<1>1. polling # <<>>
  BY DEF DevInv, TxFits
<1> QED
  BY <1>1 DEF DevNext, devVars, DeviceReceives, DeviceSends, TxCompletes, TxDeadline, Call, Ask, Submit,
              Irq, IrqEnter, IrqTake, Parse, Repost, IrqLeave, Tx

\* Whatever arrives and however often the handler and socket calls take turns: no receive
\* buffer is lost or used twice, a station has one entry in the cache, and until a deadline
\* passed what is reported as sent was sent and a frame on its way is not overwritten
\* (harvest_locked, repost_rx, arp_learn, tx_submit_locked).
THEOREM DeviceHolds ==
    DevSpec => [](BuffersConserved /\ OneEntryPerStation /\ ReportedIsSent) /\ BufferIsStable
<1> DEFINE Stays == timeouts = 0 /\ txQueue # <<>> /\ ready => txp' = txp
<1>1. DevInv /\ [DevNext]_devVars => [Stays]_devVars
  BY FrameStays
<1>2. DevSpec => [](BuffersConserved /\ OneEntryPerStation /\ ReportedIsSent) /\ [][Stays]_devVars
  <2> HIDE DEF Stays
  <2> QED BY <1>1, DevInitFits, DevStepKeeps, DevInvIsEnough, PTL DEF DevSpec
<1> QED
  BY <1>2 DEF BufferIsStable

----------------------------------------------------------------------------
(* The four of them                                                        *)

\* In a behaviour of MCNet one part moves and the others stay: each is a behaviour of its own.
LEMMA EachPart ==
    NetSpec => DevSpec /\ SockSpec /\ DgSpec /\ TcpSpec
<1>1. NetInit => DevInit /\ SockInit /\ DgInit /\ TcpInit
  BY DEF NetInit
<1>2. [NetNext]_netVars =>
        [DevNext]_devVars /\ [SockNext]_sockVars /\ [DgNext]_dgVars /\ [TcpNext]_tcpVars
  <2>1. CASE Device
    BY <2>1 DEF Device
  <2>2. CASE Descriptors_
    BY <2>2 DEF Descriptors_
  <2>3. CASE Packets
    BY <2>3 DEF Packets
  <2>4. CASE Connection
    BY <2>4 DEF Connection
  <2>5. CASE UNCHANGED netVars
    BY <2>5 DEF netVars
  <2> QED BY <2>1, <2>2, <2>3, <2>4, <2>5 DEF NetNext
<1> QED BY <1>1, <1>2, PTL DEF NetSpec, DevSpec, SockSpec, DgSpec, TcpSpec

\* Nothing is lost in the stack: buffers, slots, ports, packets and bytes.
THEOREM NothingIsLost == NetFairSpec => []NothingLost
<1>1. NetFairSpec => NetSpec
  BY PTL DEF NetFairSpec
<1>2. TcpInv => TcpTypeOK /\ ReadsTheStream /\ SendsTheStream /\ NothingForgotten
  BY TcpInvIsEnough
<1>3. DevInv /\ SockInv /\ DgInv /\ TcpInv => NothingLost
  BY <1>2, DevInvIsEnough, SockInvIsEnough, DgInvIsEnough DEF NothingLost
<1>4. DgInv /\ [DgNext]_dgVars => DgInv'
  BY DgStepKeeps
<1> QED
  BY <1>1, <1>3, <1>4, EachPart, DevInitFits, DevStepKeeps, SockInitFits, SockStepKeeps, DgInitFits,
     TcpInitFits, TcpStepKeeps, PTL DEF DevSpec, SockSpec, DgSpec, TcpSpec

\* What is sent is sent as given, what arrives is given in order, and nothing established is
\* taken away but by a reset or a timeout.
THEOREM SentAsGiven == NetFairSpec => SendsAsGiven
<1>1. NetFairSpec => NetSpec
  BY PTL DEF NetFairSpec
<1> QED
  BY <1>1, EachPart, DeviceHolds, SocketsHold, DatagramsHold, PTL DEF SendsAsGiven
============================================================================
