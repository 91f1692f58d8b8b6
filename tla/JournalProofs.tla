--------------------------- MODULE JournalProofs ---------------------------
(***************************************************************************)
(* Journal on one hart, for any blocks, any ring and any system calls: a   *)
(* call that returned survives any number of power cuts, wherever they     *)
(* come, and recovery never finds anything no call wrote, until a cut      *)
(* makes mount skip recovery.  The invariant says of every state what a    *)
(* power cut in it would leave.                                            *)
(***************************************************************************)
EXTENDS MCJournal, FiniteSetTheorems, SequenceTheorems, NaturalsInduction, WellFoundedInduction, TLAPS

----------------------------------------------------------------------------
(* The ring as a function from slots to records: what makes its transactions *)
(* recoverable, and what writing one more record does to it.  Nothing here   *)
(* depends on when the records are written.                                  *)

(* Numbers and slots *)

LEMMA Remainder ==
    ASSUME NEW a \in Nat, NEW n \in Nat \ {0}
    PROVE  \E q \in Nat, r \in 0 .. n - 1 : a = (n * q) + r /\ (a % n) = r
<1> DEFINE q == a \div n
<1> DEFINE r == a % n
<1>1. r \in 0 .. n - 1
  BY SMTT(20)
<1>2. q \in Nat
  BY SMTT(20)
<1>3. a = (n * q) + r
  BY SMTT(20)
<1>4. QED
  BY <1>1, <1>2, <1>3

LEMMA OfRemainder ==
    ASSUME NEW q \in Nat, NEW r \in Nat, NEW n \in Nat \ {0}, r < n
    PROVE  ((n * q) + r) % n = r
BY SMTT(20)

LEMMA Multiples ==
    ASSUME NEW q \in Nat, NEW p \in Nat, NEW n \in Nat
    PROVE  /\ n * q \in Nat
           /\ n * (q + 1) = (n * q) + n
           /\ q <= p => n * q <= n * p
BY SMT

\* Two numbers that share a slot are a ring apart.
LEMMA RingApart ==
    ASSUME NEW a \in Nat, NEW b \in Nat, NEW n \in Nat \ {0}, (a % n) = (b % n), a < b
    PROVE  a + n <= b
<1>1. PICK q \in Nat, r \in 0 .. n - 1 : a = (n * q) + r /\ (a % n) = r
  BY Remainder
<1>2. PICK p \in Nat, s \in 0 .. n - 1 : b = (n * p) + s /\ (b % n) = s
  BY Remainder
<1>3. r = s
  BY <1>1, <1>2
<1>4. n * q \in Nat /\ n * p \in Nat
  BY Multiples
<1>5. CASE p <= q
  <2>1. n * p <= n * q
    BY <1>5, Multiples
  <2>2. QED
    BY <2>1, <1>1, <1>2, <1>3, <1>4
<1>6. CASE q + 1 <= p
  <2>1. n * (q + 1) <= n * p
    BY <1>6, Multiples
  <2>2. (n * q) + n <= n * p
    BY <2>1, Multiples
  <2>3. a + n = ((n * q) + n) + r
    BY <1>1, <1>4
  <2>4. QED
    BY <2>2, <2>3, <1>2, <1>3, <1>4
<1>7. QED
  BY <1>5, <1>6

\* The number a ring later has the same slot.
LEMMA RingLater ==
    ASSUME NEW a \in Nat, NEW n \in Nat \ {0}
    PROVE  ((a + n) % n) = (a % n)
<1>1. PICK q \in Nat, r \in 0 .. n - 1 : a = (n * q) + r /\ (a % n) = r
  BY Remainder
<1>2. q + 1 \in Nat /\ r \in Nat /\ r < n
  OBVIOUS
<1>3. ((n * (q + 1)) + r) % n = r
  BY <1>2, OfRemainder
<1>4. a + n = (n * (q + 1)) + r
  BY <1>1, Multiples
<1>5. QED
  BY <1>1, <1>3, <1>4

\* The numbers of one round take every slot.
LEMMA RoundTakesAll ==
    ASSUME NEW top \in Nat, NEW n \in Nat \ {0}, n <= top, NEW s \in 0 .. n - 1
    PROVE  \E j \in (top - n) .. (top - 1) : (j % n) = s
<1> DEFINE a == (top - 1) - s
<1>1. a \in Nat
  OBVIOUS
<1> HIDE DEF a
<1>2. PICK q \in Nat, r \in 0 .. n - 1 : a = (n * q) + r /\ (a % n) = r
  BY <1>1, Remainder
<1> DEFINE j == (n * q) + s
<1>3. (j % n) = s
  BY OfRemainder
<1>4. j = ((top - 1) - r)
  BY <1>2, Multiples DEF a
<1>5. j \in (top - n) .. (top - 1)
  BY <1>4
<1>6. QED
  BY <1>3, <1>5

----------------------------------------------------------------------------
(* The ring *)

AnyRec == [kind : {"none", "data", "commit"}, gen : Nat, seq : Nat, lba : Blocks, tx : Nat, sum : Int]

Live(A, g)       == {s \in Slots : A[s].kind # "none" /\ A[s].gen = g /\ A[s].seq # 0}
InTx(A, g)       == {s \in Live(A, g) : A[s].tx # 0}
Members(A, g, t) == {s \in Live(A, g) : A[s].kind = "data" /\ A[s].tx = t}
Seals(A, g, t)   == {s \in Live(A, g) : A[s].kind = "commit" /\ A[s].tx = t}
Sound(A, B, g, t) == {s \in Members(A, g, t) : A[s].sum = B[s]}

\* Recovery would apply transaction t.
Intact(A, B, g, t) == \E c \in Seals(A, g, t) : A[c].sum = Cardinality(Sound(A, B, g, t))

\* A record is in the slot of its number.
Placed(A, g) ==
    \A s \in Live(A, g) : /\ A[s].seq % NRec = s
                          /\ A[s].kind = "commit" => A[s].tx # 0 /\ A[s].sum \in 1 .. Chunk

\* Later records are of later transactions, and later calls.
Ordered(A, g) ==
    \A s, q \in InTx(A, g) :
      A[s].kind = "data" /\ A[q].kind = "data" /\ A[s].seq < A[q].seq =>
        A[s].tx <= A[q].tx /\ A[s].sum <= A[q].sum

\* A commit comes after the records of its transaction and before those of later ones,
\* but for the record that opened the valve; a transaction has one commit.
Sealed(A, g) ==
    \A c, s \in InTx(A, g) : A[c].kind = "commit" =>
      /\ A[s].kind = "data" /\ A[s].tx <= A[c].tx => A[s].seq < A[c].seq
      /\ A[s].kind = "data" /\ A[s].tx > A[c].tx =>
           A[s].seq > A[c].seq \/ (A[c].seq = A[s].seq + 1 /\ A[c].sum = Chunk)
      /\ A[s].kind = "commit" /\ A[c].tx < A[s].tx => A[c].seq < A[s].seq
      /\ A[s].kind = "commit" /\ A[c].tx = A[s].tx => c = s

\* A commit counts all records of its transaction, and they are right before it.
Spans(A, g) ==
    \A c \in InTx(A, g) : A[c].kind = "commit" =>
      /\ Cardinality(Members(A, g, A[c].tx)) <= A[c].sum
      /\ \E d \in {1, 2} :
           /\ d = 2 => A[c].sum = Chunk
           /\ \A s \in Members(A, g, A[c].tx) :
                A[s].seq + d <= A[c].seq /\ A[c].seq <= A[s].seq + A[c].sum + d

\* What recovery would apply is at most a round old, but for a number whose record a
\* power cut kept from the device.
Young(A, B, g) ==
    \A e \in InTx(A, g) : Intact(A, B, g, A[e].tx) =>
      \A q \in Live(A, g) : A[q].seq <= A[e].seq + NRec + 1

RingOK(A, B, g) == Placed(A, g) /\ Ordered(A, g) /\ Sealed(A, g) /\ Spans(A, g) /\ Young(A, B, g)

Put(A, r) == [A EXCEPT ![Slot(r)] = r]

\* A record that may be written, and its number is the next, or one below the last, or
\* nothing is older than a round.
Fits(A, g, r) ==
    /\ r \in AnyRec /\ r.kind # "none" /\ r.gen = g /\ r.seq >= 1
    /\ \A q \in Live(A, g) : A[q].seq < r.seq \/ A[q].seq = r.seq + 1
    /\ \/ r.seq = 1
       \/ \E q \in Live(A, g) : A[q].seq = r.seq - 1
       \/ \E q \in Live(A, g) : A[q].seq = r.seq + 1
       \/ \A e \in InTx(A, g) : A[e].seq + NRec + 1 >= r.seq

----------------------------------------------------------------------------
(* Counting *)

LEMMA SlotsFinite == IsFiniteSet(Slots)
BY JournalAssumption, FS_Interval DEF Slots

LEMMA PartsFinite ==
    ASSUME NEW S \in SUBSET Slots
    PROVE  IsFiniteSet(S) /\ Cardinality(S) \in Nat
BY SlotsFinite, FS_Subset, FS_CardinalityType

\* Records in their slots, of numbers from lo to hi, are no more than the numbers.
LEMMA NumbersBound ==
    ASSUME NEW A \in [Slots -> AnyRec], NEW S \in SUBSET Slots,
           \A s \in S : A[s].seq % NRec = s,
           NEW lo \in Int, NEW hi \in Int, \A s \in S : A[s].seq \in lo .. hi
    PROVE  Cardinality(S) <= (IF lo > hi THEN 0 ELSE (hi - lo) + 1)
<1> DEFINE f == [s \in S |-> A[s].seq]
<1>1. f \in [S -> lo .. hi]
  OBVIOUS
<1>2. ASSUME NEW s \in S, NEW q \in S, f[s] = f[q]
      PROVE  s = q
  BY <1>2
<1>3. f \in Injection(S, lo .. hi)
  BY <1>1, <1>2, Zenon DEF Injection, IsInjective
<1>4. IsFiniteSet(lo .. hi) /\ Cardinality(lo .. hi) = IF lo > hi THEN 0 ELSE (hi - lo) + 1
  BY FS_Interval
<1>5. QED
  BY <1>3, <1>4, FS_Injection

----------------------------------------------------------------------------
(* One more record *)

LEMMA PutEffect ==
    ASSUME NEW A \in [Slots -> AnyRec], NEW g, NEW r, Fits(A, g, r)
    PROVE  /\ Slot(r) \in Slots
           /\ Put(A, r) \in [Slots -> AnyRec]
           /\ Put(A, r)[Slot(r)] = r
           /\ \A s \in Slots : s # Slot(r) => Put(A, r)[s] = A[s]
           /\ Live(Put(A, r), g) = Live(A, g) \cup {Slot(r)}
<1>1. Slot(r) \in Slots
  <2>1. r.seq \in Nat /\ NRec \in Nat \ {0}
    BY JournalAssumption DEF Fits, AnyRec
  <2>2. \E q \in Nat, m \in 0 .. NRec - 1 : r.seq = (NRec * q) + m /\ (r.seq % NRec) = m
    BY <2>1, Remainder
  <2>3. QED
    BY <2>2 DEF Slot, Slots
<1>2. r \in AnyRec
  BY DEF Fits
<1>3. Put(A, r) \in [Slots -> AnyRec] /\ Put(A, r)[Slot(r)] = r
  BY <1>1, <1>2 DEF Put
<1>4. \A s \in Slots : s # Slot(r) => Put(A, r)[s] = A[s]
  BY <1>1 DEF Put
<1>5. Slot(r) \in Live(Put(A, r), g)
  BY <1>1, <1>3 DEF Live, Fits, AnyRec
<1>6. Live(Put(A, r), g) = Live(A, g) \cup {Slot(r)}
  BY <1>1, <1>4, <1>5 DEF Live
<1>7. QED
  BY <1>1, <1>3, <1>4, <1>6

LEMMA Sizes == NRec \in Nat \ {0} /\ NRec > 4 /\ NRec > Chunk + 2 /\ Chunk \in Nat /\ Chunk >= 2
BY JournalAssumption

LEMMA RecordNumber ==
    ASSUME NEW A \in [Slots -> AnyRec], NEW g, NEW r, Fits(A, g, r)
    PROVE  /\ r.seq \in Nat /\ r.seq >= 1 /\ Slot(r) \in Slots /\ (r.seq % NRec) = Slot(r)
           /\ r.tx \in Nat /\ r.kind \in {"data", "commit"}
<1>1. r.seq \in Nat /\ r.seq >= 1 /\ r.tx \in Nat /\ r.kind \in {"data", "commit"}
  BY DEF Fits, AnyRec
<1>2. (r.seq % NRec) = Slot(r)
  BY DEF Slot
<1>3. QED
  BY <1>1, <1>2, PutEffect

\* The record whose place is taken was a round older at least.
LEMMA PutOver ==
    ASSUME NEW A \in [Slots -> AnyRec], NEW g, NEW r, Fits(A, g, r), Placed(A, g),
           Slot(r) \in Live(A, g)
    PROVE  A[Slot(r)].seq + NRec <= r.seq
<1> DEFINE v == A[Slot(r)].seq
<1>1. v \in Nat /\ r.seq \in Nat /\ NRec \in Nat \ {0} /\ NRec > 1
  BY JournalAssumption DEF Live, Fits, AnyRec
<1>2. (v % NRec) = (r.seq % NRec)
  BY DEF Placed, Slot
<1>3. v < r.seq \/ v = r.seq + 1
  BY DEF Fits
<1>4. CASE v < r.seq
  BY <1>1, <1>2, <1>4, RingApart
<1>5. CASE v = r.seq + 1
  <2>1. r.seq + NRec <= v
    BY <1>1, <1>2, <1>5, RingApart
  <2>2. QED
    BY <2>1, <1>1, <1>5
<1>6. QED
  BY <1>3, <1>4, <1>5

\* A transaction still intact after another's record is written was intact and lost none.
LEMMA Survives ==
    ASSUME NEW A \in [Slots -> AnyRec], NEW B, NEW g, NEW r, Fits(A, g, r), RingOK(A, B, g),
           NEW t, Intact(Put(A, r), B, g, t),
           r.tx = t => r.kind = "data" /\ Seals(A, g, t) = {}
    PROVE  /\ Intact(A, B, g, t)
           /\ t # r.tx
           /\ Slot(r) \notin Members(A, g, t) \cup Seals(A, g, t)
           /\ Members(Put(A, r), g, t) = Members(A, g, t)
           /\ Seals(Put(A, r), g, t) = Seals(A, g, t)
           /\ \A c \in Seals(A, g, t) : /\ A[c].sum = Cardinality(Members(A, g, t))
                                        /\ t # 0 /\ A[c].sum >= 1
<1> DEFINE A2 == Put(A, r)
<1> DEFINE p == Slot(r)
<1>1. /\ p \in Slots /\ A2[p] = r /\ Live(A2, g) = Live(A, g) \cup {p}
      /\ \A s \in Slots : s # p => A2[s] = A[s]
  BY PutEffect
<1> HIDE DEF A2
<1>2. PICK c \in Seals(A2, g, t) : A2[c].sum = Cardinality(Sound(A2, B, g, t))
  BY DEF Intact, A2
<1>3. c # p
  <2>1. ASSUME c = p PROVE FALSE
    <3>1. r.kind = "commit" /\ r.tx = t
      BY <2>1, <1>1, <1>2 DEF Seals
    <3>2. QED
      BY <3>1
  <2>2. QED
    BY <2>1
<1>4. c \in Seals(A, g, t) /\ A2[c] = A[c]
  BY <1>1, <1>2, <1>3 DEF Seals, Live
<1>5. t # r.tx
  BY <1>4
<1>6. Members(A2, g, t) = Members(A, g, t) \ {p}
  BY <1>1, <1>5 DEF Members, Live
<1>7. Sound(A2, B, g, t) \subseteq Sound(A, B, g, t) \ {p}
  BY <1>1, <1>6 DEF Sound, Members, Live
<1>8. t # 0 /\ A[c].sum \in 1 .. Chunk /\ c \in InTx(A, g) /\ A[c].tx = t /\ A[c].kind = "commit"
  BY <1>4 DEF RingOK, Placed, Seals, InTx
<1>9. Cardinality(Members(A, g, t)) <= A[c].sum
  BY <1>8 DEF RingOK, Spans
<1>10. /\ Members(A, g, t) \in SUBSET Slots
       /\ Sound(A, B, g, t) \in SUBSET Members(A, g, t)
       /\ Sound(A2, B, g, t) \in SUBSET (Members(A, g, t) \ {p})
       /\ Members(A, g, t) \ {p} \in SUBSET Members(A, g, t)
       /\ Sound(A2, B, g, t) \in SUBSET Sound(A, B, g, t)
  BY <1>7 DEF Sound, Members, Live
<1>11. /\ IsFiniteSet(Members(A, g, t)) /\ IsFiniteSet(Sound(A, B, g, t))
       /\ Cardinality(Members(A, g, t)) \in Nat /\ Cardinality(Sound(A, B, g, t)) \in Nat
       /\ Cardinality(Sound(A2, B, g, t)) \in Nat /\ Cardinality(Members(A, g, t) \ {p}) \in Nat
       /\ IsFiniteSet(Members(A, g, t) \ {p})
  BY <1>10, PartsFinite
<1>12. /\ Cardinality(Sound(A2, B, g, t)) <= Cardinality(Sound(A, B, g, t))
       /\ Cardinality(Sound(A, B, g, t)) <= Cardinality(Members(A, g, t))
       /\ Cardinality(Sound(A2, B, g, t)) <= Cardinality(Members(A, g, t) \ {p})
       /\ Cardinality(Members(A, g, t) \ {p}) <= Cardinality(Members(A, g, t))
  BY <1>10, <1>11, FS_Subset
<1>13. /\ A[c].sum = Cardinality(Sound(A, B, g, t))
       /\ A[c].sum = Cardinality(Members(A, g, t))
       /\ Cardinality(Members(A, g, t) \ {p}) = Cardinality(Members(A, g, t))
  BY <1>2, <1>4, <1>8, <1>9, <1>11, <1>12
<1>14. p \notin Members(A, g, t)
  BY <1>13, <1>11, FS_RemoveElement
<1>15. \A e \in Seals(A, g, t) : e = c
  <2>1. SUFFICES ASSUME NEW e \in Seals(A, g, t) PROVE e = c
    OBVIOUS
  <2>2. e \in InTx(A, g) /\ A[e].kind = "commit" /\ A[e].tx = t
    BY <1>8 DEF Seals, InTx
  <2>3. QED
    BY <2>2, <1>8 DEF RingOK, Sealed
<1>16. p \notin Seals(A, g, t)
  BY <1>15, <1>3
<1>17. Seals(A2, g, t) = Seals(A, g, t)
  BY <1>1, <1>5, <1>16 DEF Seals, Live
<1>18. Intact(A, B, g, t)
  BY <1>4, <1>13 DEF Intact
<1>19. QED
  BY <1>18, <1>5, <1>14, <1>16, <1>6, <1>17, <1>15, <1>13, <1>8 DEF A2

\* Of a transaction that is still intact nothing is more than a round and one old.
LEMMA StillYoung ==
    ASSUME NEW A \in [Slots -> AnyRec], NEW B, NEW g, NEW r, Fits(A, g, r), RingOK(A, B, g),
           NEW t, Intact(Put(A, r), B, g, t),
           r.tx = t => r.kind = "data" /\ Seals(A, g, t) = {},
           NEW e \in Members(A, g, t) \cup Seals(A, g, t)
    PROVE  r.seq <= A[e].seq + NRec + 1
<1> DEFINE p == Slot(r)
<1> DEFINE n == r.seq
<1> DEFINE M == Members(A, g, t)
<1>0. /\ NRec \in Nat \ {0} /\ NRec > 4 /\ Chunk \in Nat /\ Chunk >= 2
      /\ n \in Nat /\ n >= 1 /\ p \in Slots /\ (n % NRec) = p
  BY Sizes, RecordNumber
<1>1. /\ Intact(A, B, g, t) /\ p \notin M \cup Seals(A, g, t)
      /\ \A c \in Seals(A, g, t) : A[c].sum = Cardinality(M) /\ t # 0 /\ A[c].sum >= 1
  BY Survives
<1>2. PICK c \in Seals(A, g, t) : TRUE
  BY <1>1 DEF Intact
<1>3. \A s \in M \cup Seals(A, g, t) :
        /\ s \in InTx(A, g) /\ s \in Live(A, g) /\ s \in Slots /\ A[s].tx = t
        /\ A[s].seq \in Nat /\ A[s].seq >= 1 /\ (A[s].seq % NRec) = s
  BY <1>1, <1>2 DEF Members, Seals, InTx, Live, AnyRec, RingOK, Placed
<1>4. \A s \in M \cup Seals(A, g, t) : \A q \in Live(A, g) : A[q].seq <= A[s].seq + NRec + 1
  BY <1>1, <1>3 DEF RingOK, Young
<1>5. /\ c \in InTx(A, g) /\ A[c].kind = "commit" /\ A[c].tx = t /\ A[c].sum = Cardinality(M)
      /\ A[c].sum \in 1 .. Chunk
  BY <1>1, <1>2, <1>3 DEF Seals, RingOK, Placed
<1>6. CASE n = 1
  BY <1>0, <1>3, <1>6
<1>7. CASE \E q \in Live(A, g) : A[q].seq = n + 1
  BY <1>0, <1>3, <1>4, <1>7
<1>8. CASE \A s \in InTx(A, g) : A[s].seq + NRec + 1 >= n
  BY <1>0, <1>3, <1>8
<1>9. CASE \E q \in Live(A, g) : A[q].seq = n - 1
  <2>1. PICK q \in Live(A, g) : A[q].seq = n - 1
    BY <1>9
  <2>2. SUFFICES ASSUME A[e].seq + NRec + 1 < n PROVE FALSE
    BY <1>0, <1>3
  <2>3. A[e].seq + NRec + 2 = n
    BY <2>1, <2>2, <1>3, <1>4, <1>0
  <2> DEFINE v == A[e].seq
  <2>4. v \in Nat /\ v >= 1
    BY <1>3
  <2>5. /\ ((v + 1) + NRec) = n - 1 /\ ((v + 2) + NRec) = n
    BY <2>3, <2>4, <1>0
  <2>6. (v + 1) \in Nat /\ (v + 2) \in Nat
    BY <2>4
  <2>7. ((v + 1) % NRec) = q /\ ((v + 2) % NRec) = p
    <3>1. ((n - 1) % NRec) = q
      BY <2>1 DEF RingOK, Placed
    <3>2. QED
      BY <3>1, <2>5, <2>6, <1>0, RingLater
  <2>8. \A s \in M \cup Seals(A, g, t) : A[s].seq # v + 1 /\ A[s].seq # v + 2
    <3>1. SUFFICES ASSUME NEW s \in M \cup Seals(A, g, t)
                   PROVE  A[s].seq # v + 1 /\ A[s].seq # v + 2
      OBVIOUS
    <3>2. (A[s].seq % NRec) = s /\ s # p
      BY <1>1, <1>3
    <3>3. A[s].seq # v + 2
      BY <3>2, <2>7
    <3>4. ASSUME A[s].seq = v + 1 PROVE FALSE
      <4>1. s = q
        BY <3>2, <3>4, <2>7
      <4>2. A[s].seq = n - 1
        BY <4>1, <2>1
      <4>3. QED
        BY <4>2, <3>4, <2>5, <2>4, <1>0
    <3>5. QED
      BY <3>3, <3>4
  <2>9. \A s \in M \cup Seals(A, g, t) : A[s].seq >= v
    BY <2>1, <2>3, <1>3, <1>4, <1>0
  <2>10. PICK d \in {1, 2} :
           /\ d = 2 => A[c].sum = Chunk
           /\ \A s \in M : A[s].seq + d <= A[c].seq /\ A[c].seq <= A[s].seq + A[c].sum + d
    BY <1>5 DEF RingOK, Spans
  <2>11. A[c].seq \in Nat /\ A[c].sum \in Nat
    BY <1>3, <1>5
  <2>12. M \in SUBSET Slots /\ IsFiniteSet(M) /\ Cardinality(M) \in Nat
    <3>1. M \in SUBSET Slots
      BY <1>3
    <3>2. QED
      BY <3>1, PartsFinite
  <2>13. M # {}
    BY <1>5, FS_EmptySet
  <2>14. e \in M
    <3>1. PICK m \in M : TRUE
      BY <2>13
    <3>2. ASSUME e \in Seals(A, g, t) PROVE FALSE
      <4>1. e = c
        BY <3>2, <1>2, <1>3 DEF RingOK, Sealed, Seals
      <4>2. A[m].seq + d <= v
        BY <4>1, <2>10
      <4>3. QED
        BY <4>2, <2>9, <1>3, <2>4
    <3>3. QED
      BY <3>2
  <2>15. M \ {e} \in SUBSET Slots /\ Cardinality(M \ {e}) = Cardinality(M) - 1
    BY <2>12, <2>14, FS_RemoveElement
  <2>16. \A s \in M \ {e} : A[s].seq \in (v + 3) .. (A[c].seq - d)
    <3>1. SUFFICES ASSUME NEW s \in M \ {e} PROVE A[s].seq \in (v + 3) .. (A[c].seq - d)
      OBVIOUS
    <3>2. A[s].seq # v
      BY <1>3, <2>14
    <3>3. A[s].seq >= v + 3
      BY <3>2, <2>8, <2>9, <1>3, <2>4
    <3>4. A[s].seq + d <= A[c].seq
      BY <2>10
    <3>5. QED
      BY <3>3, <3>4, <1>3, <2>4, <2>11
  <2>17. \A s \in M \ {e} : (A[s].seq % NRec) = s
    BY <1>3
  <2>18. /\ v + 3 \in Int /\ (A[c].seq - d) \in Int
    BY <2>4, <2>11
  <2>19. Cardinality(M \ {e}) <= IF v + 3 > A[c].seq - d THEN 0 ELSE ((A[c].seq - d) - (v + 3)) + 1
    BY <2>15, <2>16, <2>17, <2>18, NumbersBound
  <2>20. A[c].seq <= v + A[c].sum + d /\ v + d <= A[c].seq
    BY <2>10, <2>14
  <2>21. A[c].seq # v + 1 /\ A[c].seq # v + 2
    BY <2>8
  <2>22. QED
    BY <2>19, <2>20, <2>21, <2>15, <1>5, <2>10, <2>11, <2>4, <2>12, <1>0
<1>10. QED
  BY <1>6, <1>7, <1>8, <1>9 DEF Fits

\* The record written over was of an older transaction than any still intact.
LEMMA OldestGoFirst ==
    ASSUME NEW A \in [Slots -> AnyRec], NEW B, NEW g, NEW r, Fits(A, g, r), RingOK(A, B, g),
           NEW t, Intact(Put(A, r), B, g, t),
           r.tx = t => r.kind = "data" /\ Seals(A, g, t) = {},
           t \in Nat, Slot(r) \in InTx(A, g)
    PROVE  A[Slot(r)].tx < t
<1> DEFINE p == Slot(r)
<1> DEFINE n == r.seq
<1> DEFINE M == Members(A, g, t)
<1> DEFINE v == A[p].seq
<1>0. /\ NRec \in Nat \ {0} /\ NRec > 4 /\ Chunk \in Nat /\ Chunk >= 2
      /\ n \in Nat /\ n >= 1 /\ p \in Slots /\ (n % NRec) = p
  BY Sizes, RecordNumber
<1>1. /\ Intact(A, B, g, t) /\ p \notin M \cup Seals(A, g, t)
      /\ \A c \in Seals(A, g, t) : A[c].sum = Cardinality(M) /\ t # 0 /\ A[c].sum >= 1
  BY Survives
<1>2. PICK c \in Seals(A, g, t) : TRUE
  BY <1>1 DEF Intact
<1>3. \A s \in M \cup Seals(A, g, t) :
        /\ s \in InTx(A, g) /\ s \in Live(A, g) /\ s \in Slots /\ A[s].tx = t
        /\ A[s].seq \in Nat /\ A[s].seq >= 1 /\ (A[s].seq % NRec) = s
        /\ n <= A[s].seq + NRec + 1
        /\ \A q \in Live(A, g) : A[q].seq <= A[s].seq + NRec + 1
  <2>1. \A s \in M \cup Seals(A, g, t) : n <= A[s].seq + NRec + 1
    BY StillYoung
  <2>2. \A s \in M \cup Seals(A, g, t) :
          /\ s \in InTx(A, g) /\ s \in Live(A, g) /\ s \in Slots /\ A[s].tx = t
          /\ A[s].seq \in Nat /\ A[s].seq >= 1 /\ (A[s].seq % NRec) = s
    BY <1>1, <1>2 DEF Members, Seals, InTx, Live, AnyRec, RingOK, Placed
  <2>3. QED
    BY <1>1, <2>1, <2>2 DEF RingOK, Young
<1>4. p \in Live(A, g) /\ v \in Nat /\ v >= 1 /\ v + NRec <= n /\ (v % NRec) = p
  BY PutOver DEF InTx, Live, AnyRec, RingOK, Placed
<1>5. A[p].tx \in Nat /\ A[p].tx # t /\ A[p].kind \in {"data", "commit"}
  BY <1>1, <1>0, <1>4 DEF InTx, Live, AnyRec, Members, Seals
<1>6. SUFFICES ASSUME t < A[p].tx PROVE FALSE
  BY <1>5
<1>7. M # {}
  <2>1. Cardinality(M) >= 1
    BY <1>1, <1>2
  <2>2. QED
    BY <2>1, FS_EmptySet
<1>8. \A m \in M : A[m].seq < v
  <2>1. SUFFICES ASSUME NEW m \in M PROVE A[m].seq < v
    OBVIOUS
  <2>2. m \in InTx(A, g) /\ A[m].kind = "data" /\ A[m].tx = t /\ A[m].seq \in Nat
    BY <1>3 DEF Members
  <2>3. CASE A[p].kind = "commit"
    BY <2>2, <2>3, <1>4, <1>5, <1>6 DEF RingOK, Sealed
  <2>4. CASE A[p].kind = "data"
    <3>1. ~ (v < A[m].seq)
      BY <2>2, <2>4, <1>6, <1>5 DEF RingOK, Ordered
    <3>2. v # A[m].seq
      <4>1. m # p
        BY <1>1
      <4>2. QED
        BY <4>1, <1>3, <1>4
    <3>3. QED
      BY <3>1, <3>2, <2>2, <1>4
  <2>5. QED
    BY <2>3, <2>4, <1>5
<1>9. \A m \in M : A[m].seq + NRec + 1 = n /\ v = A[m].seq + 1
  BY <1>3, <1>4, <1>8, <1>0
<1>10. PICK m \in M : TRUE
  BY <1>7
<1>11. A[m].seq \in Nat /\ (A[m].seq % NRec) = m /\ A[m].seq >= 1
  BY <1>3
<1>12. CASE n = 1
  BY <1>12, <1>9, <1>11, <1>0
<1>13. CASE \E q \in Live(A, g) : A[q].seq = n + 1
  BY <1>13, <1>3, <1>9, <1>11, <1>0
<1>14. CASE \E q \in Live(A, g) : A[q].seq = n - 1
  <2>1. PICK q \in Live(A, g) : A[q].seq = n - 1
    BY <1>14
  <2>2. A[m].seq + NRec = n - 1
    BY <1>9, <1>11, <1>0
  <2>3. (A[m].seq % NRec) = (A[q].seq % NRec)
    BY SMTT(20), <2>1, <2>2, <1>11, <1>0, RingLater
  <2>4. m = q
    BY <2>3, <1>11, <2>1 DEF RingOK, Placed
  <2>5. QED
    BY <2>4, <2>1, <2>2, <1>11, <1>0
<1>15. CASE Cardinality(M) = 1
  <2>1. /\ c \in InTx(A, g) /\ A[c].kind = "commit" /\ A[c].tx = t /\ A[c].sum = 1
        /\ A[c].seq \in Nat
    BY <1>15, <1>1, <1>2, <1>3 DEF Seals
  <2>2. PICK d \in {1, 2} :
          /\ d = 2 => A[c].sum = Chunk
          /\ \A s \in M : A[s].seq + d <= A[c].seq /\ A[c].seq <= A[s].seq + A[c].sum + d
    BY <2>1 DEF RingOK, Spans
  <2>3. d = 1
    BY <2>1, <2>2, <1>0
  <2>4. A[c].seq >= A[m].seq + 1 /\ A[c].seq <= A[m].seq + 2
    BY <2>1, <2>2, <2>3, <1>10, <1>11
  <2>5. A[c].seq # v
    <3>1. c # p
      BY <1>1, <1>2
    <3>2. QED
      BY <3>1, <1>3, <1>2, <1>4
  <2>6. A[c].seq = v + 1
    BY <2>4, <2>5, <1>9, <1>11, <2>1, <1>4
  <2>7. CASE A[p].kind = "commit"
    <3>1. A[c].seq < v
      BY <2>7, <2>1, <1>6 DEF RingOK, Sealed
    <3>2. QED
      BY <3>1, <2>6, <1>4
  <2>8. CASE A[p].kind = "data"
    <3>1. A[p].tx > A[c].tx
      BY <1>6, <1>5, <2>1
    <3>2. v > A[c].seq \/ (A[c].seq = v + 1 /\ A[c].sum = Chunk)
      BY <3>1, <2>8, <2>1 DEF RingOK, Sealed
    <3>3. QED
      BY <3>2, <2>6, <2>1, <1>4, <1>0
  <2>9. QED
    BY <2>7, <2>8, <1>5
<1>16. Cardinality(M) = 1
  <2>1. \A s \in M : s = m
    <3>1. SUFFICES ASSUME NEW s \in M PROVE s = m
      OBVIOUS
    <3>2. A[s].seq = A[m].seq
      BY <1>9, <1>3, <1>11, <1>0
    <3>3. QED
      BY <3>2, <1>3, <1>11
  <2>2. M = {m}
    BY <2>1
  <2>3. QED
    BY <2>2, FS_Singleton
<1>17. QED
  BY <1>15, <1>16

----------------------------------------------------------------------------
(* The ring stays in order *)

\* What a transaction not touched loses when a record is written.
LEMMA PutElsewhere ==
    ASSUME NEW A \in [Slots -> AnyRec], NEW B, NEW g, NEW r, Fits(A, g, r)
    PROVE  /\ r.tx = 0 => InTx(Put(A, r), g) = InTx(A, g) \ {Slot(r)}
           /\ r.tx # 0 => InTx(Put(A, r), g) = InTx(A, g) \cup {Slot(r)}
           /\ \A t : ~(r.kind = "data" /\ r.tx = t) =>
                /\ Members(Put(A, r), g, t) = Members(A, g, t) \ {Slot(r)}
                /\ Cardinality(Members(Put(A, r), g, t)) <= Cardinality(Members(A, g, t))
                /\ Cardinality(Members(Put(A, r), g, t)) \in Nat
                /\ Cardinality(Members(A, g, t)) \in Nat
<1> DEFINE A2 == Put(A, r)
<1> DEFINE p == Slot(r)
<1>1. /\ p \in Slots /\ A2[p] = r /\ Live(A2, g) = Live(A, g) \cup {p}
      /\ \A s \in Slots : s # p => A2[s] = A[s]
  BY PutEffect
<1> HIDE DEF A2
<1>2. r.tx = 0 => InTx(A2, g) = InTx(A, g) \ {p}
  BY <1>1 DEF InTx, Live
<1>3. r.tx # 0 => InTx(A2, g) = InTx(A, g) \cup {p}
  BY <1>1 DEF InTx, Live
<1>4. ASSUME NEW t, ~(r.kind = "data" /\ r.tx = t)
      PROVE  /\ Members(A2, g, t) = Members(A, g, t) \ {p}
             /\ Cardinality(Members(A2, g, t)) <= Cardinality(Members(A, g, t))
             /\ Cardinality(Members(A2, g, t)) \in Nat
             /\ Cardinality(Members(A, g, t)) \in Nat
  <2>1. Members(A2, g, t) = Members(A, g, t) \ {p}
    BY <1>1, <1>4 DEF Members, Live
  <2>2. /\ Members(A, g, t) \in SUBSET Slots /\ Members(A2, g, t) \in SUBSET Members(A, g, t)
        /\ Members(A2, g, t) \in SUBSET Slots
    BY <2>1 DEF Members, Live
  <2>3. QED
    BY <2>1, <2>2, PartsFinite, FS_Subset
<1>5. QED
  BY <1>2, <1>3, <1>4 DEF A2

\* Young, for the transactions the record does not belong to.
LEMMA PutYoung ==
    ASSUME NEW A \in [Slots -> AnyRec], NEW B, NEW g, NEW r, Fits(A, g, r), RingOK(A, B, g),
           NEW e \in InTx(Put(A, r), g), NEW t, t = Put(A, r)[e].tx, Intact(Put(A, r), B, g, t),
           r.tx = t => r.kind = "data" /\ Seals(A, g, t) = {},
           NEW q \in Live(Put(A, r), g)
    PROVE  Put(A, r)[q].seq <= Put(A, r)[e].seq + NRec + 1
<1> DEFINE A2 == Put(A, r)
<1> DEFINE p == Slot(r)
<1>1. /\ p \in Slots /\ A2[p] = r /\ Live(A2, g) = Live(A, g) \cup {p}
      /\ \A s \in Slots : s # p => A2[s] = A[s]
  BY PutEffect
<1>2. t # r.tx /\ Intact(A, B, g, t)
  BY Survives
<1> HIDE DEF A2
<1>3. e # p /\ e \in InTx(A, g) /\ A2[e] = A[e] /\ A[e].tx = t
  BY <1>1, <1>2 DEF InTx, Live, A2
<1>4. e \in Members(A, g, t) \cup Seals(A, g, t)
  BY <1>3 DEF InTx, Live, Members, Seals, AnyRec
<1>5. r.seq <= A[e].seq + NRec + 1
  BY <1>4, StillYoung
<1>6. CASE q = p
  BY <1>1, <1>3, <1>5, <1>6 DEF A2
<1>7. CASE q # p
  <2>1. q \in Live(A, g) /\ A2[q] = A[q]
    BY <1>1, <1>7 DEF Live, A2
  <2>2. A[q].seq <= A[e].seq + NRec + 1
    BY <2>1, <1>2, <1>3 DEF RingOK, Young
  <2>3. QED
    BY <2>1, <2>2, <1>3 DEF A2
<1>8. QED
  BY <1>6, <1>7

LEMMA PutPlaced ==
    ASSUME NEW A \in [Slots -> AnyRec], NEW g, NEW r, Fits(A, g, r), Placed(A, g),
           r.kind = "commit" => r.tx # 0 /\ r.sum \in 1 .. Chunk
    PROVE  Placed(Put(A, r), g)
<1>1. /\ Slot(r) \in Slots /\ Put(A, r)[Slot(r)] = r
      /\ Live(Put(A, r), g) = Live(A, g) \cup {Slot(r)}
      /\ \A s \in Slots : s # Slot(r) => Put(A, r)[s] = A[s]
  BY PutEffect
<1>2. (r.seq % NRec) = Slot(r)
  BY RecordNumber
<1>3. QED
  BY <1>1, <1>2 DEF Placed, Live

\* A record of no transaction.
LEMMA PutPlain ==
    ASSUME NEW A \in [Slots -> AnyRec], NEW B, NEW g, NEW r, Fits(A, g, r), RingOK(A, B, g),
           r.kind = "data", r.tx = 0
    PROVE  RingOK(Put(A, r), B, g)
<1> DEFINE A2 == Put(A, r)
<1> DEFINE p == Slot(r)
<1>1. /\ p \in Slots /\ A2[p] = r /\ Live(A2, g) = Live(A, g) \cup {p}
      /\ \A s \in Slots : s # p => A2[s] = A[s]
  BY PutEffect
<1>2. InTx(A2, g) = InTx(A, g) \ {p}
  BY PutElsewhere
<1>3. Placed(A2, g)
  BY PutPlaced DEF RingOK
<1>4. \A e \in InTx(A2, g) : Intact(A2, B, g, A2[e].tx) =>
        \A q \in Live(A2, g) : A2[q].seq <= A2[e].seq + NRec + 1
  <2>1. SUFFICES ASSUME NEW e \in InTx(A2, g), Intact(A2, B, g, A2[e].tx), NEW q \in Live(A2, g)
                 PROVE  A2[q].seq <= A2[e].seq + NRec + 1
    OBVIOUS
  <2>2. A2[e].tx # 0
    BY DEF InTx
  <2>3. QED
    BY <2>1, <2>2, PutYoung
<1>5. \A t : t # 0 => /\ Members(A2, g, t) = Members(A, g, t) \ {p}
                      /\ Cardinality(Members(A2, g, t)) <= Cardinality(Members(A, g, t))
                      /\ Cardinality(Members(A2, g, t)) \in Nat
                      /\ Cardinality(Members(A, g, t)) \in Nat
  BY PutElsewhere
<1> HIDE DEF A2
<1>6. \A s \in InTx(A2, g) : s \in InTx(A, g) /\ A2[s] = A[s] /\ A[s].tx # 0 /\ A[s] \in AnyRec
  BY <1>1, <1>2 DEF InTx, Live
<1>7. Ordered(A2, g)
  BY <1>6 DEF RingOK, Ordered
<1>8. Sealed(A2, g)
  BY <1>6 DEF RingOK, Sealed
<1>9. Spans(A2, g)
  <2>1. SUFFICES ASSUME NEW c \in InTx(A2, g), A2[c].kind = "commit"
                 PROVE  /\ Cardinality(Members(A2, g, A2[c].tx)) <= A2[c].sum
                        /\ \E d \in {1, 2} :
                             /\ d = 2 => A2[c].sum = Chunk
                             /\ \A s \in Members(A2, g, A2[c].tx) :
                                  A2[s].seq + d <= A2[c].seq /\ A2[c].seq <= A2[s].seq + A2[c].sum + d
    BY DEF Spans
  <2>2. c \in InTx(A, g) /\ A2[c] = A[c] /\ A[c].tx # 0 /\ A[c] \in AnyRec /\ A[c].kind = "commit"
    BY <1>6, <2>1
  <2>3. /\ Cardinality(Members(A, g, A[c].tx)) <= A[c].sum
        /\ \E d \in {1, 2} :
             /\ d = 2 => A[c].sum = Chunk
             /\ \A s \in Members(A, g, A[c].tx) :
                  A[s].seq + d <= A[c].seq /\ A[c].seq <= A[s].seq + A[c].sum + d
    BY <2>2 DEF RingOK, Spans
  <2>4. \A s \in Members(A2, g, A[c].tx) : s \in Members(A, g, A[c].tx) /\ A2[s] = A[s]
    BY <1>1, <1>5, <2>2 DEF Members, Live
  <2>5. Cardinality(Members(A2, g, A[c].tx)) <= A[c].sum
    <3>1. A[c].sum \in Int
      BY <2>2 DEF AnyRec
    <3>2. QED
      BY <3>1, <2>2, <2>3, <1>5
  <2>6. QED
    BY <2>2, <2>3, <2>4, <2>5
<1>10. Young(A2, B, g)
  BY <1>4 DEF Young, A2
<1>11. QED
  BY <1>3, <1>7, <1>8, <1>9, <1>10 DEF RingOK, A2

\* A record of the transaction that is open.
LEMMA PutMember ==
    ASSUME NEW A \in [Slots -> AnyRec], NEW B, NEW g, NEW r, Fits(A, g, r), RingOK(A, B, g),
           r.kind = "data", r.tx # 0,
           \A s \in InTx(A, g) : /\ A[s].kind = "data" => A[s].tx <= r.tx /\ A[s].sum <= r.sum
                                 /\ A[s].kind = "commit" => A[s].tx < r.tx,
           \A s \in Live(A, g) : A[s].seq = r.seq + 1 => A[s].kind = "commit" /\ A[s].sum = Chunk
    PROVE  RingOK(Put(A, r), B, g)
<1> DEFINE A2 == Put(A, r)
<1> DEFINE p == Slot(r)
<1>1. /\ p \in Slots /\ A2[p] = r /\ Live(A2, g) = Live(A, g) \cup {p}
      /\ \A s \in Slots : s # p => A2[s] = A[s]
  BY PutEffect
<1>2. InTx(A2, g) = InTx(A, g) \cup {p}
  BY PutElsewhere
<1>3. Placed(A2, g)
  BY PutPlaced DEF RingOK
<1>4. Seals(A, g, r.tx) = {} /\ r.tx \in Nat /\ r.seq \in Nat
  <2>1. r.tx \in Nat /\ r.seq \in Nat
    BY RecordNumber
  <2>2. \A s \in Seals(A, g, r.tx) : s \in InTx(A, g) /\ A[s].kind = "commit" /\ A[s].tx = r.tx
    BY DEF Seals, InTx
  <2>3. QED
    BY <2>1, <2>2
<1>5. \A e \in InTx(A2, g) : Intact(A2, B, g, A2[e].tx) =>
        \A q \in Live(A2, g) : A2[q].seq <= A2[e].seq + NRec + 1
  BY <1>4, PutYoung
<1>6. \A t : t # r.tx => /\ Members(A2, g, t) = Members(A, g, t) \ {p}
                         /\ Cardinality(Members(A2, g, t)) <= Cardinality(Members(A, g, t))
                         /\ Cardinality(Members(A2, g, t)) \in Nat
                         /\ Cardinality(Members(A, g, t)) \in Nat
  BY PutElsewhere
<1> HIDE DEF A2
<1>7. \A s \in InTx(A2, g) : s # p => /\ s \in InTx(A, g) /\ A2[s] = A[s] /\ A[s].tx # 0
                                      /\ A[s].tx \in Nat /\ A[s].seq \in Nat /\ A[s].sum \in Int
                                      /\ A[s].kind \in {"data", "commit"}
                                      /\ A[s].seq < r.seq \/ A[s].seq = r.seq + 1
                                      /\ A[s].seq = r.seq + 1 =>
                                           A[s].kind = "commit" /\ A[s].sum = Chunk
                                      /\ A[s].kind = "data" => A[s].tx <= r.tx /\ A[s].sum <= r.sum
                                      /\ A[s].kind = "commit" => A[s].tx < r.tx
  BY <1>1, <1>2 DEF InTx, Live, Fits, AnyRec
<1>8. Ordered(A2, g)
  <2>1. SUFFICES ASSUME NEW s \in InTx(A2, g), NEW q \in InTx(A2, g),
                        A2[s].kind = "data", A2[q].kind = "data", A2[s].seq < A2[q].seq
                 PROVE  A2[s].tx <= A2[q].tx /\ A2[s].sum <= A2[q].sum
    BY DEF Ordered
  <2>2. CASE s # p /\ q # p
    BY <1>7, <2>1, <2>2 DEF RingOK, Ordered
  <2>3. CASE q = p
    BY <1>1, <1>4, <1>7, <2>1, <2>3
  <2>4. CASE s = p
    BY <1>1, <1>4, <1>7, <2>1, <2>4
  <2>5. QED
    BY <2>2, <2>3, <2>4
<1>9. Sealed(A2, g)
  <2>1. SUFFICES ASSUME NEW c \in InTx(A2, g), NEW s \in InTx(A2, g), A2[c].kind = "commit"
                 PROVE  /\ A2[s].kind = "data" /\ A2[s].tx <= A2[c].tx => A2[s].seq < A2[c].seq
                        /\ A2[s].kind = "data" /\ A2[s].tx > A2[c].tx =>
                             A2[s].seq > A2[c].seq \/ (A2[c].seq = A2[s].seq + 1 /\ A2[c].sum = Chunk)
                        /\ A2[s].kind = "commit" /\ A2[c].tx < A2[s].tx => A2[c].seq < A2[s].seq
                        /\ A2[s].kind = "commit" /\ A2[c].tx = A2[s].tx => c = s
    BY DEF Sealed
  <2>2. c # p
    BY <1>1, <2>1
  <2>3. CASE s = p
    <3>1. A2[s].kind = "data" /\ A2[s].tx > A2[c].tx
      BY <1>1, <1>4, <1>7, <2>1, <2>2, <2>3
    <3>2. A2[s].seq > A2[c].seq \/ (A2[c].seq = A2[s].seq + 1 /\ A2[c].sum = Chunk)
      BY <1>1, <1>4, <1>7, <2>1, <2>2, <2>3
    <3>3. ~(A2[s].tx <= A2[c].tx)
      BY <1>1, <1>4, <1>7, <2>1, <2>2, <2>3
    <3>4. QED
      BY <3>1, <3>2, <3>3
  <2>4. CASE s # p
    BY <1>7, <2>1, <2>2, <2>4 DEF RingOK, Sealed
  <2>5. QED
    BY <2>3, <2>4
<1>10. Spans(A2, g)
  <2>1. SUFFICES ASSUME NEW c \in InTx(A2, g), A2[c].kind = "commit"
                 PROVE  /\ Cardinality(Members(A2, g, A2[c].tx)) <= A2[c].sum
                        /\ \E d \in {1, 2} :
                             /\ d = 2 => A2[c].sum = Chunk
                             /\ \A s \in Members(A2, g, A2[c].tx) :
                                  A2[s].seq + d <= A2[c].seq /\ A2[c].seq <= A2[s].seq + A2[c].sum + d
    BY DEF Spans
  <2>2. c # p
    BY <1>1, <2>1
  <2>3. /\ c \in InTx(A, g) /\ A2[c] = A[c] /\ A[c].tx # r.tx /\ A[c].sum \in Int
        /\ A[c].kind = "commit"
    BY <1>4, <1>7, <2>1, <2>2
  <2>4. /\ Cardinality(Members(A, g, A[c].tx)) <= A[c].sum
        /\ \E d \in {1, 2} :
             /\ d = 2 => A[c].sum = Chunk
             /\ \A s \in Members(A, g, A[c].tx) :
                  A[s].seq + d <= A[c].seq /\ A[c].seq <= A[s].seq + A[c].sum + d
    BY <2>3 DEF RingOK, Spans
  <2>5. \A s \in Members(A2, g, A[c].tx) : s \in Members(A, g, A[c].tx) /\ A2[s] = A[s]
    BY <1>1, <1>6, <2>3 DEF Members, Live
  <2>6. Cardinality(Members(A2, g, A[c].tx)) <= A[c].sum
    BY <2>3, <2>4, <1>6
  <2>7. QED
    BY <2>3, <2>4, <2>5, <2>6
<1>11. Young(A2, B, g)
  BY <1>5 DEF Young, A2
<1>12. QED
  BY <1>3, <1>8, <1>9, <1>10, <1>11 DEF RingOK, A2

\* The commit of the transaction that is open: it is intact from then on.
LEMMA PutSeal ==
    ASSUME NEW A \in [Slots -> AnyRec], NEW B, NEW g, NEW r, Fits(A, g, r), RingOK(A, B, g),
           r.kind = "commit", r.tx # 0, r.sum \in 1 .. Chunk,
           \A s \in InTx(A, g) : /\ A[s].kind = "data" => A[s].tx <= r.tx
                                 /\ A[s].kind = "commit" => A[s].tx < r.tx,
           \A s \in Live(A, g) : A[s].seq < r.seq,
           Cardinality(Members(A, g, r.tx)) = r.sum,
           \A s \in Members(A, g, r.tx) : A[s].sum = B[s],
           NEW d \in {1, 2}, d = 2 => r.sum = Chunk,
           \A s \in Members(A, g, r.tx) : A[s].seq + d <= r.seq /\ r.seq <= A[s].seq + r.sum + d
    PROVE  /\ RingOK(Put(A, r), B, g)
           /\ Intact(Put(A, r), B, g, r.tx)
           /\ Members(Put(A, r), g, r.tx) = Members(A, g, r.tx)
<1> DEFINE A2 == Put(A, r)
<1> DEFINE p == Slot(r)
<1>1. /\ p \in Slots /\ A2[p] = r /\ Live(A2, g) = Live(A, g) \cup {p}
      /\ \A s \in Slots : s # p => A2[s] = A[s]
  BY PutEffect
<1>2. InTx(A2, g) = InTx(A, g) \cup {p}
  BY PutElsewhere
<1>3. Placed(A2, g)
  BY PutPlaced DEF RingOK
<1>4. /\ Seals(A, g, r.tx) = {} /\ r.tx \in Nat /\ r.seq \in Nat /\ r.sum \in Nat
      /\ NRec \in Nat /\ NRec > Chunk + 2 /\ Chunk \in Nat
  <2>1. r.tx \in Nat /\ r.seq \in Nat
    BY RecordNumber
  <2>2. \A s \in Seals(A, g, r.tx) : s \in InTx(A, g) /\ A[s].kind = "commit" /\ A[s].tx = r.tx
    BY DEF Seals, InTx
  <2>3. QED
    BY <2>1, <2>2, Sizes
<1>5. \A e \in InTx(A2, g) : A2[e].tx # r.tx /\ Intact(A2, B, g, A2[e].tx) =>
        \A q \in Live(A2, g) : A2[q].seq <= A2[e].seq + NRec + 1
  BY PutYoung
<1>6. \A t : /\ Members(A2, g, t) = Members(A, g, t) \ {p}
             /\ Cardinality(Members(A2, g, t)) <= Cardinality(Members(A, g, t))
             /\ Cardinality(Members(A2, g, t)) \in Nat
             /\ Cardinality(Members(A, g, t)) \in Nat
  BY PutElsewhere
<1>7. p \notin Members(A, g, r.tx)
  <2>1. SUFFICES ASSUME p \in Members(A, g, r.tx) PROVE FALSE
    OBVIOUS
  <2>2. p \in Live(A, g) /\ A[p].seq \in Nat
    BY <2>1 DEF Members, Live, AnyRec
  <2>3. A[p].seq + NRec <= r.seq
    BY <2>2, PutOver DEF RingOK
  <2>4. r.seq <= A[p].seq + r.sum + d
    BY <2>1
  <2>5. QED
    BY <2>2, <2>3, <2>4, <1>4
<1> HIDE DEF A2
<1>8. Members(A2, g, r.tx) = Members(A, g, r.tx)
  BY <1>6, <1>7
<1>9. \A s \in Members(A, g, r.tx) : /\ s \in Slots /\ s # p /\ A2[s] = A[s] /\ A[s].seq \in Nat
  BY <1>1, <1>7 DEF Members, Live, AnyRec
<1>10. Intact(A2, B, g, r.tx)
  <2>1. Sound(A2, B, g, r.tx) = Members(A, g, r.tx)
    BY <1>8, <1>9 DEF Sound
  <2>2. p \in Seals(A2, g, r.tx)
    BY <1>1 DEF Seals
  <2>3. QED
    BY <2>1, <2>2, <1>1 DEF Intact
<1>11. \A s \in InTx(A2, g) : s # p => /\ s \in InTx(A, g) /\ A2[s] = A[s] /\ A[s].tx # 0
                                       /\ A[s].tx \in Nat /\ A[s].seq \in Nat /\ A[s].sum \in Int
                                       /\ A[s].kind \in {"data", "commit"}
                                       /\ A[s].seq < r.seq
                                       /\ A[s].kind = "data" => A[s].tx <= r.tx
                                       /\ A[s].kind = "commit" => A[s].tx < r.tx
  BY <1>1, <1>2 DEF InTx, Live, Fits, AnyRec
<1>12. Ordered(A2, g)
  <2>1. SUFFICES ASSUME NEW s \in InTx(A2, g), NEW q \in InTx(A2, g),
                        A2[s].kind = "data", A2[q].kind = "data", A2[s].seq < A2[q].seq
                 PROVE  A2[s].tx <= A2[q].tx /\ A2[s].sum <= A2[q].sum
    BY DEF Ordered
  <2>2. s # p /\ q # p
    BY <1>1, <2>1
  <2>3. QED
    BY <1>11, <2>1, <2>2 DEF RingOK, Ordered
<1>13. Sealed(A2, g)
  <2>1. SUFFICES ASSUME NEW c \in InTx(A2, g), NEW s \in InTx(A2, g), A2[c].kind = "commit"
                 PROVE  /\ A2[s].kind = "data" /\ A2[s].tx <= A2[c].tx => A2[s].seq < A2[c].seq
                        /\ A2[s].kind = "data" /\ A2[s].tx > A2[c].tx =>
                             A2[s].seq > A2[c].seq \/ (A2[c].seq = A2[s].seq + 1 /\ A2[c].sum = Chunk)
                        /\ A2[s].kind = "commit" /\ A2[c].tx < A2[s].tx => A2[c].seq < A2[s].seq
                        /\ A2[s].kind = "commit" /\ A2[c].tx = A2[s].tx => c = s
    BY DEF Sealed
  <2>2. CASE s # p /\ c # p
    BY <1>11, <2>1, <2>2 DEF RingOK, Sealed
  <2>3. CASE s = p /\ c # p
    BY <1>1, <1>4, <1>11, <2>1, <2>3
  <2>4. CASE s # p /\ c = p
    BY <1>1, <1>4, <1>11, <2>1, <2>4
  <2>5. CASE s = p /\ c = p
    BY <1>1, <1>4, <2>1, <2>5
  <2>6. QED
    BY <2>2, <2>3, <2>4, <2>5
<1>14. Spans(A2, g)
  <2>1. SUFFICES ASSUME NEW c \in InTx(A2, g), A2[c].kind = "commit"
                 PROVE  /\ Cardinality(Members(A2, g, A2[c].tx)) <= A2[c].sum
                        /\ \E f \in {1, 2} :
                             /\ f = 2 => A2[c].sum = Chunk
                             /\ \A s \in Members(A2, g, A2[c].tx) :
                                  A2[s].seq + f <= A2[c].seq /\ A2[c].seq <= A2[s].seq + A2[c].sum + f
    BY DEF Spans
  <2>2. CASE c = p
    <3>1. A2[c] = r
      BY <2>2, <1>1
    <3>2. Cardinality(Members(A2, g, A2[c].tx)) <= A2[c].sum
      BY <3>1, <1>8, <1>4
    <3>3. \A s \in Members(A2, g, A2[c].tx) :
            A2[s].seq + d <= A2[c].seq /\ A2[c].seq <= A2[s].seq + A2[c].sum + d
      BY <3>1, <1>8, <1>9
    <3>4. QED
      BY <3>1, <3>2, <3>3
  <2>3. CASE c # p
    <3>1. /\ c \in InTx(A, g) /\ A2[c] = A[c] /\ A[c].sum \in Int /\ A[c].kind = "commit"
      BY <1>11, <2>1, <2>3
    <3>2. /\ Cardinality(Members(A, g, A[c].tx)) <= A[c].sum
          /\ \E f \in {1, 2} :
               /\ f = 2 => A[c].sum = Chunk
               /\ \A s \in Members(A, g, A[c].tx) :
                    A[s].seq + f <= A[c].seq /\ A[c].seq <= A[s].seq + A[c].sum + f
      BY <3>1 DEF RingOK, Spans
    <3>3. \A s \in Members(A2, g, A[c].tx) : s \in Members(A, g, A[c].tx) /\ A2[s] = A[s]
      BY <1>1, <1>6 DEF Members, Live
    <3>4. Cardinality(Members(A2, g, A[c].tx)) <= A[c].sum
      BY <3>1, <3>2, <1>6
    <3>5. QED
      BY <3>1, <3>2, <3>3, <3>4
  <2>4. QED
    BY <2>2, <2>3
<1>15. Young(A2, B, g)
  <2>1. SUFFICES ASSUME NEW e \in InTx(A2, g), A2[e].tx = r.tx, NEW q \in Live(A2, g)
                 PROVE  A2[q].seq <= A2[e].seq + NRec + 1
    BY <1>5 DEF Young, A2
  <2>2. A2[q].seq \in Nat /\ A2[q].seq <= r.seq
    BY <1>1, <1>4 DEF Live, AnyRec
  <2>3. CASE e = p
    BY <2>2, <2>3, <1>1, <1>4
  <2>4. CASE e # p
    <3>1. e \in Members(A, g, r.tx)
      BY <2>1, <2>4, <1>11 DEF InTx, Members
    <3>2. r.seq <= A[e].seq + r.sum + d /\ A2[e] = A[e] /\ A[e].seq \in Nat
      BY <3>1, <1>9
    <3>3. QED
      BY <2>2, <3>2, <1>4
  <2>5. QED
    BY <2>3, <2>4
<1>16. QED
  BY <1>3, <1>8, <1>10, <1>12, <1>13, <1>14, <1>15 DEF RingOK, A2

----------------------------------------------------------------------------
(* What recovery finds of a block *)

\* Records of block b in transactions recovery would apply, or that are in T.
Holders(A, B, g, b, T) ==
    {s \in InTx(A, g) : A[s].kind = "data" /\ A[s].lba = b
                        /\ (Intact(A, B, g, A[s].tx) \/ A[s].tx \in T)}

\* If recovery finds block b at all, it finds contents of call n or newer.
Covers(A, B, g, b, n, T) ==
    Holders(A, B, g, b, T) # {} => \E s \in Holders(A, B, g, b, T) : A[s].sum >= n

\* A record leaves that so, when the transactions in T are open and not written over.
LEMMA PutCovers ==
    ASSUME NEW A \in [Slots -> AnyRec], NEW B, NEW g, NEW r, Fits(A, g, r), RingOK(A, B, g),
           NEW b, NEW n \in Nat, NEW T \in SUBSET Nat, NEW T2 \in SUBSET T,
           Covers(A, B, g, b, n, T),
           \A t \in T : /\ Slot(r) \notin Members(A, g, t)
                        /\ t \in T2 \/ Intact(Put(A, r), B, g, t)
                        /\ \A s \in InTx(A, g) : A[s].kind = "commit" => A[s].tx < t,
           Seals(A, g, r.tx) = {},
           r.kind = "data" /\ r.tx # 0 => r.sum >= n,
           r.kind = "commit" => \A s \in Members(A, g, r.tx) : A[s].sum >= n
    PROVE  Covers(Put(A, r), B, g, b, n, T2)
<1> DEFINE A2 == Put(A, r)
<1> DEFINE p == Slot(r)
<1>1. /\ p \in Slots /\ A2[p] = r /\ Live(A2, g) = Live(A, g) \cup {p}
      /\ \A s \in Slots : s # p => A2[s] = A[s]
  BY PutEffect
<1>2. r.tx \in Nat /\ r.kind \in {"data", "commit"}
  BY RecordNumber
<1>3. \A s \in InTx(A2, g) : s # p => /\ s \in InTx(A, g) /\ A2[s] = A[s]
  BY <1>1 DEF InTx, Live
<1>4. \A s \in InTx(A, g) : s # p => s \in InTx(A2, g)
  BY <1>1 DEF InTx, Live
<1>5. \A s \in InTx(A, g) : /\ s \in Live(A, g) /\ s \in Slots
                            /\ A[s].tx \in Nat /\ A[s].seq \in Nat /\ A[s].sum \in Int
                            /\ A[s].tx # 0 /\ A[s].kind \in {"data", "commit"}
                            /\ A[s].seq % NRec = s
  BY DEF InTx, Live, AnyRec, RingOK, Placed
<1>6. SUFFICES ASSUME NEW q \in Holders(A2, B, g, b, T2)
               PROVE  \E s \in Holders(A2, B, g, b, T2) : A2[s].sum >= n
  BY DEF Covers
<1>7. q \in InTx(A2, g) /\ A2[q].kind = "data" /\ A2[q].lba = b
      /\ (Intact(A2, B, g, A2[q].tx) \/ A2[q].tx \in T2)
  BY <1>6 DEF Holders
<1>8. CASE q = p
  <2>1. r.kind = "data" /\ r.tx # 0
    BY <1>1, <1>7, <1>8 DEF InTx
  <2>2. QED
    BY <2>1, <1>1, <1>6, <1>8
<1>9. CASE q # p
  <2> DEFINE t == A[q].tx
  <2>1. q \in InTx(A, g) /\ A2[q] = A[q]
    BY <1>3, <1>7, <1>9
  <2>2. CASE r.kind = "commit" /\ r.tx = t
    <3>1. q \in Members(A, g, r.tx)
      BY <2>1, <2>2, <1>7 DEF Members, InTx
    <3>2. A[q].sum >= n
      BY <3>1, <2>2
    <3>3. QED
      BY <3>2, <2>1, <1>6
  <2>3. CASE ~(r.kind = "commit" /\ r.tx = t)
    <3>1. r.tx = t => r.kind = "data" /\ Seals(A, g, t) = {}
      BY <2>3, <1>2
    <3>2. Intact(A2, B, g, t) => Intact(A, B, g, t)
      BY <3>1, Survives
    <3>3. Intact(A2, B, g, t) \/ t \in T2
      BY <1>7, <2>1
    <3>4. q \in Holders(A, B, g, b, T)
      BY <2>1, <1>7, <3>2, <3>3 DEF Holders
    <3>5. PICK s \in Holders(A, B, g, b, T) : A[s].sum >= n
      BY <3>4 DEF Covers
    <3> DEFINE u == A[s].tx
    <3>6. s \in InTx(A, g) /\ A[s].kind = "data" /\ A[s].lba = b /\ (Intact(A, B, g, u) \/ u \in T)
      BY <3>5 DEF Holders
    <3>7. CASE s # p /\ (Intact(A2, B, g, u) \/ u \in T2)
      <4>1. s \in InTx(A2, g) /\ A2[s] = A[s]
        BY <3>6, <3>7, <1>4, <1>3
      <4>2. s \in Holders(A2, B, g, b, T2)
        BY <4>1, <3>6, <3>7 DEF Holders
      <4>3. QED
        BY <4>1, <4>2, <3>5
    <3>8. CASE ~(s # p /\ (Intact(A2, B, g, u) \/ u \in T2))
      <4>1. u \notin T
        <5>1. SUFFICES ASSUME u \in T PROVE FALSE
          OBVIOUS
        <5>2. s \in Members(A, g, u)
          BY <3>6 DEF Members, InTx
        <5>3. QED
          BY <5>1, <5>2, <3>8
      <4>2. PICK c \in Seals(A, g, u) : A[c].sum = Cardinality(Sound(A, B, g, u))
        BY <4>1, <3>6 DEF Intact
      <4>3. u # r.tx
        BY <4>2
      <4>4. p \in Members(A, g, u) \cup Seals(A, g, u)
        <5>1. SUFFICES ASSUME p \notin Members(A, g, u) \cup Seals(A, g, u) PROVE FALSE
          OBVIOUS
        <5>2. Members(A2, g, u) = Members(A, g, u)
          BY <5>1, <4>3, <1>1 DEF Members, Live
        <5>3. Sound(A2, B, g, u) = Sound(A, B, g, u)
          <6>1. \A m \in Members(A, g, u) : A2[m] = A[m]
            BY <5>1, <1>1 DEF Members, Live
          <6>2. QED
            BY <5>2, <6>1 DEF Sound
        <5>4. c \in Seals(A2, g, u) /\ A2[c] = A[c]
          BY <5>1, <4>2, <1>1 DEF Seals, Live
        <5>5. Intact(A2, B, g, u)
          BY <5>3, <5>4, <4>2 DEF Intact
        <5>6. s # p
          BY <5>1, <3>6 DEF Members, InTx
        <5>7. QED
          BY <5>5, <5>6, <3>8
      <4>5. p \in InTx(A, g) /\ A[p].tx = u
        BY <4>4, <3>6 DEF Members, Seals, InTx
      <4>6. u < t
        <5>1. CASE Intact(A2, B, g, t)
          <6>1. t \in Nat
            BY <2>1, <1>5
          <6>2. QED
            BY <5>1, <6>1, <3>1, <4>5, OldestGoFirst
        <5>2. CASE t \in T2
          <6>1. c \in InTx(A, g) /\ A[c].kind = "commit" /\ A[c].tx = u
            BY <4>2, <3>6 DEF Seals, InTx
          <6>2. QED
            BY <6>1, <5>2
        <5>3. QED
          BY <5>1, <5>2, <3>3
      <4>7. A[q].kind = "data"
        BY <1>7, <2>1
      <4>8. A[s].seq < A[q].seq
        <5>1. ~(A[q].seq < A[s].seq)
          BY <4>6, <4>7, <2>1, <3>6, <1>5 DEF RingOK, Ordered
        <5>2. A[q].seq # A[s].seq
          BY <4>6, <2>1, <3>6, <1>5
        <5>3. QED
          BY <5>1, <5>2, <2>1, <3>6, <1>5
      <4>9. A[s].sum <= A[q].sum
        BY <4>8, <4>7, <2>1, <3>6 DEF RingOK, Ordered
      <4>10. A[q].sum >= n
        BY <4>9, <3>5, <2>1, <3>6, <1>5
      <4>11. QED
        BY <4>10, <2>1, <1>6
    <3>9. QED
      BY <3>7, <3>8
  <2>4. QED
    BY <2>2, <2>3
<1>10. QED
  BY <1>8, <1>9

----------------------------------------------------------------------------
(* What depends on the second sectors, and what recovery makes of the ring *)

\* A second sector counts for the transactions that have a commit.
LEMMA OtherSectors ==
    ASSUME NEW A, NEW B, NEW B2, NEW g,
           \A t : Seals(A, g, t) # {} => \A s \in Members(A, g, t) : B2[s] = B[s]
    PROVE  /\ \A t : Intact(A, B2, g, t) = Intact(A, B, g, t)
           /\ RingOK(A, B, g) => RingOK(A, B2, g)
           /\ \A b, T : Holders(A, B2, g, b, T) = Holders(A, B, g, b, T)
           /\ \A b, n, T : Covers(A, B2, g, b, n, T) = Covers(A, B, g, b, n, T)
<1>1. ASSUME NEW t PROVE Intact(A, B2, g, t) = Intact(A, B, g, t)
  <2>1. CASE Seals(A, g, t) = {}
    BY <2>1 DEF Intact
  <2>2. CASE Seals(A, g, t) # {}
    <3>1. Sound(A, B2, g, t) = Sound(A, B, g, t)
      BY <2>2 DEF Sound
    <3>2. QED
      BY <3>1 DEF Intact
  <2>3. QED
    BY <2>1, <2>2
<1>2. RingOK(A, B, g) => RingOK(A, B2, g)
  BY <1>1 DEF RingOK, Young
<1>3. \A b, T : Holders(A, B2, g, b, T) = Holders(A, B, g, b, T)
  BY <1>1 DEF Holders
<1>4. \A b, n, T : Covers(A, B2, g, b, n, T) = Covers(A, B, g, b, n, T)
  BY <1>3 DEF Covers
<1>5. QED
  BY <1>1, <1>2, <1>3, <1>4

\* All records of an intact transaction have both sectors.
LEMMA IntactAreSound ==
    ASSUME NEW A \in [Slots -> AnyRec], NEW B, NEW g, RingOK(A, B, g),
           NEW t, Intact(A, B, g, t), NEW s \in Members(A, g, t)
    PROVE  A[s].sum = B[s]
<1>1. PICK c \in Seals(A, g, t) : A[c].sum = Cardinality(Sound(A, B, g, t))
  BY DEF Intact
<1>2. c \in InTx(A, g) /\ A[c].kind = "commit" /\ A[c].tx = t /\ A[c].sum \in Nat
  BY <1>1, Sizes DEF Seals, InTx, RingOK, Placed
<1>3. Cardinality(Members(A, g, t)) <= A[c].sum
  BY <1>2 DEF RingOK, Spans
<1>4. Members(A, g, t) \in SUBSET Slots /\ Sound(A, B, g, t) \in SUBSET Members(A, g, t)
      /\ Sound(A, B, g, t) \in SUBSET Slots
  BY DEF Members, Sound, Live
<1>5. /\ IsFiniteSet(Members(A, g, t)) /\ Cardinality(Members(A, g, t)) \in Nat
      /\ Cardinality(Sound(A, B, g, t)) \in Nat
      /\ Cardinality(Sound(A, B, g, t)) <= Cardinality(Members(A, g, t))
      /\ Cardinality(Sound(A, B, g, t)) = Cardinality(Members(A, g, t)) =>
           Members(A, g, t) = Sound(A, B, g, t)
  BY <1>4, PartsFinite, FS_Subset
<1>6. Sound(A, B, g, t) = Members(A, g, t)
  BY <1>1, <1>2, <1>3, <1>5
<1>7. QED
  BY <1>6 DEF Sound

\* The greatest of a bounded set of them.
LEMMA GreatestExists ==
    ASSUME NEW S \in SUBSET Nat, S # {}, NEW n \in Nat, \A s \in S : s <= n
    PROVE  \E m \in S : \A s \in S : s <= m
<1> DEFINE F == {n - s : s \in S}
<1>0. \A s \in S : s \in Nat /\ n - s \in Nat
  OBVIOUS
<1>1. F \in SUBSET Nat /\ F # {}
  BY <1>0
<1> DEFINE Less == {p \in Nat \X Nat : p[1] < p[2]}
<1>2. IsWellFoundedOn(Less, Nat)
  BY NatLessThanWellFounded DEF OpToRel
<1>3. PICK f \in F : \A e \in F : <<e, f>> \notin Less
  <2> HIDE DEF F, Less
  <2>1. QED
    BY <1>1, <1>2, WFMin
<1>4. PICK m \in S : f = n - m
  BY <1>3
<1>5. ASSUME NEW s \in S PROVE s <= m
  <2> HIDE DEF F, Less
  <2>0. s \in Nat /\ m \in Nat
    BY <1>4
  <2>1. SUFFICES ASSUME m < s PROVE FALSE
    BY <2>0
  <2> USE DEF F, Less
  <2>2. n - s \in F /\ n - s \in Nat /\ f \in Nat /\ n - s < f
    BY <1>4, <2>1
  <2>3. <<n - s, f>> \in Less
    BY <2>2
  <2>4. QED
    BY <2>2, <2>3, <1>3
<1>6. QED
  BY <1>5

\* The records replay() applies to block b, if it applies only records of transactions.
LEMMA RecoveryApplies ==
    ASSUME slotA \in [Slots -> AnyRec], NEW g, RingOK(slotA, slotB, g)
    PROVE  /\ SlotsOfGen(g) = Live(slotA, g)
           /\ ToReplay(g) = {slotA[s] : s \in {q \in Live(slotA, g) :
                               /\ slotA[q].kind = "data" /\ slotA[q].sum = slotB[q]
                               /\ slotA[q].tx = 0 \/ Intact(slotA, slotB, g, slotA[q].tx)}}
<1>1. SlotsOfGen(g) = Live(slotA, g)
  BY DEF SlotsOfGen, Live
<1>2. ASSUME NEW t \in Nat, t # 0
      PROVE  Complete(g, t) <=> Intact(slotA, slotB, g, t)
  <2>1. Commits(g, t) = Seals(slotA, g, t)
    BY <1>1 DEF Commits, Seals
  <2>2. {s \in Valid(g) : slotA[s].tx = t} = Sound(slotA, slotB, g, t)
    BY <1>1 DEF Valid, Sound, Members
  <2>3. ASSUME NEW c \in Seals(slotA, g, t), NEW d \in Seals(slotA, g, t)
        PROVE  c = d
    BY <1>2, <2>3 DEF RingOK, Sealed, Seals, InTx
  <2>4. CASE Seals(slotA, g, t) = {}
    BY <2>1, <2>4, <1>2 DEF Complete, Intact
  <2>5. CASE Seals(slotA, g, t) # {}
    <3>1. PICK c \in Seals(slotA, g, t) : TRUE
      BY <2>5
    <3>2. c \in Int /\ Seals(slotA, g, t) = {c}
      BY <3>1, <2>3, Sizes DEF Seals, Live, Slots
    <3>3. (CHOOSE s \in {c} : \A q \in {c} : q <= s) = c
      BY <3>2
    <3>4. Complete(g, t) <=> slotA[c].sum = Cardinality(Sound(slotA, slotB, g, t))
      BY <2>1, <2>2, <3>2, <3>3, <1>2 DEF Complete
    <3>5. QED
      BY <3>4, <3>2 DEF Intact
  <2>6. QED
    BY <2>4, <2>5
<1>3. Complete(g, 0)
  BY DEF Complete
<1>4. \A s \in Live(slotA, g) : slotA[s].tx \in Nat
  BY DEF Live, AnyRec
<1>5. \A s \in Live(slotA, g) :
        Complete(g, slotA[s].tx) <=> (slotA[s].tx = 0 \/ Intact(slotA, slotB, g, slotA[s].tx))
  <2>1. SUFFICES ASSUME NEW s \in Live(slotA, g)
                 PROVE  Complete(g, slotA[s].tx) <=>
                          (slotA[s].tx = 0 \/ Intact(slotA, slotB, g, slotA[s].tx))
    OBVIOUS
  <2>2. CASE slotA[s].tx = 0
    BY <2>2, <1>3
  <2>3. CASE slotA[s].tx # 0
    BY <2>3, <1>4, <1>2
  <2>4. QED
    BY <2>2, <2>3
<1>6. {s \in Valid(g) : Complete(g, slotA[s].tx)} =
        {q \in Live(slotA, g) : /\ slotA[q].kind = "data" /\ slotA[q].sum = slotB[q]
                                /\ slotA[q].tx = 0 \/ Intact(slotA, slotB, g, slotA[q].tx)}
  BY <1>1, <1>5 DEF Valid
<1>7. QED
  BY <1>1, <1>6 DEF ToReplay

----------------------------------------------------------------------------
(* What a power cut in any state would leave *)

OneHart == Harts = {h1}

\* What the hart is doing.
Job  == job[h1]
Pc   == pc[h1]
Todo == todo[h1]
Own  == rec[h1]
Com  == seal[h1]

Sealing == {"sealSeq", "sealA", "sealB"}
Writing == {"dataA", "dataB", "home", "cache"}

\* The record taken waits for the commit of the transaction before its own.
Valve == Pc \in Sealing /\ Own # NoRec

\* A block write has begun.
Busy == Pc \in Writing \/ Valve

\* The log continues the generation of the header.
Counting == Job # "off" /\ Pc # "header"

\* Everything below this number is in the ring, or was.
Low == IF Pc = "dataA" \/ Valve THEN Own.seq ELSE IF Pc = "sealA" THEN Com.seq ELSE jlog.next

LogType == [next : Nat, gen : Nat, depth : {0, 1}, tx : Nat, count : Nat, txNext : Nat]

Types ==
    /\ home \in [Blocks -> Int]
    /\ slotA \in [Slots -> AnyRec] /\ slotB \in [Slots -> Int]
    /\ header \in Nat
    /\ jlog \in LogType
    /\ job \in [Harts -> Jobs] /\ pc \in [Harts -> Points]
    /\ todo \in [Harts -> Seq(Blocks \X Int)]
    /\ rec \in [Harts -> AnyRec] /\ seal \in [Harts -> AnyRec]
    /\ replay \in SUBSET AnyRec
    /\ call \in [Harts -> Nat]
    /\ writes \in Seq(SUBSET Data) /\ acked \subseteq DOMAIN writes

\* Where the hart can be, and the log with it.
Control ==
    /\ Job \in {"off", "init", "replay", "up"} => Pc = "idle"
    /\ Job \in {"rebuild", "clear", "mark"} => Pc \in {"idle", "take"} \cup Writing
    /\ Job = "halt" => Pc \in {"idle", "header", "take"} \cup Writing
    /\ Job = "call" => Pc \in {"take", "commit"} \cup Sealing \cup Writing
    /\ Job = "off" => jlog = FreshLog
    /\ Job # "off" => jlog.gen = (IF Pc = "header" THEN header + 1 ELSE header) /\ header >= 1
    /\ Job # "replay" => replay = {}
    /\ Job # "call" => call[h1] = 0 /\ jlog.depth = 0
    /\ Job = "call" => /\ call[h1] = Len(writes) /\ call[h1] # 0 /\ call[h1] \notin acked
                       /\ jlog.depth = (IF Pc \in Sealing /\ ~Valve THEN 0 ELSE 1)
    /\ jlog.depth = 0 => jlog.tx = 0 /\ jlog.count = 0
    /\ jlog.txNext >= 1
    /\ Pc = "header" => jlog.next = 1

\* What it is writing.
Work ==
    /\ Pc = "take" \/ Busy => Todo # <<>>
    /\ ~(Pc = "take" \/ Busy) => Todo = <<>>
    /\ Job = "rebuild" => Len(Todo) <= Rebuilds /\ \A i \in DOMAIN Todo : Todo[i][1] = Bitmap
    /\ Job \in {"clear", "halt"} => Todo \in {<<>>, <<<<Sb, Clean>>>>}
    /\ Job = "mark" => Todo \in {<<>>, <<<<Sb, Dirty>>>>}
    /\ Job = "call" => \A i \in DOMAIN Todo : Todo[i][1] \in writes[call[h1]] /\ Todo[i][2] = call[h1]
    /\ Busy => /\ Own.kind = "data" /\ Own.gen = header /\ Own.seq >= 1 /\ Own.seq < jlog.next
               /\ Own.lba = Todo[1][1] /\ Own.sum = Todo[1][2] /\ Own.tx = jlog.tx
               /\ jlog.depth = 1 => jlog.count >= 1
    /\ ~Busy => Own = NoRec
    /\ Pc \in Sealing => /\ Com.kind = "commit" /\ Com.gen = header /\ Com.tx # 0
                         /\ Com.sum \in 1 .. Chunk
    /\ Pc \notin Sealing => Com = NoRec

\* A record on the device is of some generation so far, and what a call recorded is
\* something it writes.
RecordsSane ==
    \A s \in Slots : slotA[s].kind # "none" =>
      /\ slotA[s].seq >= 1 /\ slotA[s].seq % NRec = s
      /\ slotA[s].gen >= 1 /\ slotA[s].gen <= header
      /\ slotA[s].kind = "data" /\ slotA[s].tx = 0 => slotA[s].lba \notin Data
      /\ slotA[s].kind = "data" /\ slotA[s].tx # 0 =>
           /\ slotA[s].lba \in Data /\ slotA[s].sum \in DOMAIN writes
           /\ slotA[s].lba \in writes[slotA[s].sum]
      /\ slotA[s].kind = "commit" => slotA[s].tx # 0 /\ slotA[s].sum \in 1 .. Chunk

Bounded == \E n \in Nat : \A s \in Slots : slotA[s].seq <= n

\* The commit that went ahead of the record is on the device.
ValveSealed ==
    /\ jlog.next = Own.seq + 2 /\ Job = "call" /\ jlog.count = 1 /\ jlog.tx > 1
    /\ \E c \in Live(slotA, header) :
         /\ slotA[c].kind = "commit" /\ slotA[c].seq = Own.seq + 1
         /\ slotA[c].tx = jlog.tx - 1 /\ slotA[c].sum = Chunk
         /\ \A s \in Live(slotA, header) : s # c => slotA[s].seq < Own.seq

\* The numbers on the device, and those that are out.
Numbers ==
    Counting =>
      /\ Pc \notin {"dataA", "sealB"} => \A s \in Live(slotA, header) : slotA[s].seq < Low
      /\ Pc = "dataA" => \/ ValveSealed
                         \/ /\ jlog.next = Own.seq + 1
                            /\ \A s \in Live(slotA, header) : slotA[s].seq < Own.seq
      /\ Pc = "sealB" /\ Valve => ValveSealed
      /\ Pc = "sealB" /\ ~Valve => \A s \in Live(slotA, header) : slotA[s].seq < Low
      /\ Pc = "sealSeq" /\ Valve => jlog.next = Own.seq + 1
      /\ Pc = "sealA" /\ Valve => Com.seq = Own.seq + 1 /\ jlog.next = Own.seq + 2
      /\ Pc = "sealA" /\ ~Valve => jlog.next = Com.seq + 1
      /\ Pc = "sealB" => slotA[Slot(Com)] = Com
      /\ Pc \in {"dataB", "home", "cache"} => slotA[Slot(Own)] = Own
      /\ Low >= 1
      /\ Low = 1 \/ \E s \in Live(slotA, header) : slotA[s].seq = Low - 1

\* Recovery would bring back no call older than one that returned.
AckedCovered == \A n \in acked : \A b \in writes[n] : Covers(slotA, slotB, header, b, n, {})

\* The transaction of the call has n records in the ring, all there to be counted.
OpenTx(t, n) ==
    /\ Seals(slotA, header, t) = {}
    /\ Cardinality(Members(slotA, header, t)) = n
    /\ \A s \in Members(slotA, header, t) :
         /\ Low <= slotA[s].seq + n + 1
         /\ slotA[s].sum = call[h1]
         /\ slotB[s] = slotA[s].sum \/ (Pc = "dataB" /\ s = Slot(Own))

Open == {t \in Nat : (jlog.depth = 1 /\ t = jlog.tx) \/ (Pc \in {"sealSeq", "sealA"} /\ t = Com.tx)}

Pending == IF Pc \in Sealing \cup {"dataA"} THEN 1 ELSE 0

\* While the system is up all transactions in the ring are its own, and young.
Session ==
    /\ Job \in {"up", "call"} =>
         \A s \in InTx(slotA, header) : slotA[s].tx < jlog.txNext /\ slotA[s].seq + NRec >= Low
    /\ Job = "call" =>
         /\ jlog.count <= Chunk
         /\ jlog.depth = 1 => /\ jlog.tx >= 1 /\ jlog.tx + 1 = jlog.txNext
                              /\ OpenTx(jlog.tx, jlog.count - Pending)
         /\ Valve => Com.tx + 1 = jlog.tx /\ jlog.count = 1 /\ Com.sum = Chunk
         /\ Pc \in Sealing /\ ~Valve => Com.tx + 1 = jlog.txNext
         /\ Pc \in {"sealSeq", "sealA"} => OpenTx(Com.tx, Com.sum)

\* The dirty flag guards what only recovery can put right.
Flagged ==
    /\ Job \in {"clear", "mark"} => InTx(slotA, header) = {}
    /\ Job = "halt" /\ Pc # "header" => InTx(slotA, header) = {}
    /\ Job \in {"init", "up", "call"} => home[Sb] = Dirty
    /\ Job = "halt" /\ Pc = "header" => home[Sb] = Dirty
    /\ Job = "mark" /\ Pc \in {"cache", "idle"} => home[Sb] = Dirty
    /\ home[Sb] # Dirty /\ Job \notin {"replay", "rebuild"} => InTx(slotA, header) = {}

\* The rebuild writes over the ring, from the last number back.
Rebuilt == (Rebuilds - Len(Todo)) + (IF Pc \in {"dataB", "home", "cache"} THEN 1 ELSE 0)

Flood ==
    Job = "rebuild" =>
      /\ Rebuilt <= Low
      /\ \A j \in (Low - Rebuilt) .. (Low - 1) : j % NRec \notin InTx(slotA, header)

\* The blocks the call has still to bring home.
Missing == {Todo[i][1] : i \in (IF Pc = "cache" THEN 2 .. Len(Todo) ELSE DOMAIN Todo)}

\* A block holds what some call wrote, and what no call that returned is younger than,
\* unless recovery is still to bring that.
HomeWritten == \A b \in Data : home[b] = 0 \/ (home[b] \in DOMAIN writes /\ b \in writes[home[b]])

HomeFresh ==
    \A n \in acked : \A b \in writes[n] :
      \/ home[b] >= n
      \/ Job \in {"off", "init"} /\ Holders(slotA, slotB, header, b, {}) # {}
      \/ Job = "replay" /\ \E r \in replay : r.lba = b /\ r.sum >= n

CallWritten ==
    Job = "call" =>
      /\ \A b \in writes[call[h1]] : home[b] = call[h1] \/ b \in Missing
      /\ \A b \in Data : home[b] = call[h1] => Covers(slotA, slotB, header, b, call[h1], Open)

Replayed ==
    Job = "replay" =>
      /\ replay \subseteq ToReplay(header)
      /\ \A r \in replay, q \in ToReplay(header) : q.seq >= r.seq => q \in replay

JInv ==
    /\ Types /\ Control /\ Work /\ RecordsSane /\ Bounded /\ Numbers
    /\ RingOK(slotA, slotB, header) /\ AckedCovered /\ Session /\ Flagged /\ Flood
    /\ HomeWritten /\ HomeFresh /\ CallWritten /\ Replayed

----------------------------------------------------------------------------
(* The beginning *)

LEMMA JInit ==
    ASSUME OneHart, Init
    PROVE  JInv
<1> USE JournalAssumption DEF OneHart
<1>0. NoRec \in AnyRec /\ Sb \in Blocks
  BY DEF NoRec, AnyRec, Blocks, Zeros
<1>1. Types
  <2>1. home \in [Blocks -> Int]
    BY DEF Init, Dirty, Whole, Zeros
  <2>2. job \in [Harts -> Jobs] /\ pc \in [Harts -> Points]
    BY DEF Init, Jobs, Points
  <2>3. todo \in [Harts -> Seq(Blocks \X Int)]
    BY DEF Init
  <2>4. jlog \in LogType
    BY DEF Init, FreshLog, LogType
  <2>5. QED
    BY <1>0, <2>1, <2>2, <2>3, <2>4 DEF Init, Types, Zeros
<1>2. Control /\ Work
  BY DEF Init, Control, Work, Job, Pc, Todo, Own, Com, Busy, Valve, Sealing, Writing, FreshLog
<1>3. Live(slotA, header) = {}
  BY DEF Init, Live, NoRec
<1>4. InTx(slotA, header) = {} /\ (\A t : Members(slotA, header, t) = {} /\ Seals(slotA, header, t) = {})
  BY <1>3 DEF InTx, Members, Seals
<1>5. RecordsSane /\ Bounded
  BY DEF Init, RecordsSane, Bounded, NoRec
<1>6. Numbers
  BY DEF Init, Numbers, Counting, Job
<1>7. RingOK(slotA, slotB, header) /\ AckedCovered
  BY <1>3, <1>4 DEF Init, RingOK, Placed, Ordered, Sealed, Spans, Young, AckedCovered
<1>8. Session /\ Flagged /\ Flood
  BY <1>4 DEF Init, Session, Flagged, Flood, Job, Pc
<1>9. HomeWritten /\ HomeFresh /\ CallWritten /\ Replayed
  BY DEF Init, HomeWritten, HomeFresh, CallWritten, Replayed, Job, Blocks, Zeros
<1>10. QED
  BY <1>1, <1>2, <1>5, <1>6, <1>7, <1>8, <1>9 DEF JInv

----------------------------------------------------------------------------
(* What a step leaves alone *)

LEMMA HartTypes ==
    ASSUME OneHart, Types
    PROVE  /\ Job \in Jobs /\ Pc \in Points /\ Todo \in Seq(Blocks \X Int) /\ call[h1] \in Nat
           /\ Own \in AnyRec /\ Own.seq \in Nat /\ Own.tx \in Nat /\ Own.sum \in Int /\ Own.lba \in Blocks
           /\ Com \in AnyRec /\ Com.seq \in Nat /\ Com.tx \in Nat /\ Com.sum \in Int /\ Com.lba \in Blocks
           /\ jlog.next \in Nat /\ jlog.gen \in Nat /\ jlog.depth \in {0, 1} /\ jlog.tx \in Nat
           /\ jlog.count \in Nat /\ jlog.txNext \in Nat /\ Low \in Nat
           /\ NoRec \in AnyRec
           /\ \A s \in Slots : /\ slotA[s] \in AnyRec /\ slotA[s].gen \in Nat /\ slotA[s].seq \in Nat
                               /\ slotA[s].tx \in Nat /\ slotA[s].sum \in Int
                               /\ slotA[s].lba \in Blocks /\ slotB[s] \in Int
<1>1. /\ Job \in Jobs /\ Pc \in Points /\ Todo \in Seq(Blocks \X Int) /\ call[h1] \in Nat
      /\ Own \in AnyRec /\ Com \in AnyRec
  BY DEF Types, OneHart, Job, Pc, Todo, Own, Com
<1>2. /\ Own.seq \in Nat /\ Own.tx \in Nat /\ Own.sum \in Int /\ Own.lba \in Blocks
      /\ Com.seq \in Nat /\ Com.tx \in Nat /\ Com.sum \in Int /\ Com.lba \in Blocks
  BY <1>1 DEF AnyRec
<1>3. /\ jlog.next \in Nat /\ jlog.gen \in Nat /\ jlog.depth \in {0, 1} /\ jlog.tx \in Nat
      /\ jlog.count \in Nat /\ jlog.txNext \in Nat
  BY DEF Types, LogType
<1>4. Low \in Nat
  BY <1>2, <1>3 DEF Low
<1>5. NoRec \in AnyRec
  BY JournalAssumption DEF NoRec, AnyRec, Blocks, Zeros
<1>6. ASSUME NEW s \in Slots
      PROVE  /\ slotA[s] \in AnyRec /\ slotA[s].gen \in Nat /\ slotA[s].seq \in Nat
             /\ slotA[s].tx \in Nat /\ slotA[s].sum \in Int
             /\ slotA[s].lba \in Blocks /\ slotB[s] \in Int
  <2>1. slotA[s] \in AnyRec /\ slotB[s] \in Int
    BY DEF Types
  <2>2. QED
    BY <2>1 DEF AnyRec
<1>7. QED
  BY <1>1, <1>2, <1>3, <1>4, <1>5, <1>6

LEMMA RingFrame ==
    ASSUME JInv, UNCHANGED <<slotA, slotB, header, writes, acked>>
    PROVE  /\ RecordsSane' /\ Bounded' /\ RingOK(slotA, slotB, header)' /\ AckedCovered'
           /\ Live(slotA, header)' = Live(slotA, header)
           /\ InTx(slotA, header)' = InTx(slotA, header)
<1>1. RecordsSane' /\ Bounded'
  BY DEF JInv, RecordsSane, Bounded
<1>2. RingOK(slotA, slotB, header)'
  BY DEF JInv
<1>3. AckedCovered'
  BY DEF JInv, AckedCovered
<1>4. QED
  BY <1>1, <1>2, <1>3

----------------------------------------------------------------------------
(* The log *)

LEMMA OpenedEffect ==
    ASSUME NEW j \in LogType
    PROVE  /\ Opened(j) \in LogType /\ Opened(j).tx = j.txNext /\ Opened(j).txNext = j.txNext + 1
           /\ Opened(j).count = 0 /\ Opened(j).next = j.next /\ Opened(j).gen = j.gen
           /\ Opened(j).depth = j.depth
<1>1. Opened(j) \in LogType
  <2>1. PICK n \in Nat : n = j.txNext + 1
    BY DEF LogType
  <2>2. Opened(j) = [j EXCEPT !.tx = j.txNext, !.txNext = n, !.count = 0]
    BY <2>1 DEF Opened
  <2>3. [j EXCEPT !.tx = j.txNext, !.txNext = n, !.count = 0] \in LogType
    BY DEF LogType
  <2>4. QED
    BY <2>2, <2>3
<1>2. Opened(j).tx = j.txNext
  BY DEF LogType, Opened
<1>3. Opened(j).txNext = j.txNext + 1
  BY DEF LogType, Opened
<1>4. Opened(j).count = 0 /\ Opened(j).next = j.next
  BY DEF LogType, Opened
<1>5. Opened(j).gen = j.gen /\ Opened(j).depth = j.depth
  BY DEF LogType, Opened
<1>6. QED
  BY <1>1, <1>2, <1>3, <1>4, <1>5

LEMMA CountedEffect ==
    ASSUME NEW j \in LogType
    PROVE  /\ Counted(j) \in LogType /\ Counted(j).depth = j.depth
           /\ Counted(j).next = j.next /\ Counted(j).gen = j.gen
           /\ j.depth = 0 => Counted(j) = j
           /\ j.depth = 1 /\ j.count >= Chunk =>
                /\ Counted(j).tx = j.txNext /\ Counted(j).txNext = j.txNext + 1
                /\ Counted(j).count = 1
           /\ j.depth = 1 /\ ~(j.count >= Chunk) =>
                /\ Counted(j).tx = j.tx /\ Counted(j).txNext = j.txNext
                /\ Counted(j).count = j.count + 1
<1>0. j.depth \in {0, 1} /\ j.count \in Nat
  BY DEF LogType
<1>1. CASE j.depth = 0
  BY <1>1 DEF Counted
<1>2. CASE j.depth = 1 /\ j.count >= Chunk
  <2>1. Counted(j) = [Opened(j) EXCEPT !.count = Opened(j).count + 1]
    BY <1>2 DEF Counted
  <2>2. Opened(j).count + 1 = 1
    BY OpenedEffect
  <2> DEFINE o == Opened(j)
  <2>3. /\ o \in LogType /\ o.tx = j.txNext /\ o.txNext = j.txNext + 1 /\ o.next = j.next
        /\ o.gen = j.gen /\ o.depth = j.depth /\ Counted(j) = [o EXCEPT !.count = 1]
    BY <2>1, <2>2, OpenedEffect
  <2> HIDE DEF o
  <2>4. QED
    BY <2>3, <1>2 DEF LogType
<1>3. CASE j.depth = 1 /\ ~(j.count >= Chunk)
  <2>1. Counted(j) = [j EXCEPT !.count = j.count + 1]
    BY <1>3 DEF Counted
  <2>2. j.count + 1 \in Nat
    BY <1>0
  <2>3. QED
    BY <2>1, <2>2, <1>3 DEF LogType
<1>4. QED
  BY <1>0, <1>1, <1>2, <1>3

\* The next record of the call opens the valve.
Overfull == jlog.depth > 0 /\ jlog.count >= Chunk

\* The commit record of the transaction in the log.
CommitOf(j) == [NoRec EXCEPT !.kind = "commit", !.gen = j.gen, !.tx = j.tx, !.sum = j.count]

LEMMA CommitEffect ==
    ASSUME NEW j \in LogType
    PROVE  /\ CommitOf(j) \in AnyRec /\ CommitOf(j).kind = "commit" /\ CommitOf(j).gen = j.gen
           /\ CommitOf(j).tx = j.tx /\ CommitOf(j).sum = j.count
<1>1. j.gen \in Nat /\ j.tx \in Nat /\ j.count \in Int
  BY DEF LogType
<1>2. NoRec \in AnyRec
  BY JournalAssumption DEF NoRec, AnyRec, Blocks, Zeros
<1>3. CommitOf(j) \in AnyRec
  BY <1>1, <1>2 DEF CommitOf, AnyRec
<1>4. CommitOf(j).kind = "commit" /\ CommitOf(j).gen = j.gen
  BY <1>1, <1>2 DEF CommitOf, AnyRec
<1>5. CommitOf(j).tx = j.tx /\ CommitOf(j).sum = j.count
  BY <1>1, <1>2 DEF CommitOf, AnyRec
<1>6. QED
  BY <1>3, <1>4, <1>5

\* What taking a number does, to the hart and to the log.
LEMMA TakeSeqEffect ==
    ASSUME OneHart, JInv, TakeSeq(h1)
    PROVE  /\ UNCHANGED <<home, slotA, slotB, header, job, todo, replay, call, writes, acked>>
           /\ Job \in {"rebuild", "clear", "mark", "halt", "call"}
           /\ Pc = "take" /\ Todo # <<>> /\ Own = NoRec /\ Com = NoRec
           /\ jlog.gen = header /\ header >= 1
           /\ pc' \in [Harts -> Points] /\ pc'[h1] = (IF Overfull THEN "sealSeq" ELSE "dataA")
           /\ jlog' \in LogType
           /\ jlog'.next = jlog.next + 1 /\ jlog'.gen = jlog.gen /\ jlog'.depth = jlog.depth
           /\ jlog.depth = 0 => /\ jlog'.tx = jlog.tx /\ jlog'.count = jlog.count
                                /\ jlog'.txNext = jlog.txNext
           /\ Overfull => /\ jlog'.tx = jlog.txNext /\ jlog'.count = 1 /\ jlog'.txNext = jlog.txNext + 1
                       /\ Job = "call" /\ jlog.depth = 1 /\ jlog.count = Chunk
                       /\ jlog.tx + 1 = jlog.txNext /\ jlog.tx >= 1
           /\ jlog.depth = 1 /\ ~Overfull => /\ jlog'.tx = jlog.tx /\ jlog'.count = jlog.count + 1
                                          /\ jlog'.txNext = jlog.txNext /\ jlog.count < Chunk
                                          /\ Job = "call"
           /\ rec' \in [Harts -> AnyRec]
           /\ rec'[h1].kind = "data" /\ rec'[h1].gen = header /\ rec'[h1].seq = jlog.next
           /\ rec'[h1].lba = Todo[1][1] /\ rec'[h1].sum = Todo[1][2] /\ rec'[h1].tx = jlog'.tx
           /\ rec'[h1] # NoRec
           /\ seal' \in [Harts -> AnyRec]
           /\ Overfull => /\ seal'[h1].kind = "commit" /\ seal'[h1].gen = header
                       /\ seal'[h1].tx = jlog.tx /\ seal'[h1].sum = jlog.count
           /\ ~Overfull => seal'[h1] = NoRec
<1> USE Sizes DEF OneHart
<1>0. /\ Types /\ Control /\ Work /\ Session
  BY DEF JInv
<1>1. /\ UNCHANGED <<home, slotA, slotB, header, job, todo, replay, call, writes, acked>>
      /\ Pc = "take" /\ pc' = [pc EXCEPT ![h1] = IF Overfull THEN "sealSeq" ELSE "dataA"]
  BY DEF TakeSeq, Goto, Pc, device, history, Overfull
<1>2. /\ Job \in {"rebuild", "clear", "mark", "halt", "call"} /\ Todo # <<>> /\ Own = NoRec /\ Com = NoRec
      /\ jlog.gen = header /\ header >= 1
  BY <1>0, <1>1 DEF Types, Control, Work, Todo, Jobs, Job, Busy, Valve, Sealing, Writing
<1>3. Todo[1] \in Blocks \X Int /\ Head(todo[h1]) = Todo[1] /\ header \in Nat
  BY <1>0, <1>2 DEF Types, Todo
<1>4. /\ pc' \in [Harts -> Points] /\ pc'[h1] = IF Overfull THEN "sealSeq" ELSE "dataA"
  BY <1>0, <1>1 DEF Types, Points
<1>5. jlog \in LogType /\ jlog.next + 1 \in Nat /\ jlog.depth \in {0, 1} /\ jlog.count \in Nat
  BY <1>0 DEF Types, LogType
<1>6. Overfull => /\ Job = "call" /\ jlog.depth = 1 /\ jlog.count = Chunk
                  /\ jlog.tx + 1 = jlog.txNext /\ jlog.tx >= 1
  BY <1>0, <1>5 DEF Control, Session, Overfull
<1>7. jlog.depth = 1 => Job = "call"
  BY <1>0 DEF Control
<1>8. jlog' = [Counted(jlog) EXCEPT !.next = jlog.next + 1]
  BY DEF TakeSeq
<1>9. /\ jlog' \in LogType /\ jlog'.next = jlog.next + 1 /\ jlog'.gen = jlog.gen
      /\ jlog'.depth = jlog.depth /\ jlog'.tx = Counted(jlog).tx
      /\ jlog'.txNext = Counted(jlog).txNext /\ jlog'.count = Counted(jlog).count
  <2> DEFINE k == Counted(jlog)
  <2>1. k \in LogType /\ k.gen = jlog.gen /\ k.depth = jlog.depth
    BY <1>5, CountedEffect
  <2>2. jlog' = [k EXCEPT !.next = jlog.next + 1]
    BY <1>8
  <2> HIDE DEF k
  <2>3. /\ jlog' \in LogType /\ jlog'.next = jlog.next + 1 /\ jlog'.gen = k.gen
        /\ jlog'.depth = k.depth /\ jlog'.tx = k.tx /\ jlog'.txNext = k.txNext /\ jlog'.count = k.count
    BY <2>1, <2>2, <1>5 DEF LogType
  <2>4. QED
    BY <2>1, <2>3 DEF k
<1>10. /\ jlog.depth = 0 => /\ jlog'.tx = jlog.tx /\ jlog'.count = jlog.count
                            /\ jlog'.txNext = jlog.txNext
       /\ Overfull => jlog'.tx = jlog.txNext /\ jlog'.count = 1 /\ jlog'.txNext = jlog.txNext + 1
       /\ jlog.depth = 1 /\ ~Overfull => /\ jlog'.tx = jlog.tx /\ jlog'.count = jlog.count + 1
                                          /\ jlog'.txNext = jlog.txNext /\ jlog.count < Chunk
  BY <1>5, <1>9, CountedEffect DEF Overfull
<1>12. (IF jlog.depth = 0 THEN 0 ELSE Counted(jlog).tx) = jlog'.tx
  BY <1>0, <1>9, <1>10 DEF Control
<1>13. rec' = [rec EXCEPT ![h1] = [kind |-> "data", gen |-> jlog.gen, seq |-> jlog.next,
                                   lba |-> Head(todo[h1])[1], sum |-> Head(todo[h1])[2],
                                   tx |-> jlog'.tx]]
  BY <1>12 DEF TakeSeq
<1>14. /\ rec' \in [Harts -> AnyRec]
       /\ rec'[h1].kind = "data" /\ rec'[h1].gen = header /\ rec'[h1].seq = jlog.next
       /\ rec'[h1].lba = Todo[1][1] /\ rec'[h1].sum = Todo[1][2] /\ rec'[h1].tx = jlog'.tx
  <2>1. /\ jlog'.tx \in Nat /\ jlog.next \in Nat /\ rec \in [Harts -> AnyRec]
        /\ Todo[1][1] \in Blocks /\ Todo[1][2] \in Int
    BY <1>0, <1>3, <1>5, <1>9 DEF Types, LogType
  <2> DEFINE r == [kind |-> "data", gen |-> jlog.gen, seq |-> jlog.next,
                   lba |-> Todo[1][1], sum |-> Todo[1][2], tx |-> jlog'.tx]
  <2>2. r \in AnyRec
    BY <2>1, <1>2, <1>3 DEF AnyRec
  <2>3. rec' = [rec EXCEPT ![h1] = r]
    BY <1>13, <1>3
  <2>4. rec' \in [Harts -> AnyRec] /\ rec'[h1] = r
    BY <2>1, <2>2, <2>3
  <2>5. QED
    BY <2>4, <1>2
<1>15. rec'[h1] # NoRec
  BY <1>14 DEF NoRec
<1>16. /\ seal' \in [Harts -> AnyRec]
       /\ Overfull => /\ seal'[h1].kind = "commit" /\ seal'[h1].gen = header
                   /\ seal'[h1].tx = jlog.tx /\ seal'[h1].sum = jlog.count
       /\ ~Overfull => seal'[h1] = NoRec
  <2>1. CASE ~Overfull
    BY <2>1, <1>0, <1>2 DEF TakeSeq, Types, Com, Overfull
  <2>2. CASE Overfull
    <3> DEFINE c == CommitOf(jlog)
    <3>1. /\ c \in AnyRec /\ c.kind = "commit" /\ c.gen = jlog.gen /\ c.tx = jlog.tx /\ c.sum = jlog.count
      BY <1>5, CommitEffect
    <3>2. seal' = [seal EXCEPT ![h1] = c]
      BY <2>2 DEF TakeSeq, Overfull, CommitOf
    <3>3. QED
      BY <2>2, <3>1, <3>2, <1>0, <1>2 DEF Types
  <2>3. QED
    BY <2>1, <2>2
<1>17. QED
  BY <1>1, <1>2, <1>4, <1>6, <1>7, <1>9, <1>10, <1>14, <1>15, <1>16

----------------------------------------------------------------------------
(* Steps of a block write *)

LEMMA StepTakeSeq ==
    ASSUME OneHart, JInv, TakeSeq(h1)
    PROVE  JInv'
<1> USE Sizes
<1>0. /\ Types /\ Control /\ Work /\ Numbers /\ Session /\ Flagged /\ Flood
      /\ HomeWritten /\ HomeFresh /\ CallWritten /\ Replayed
  BY DEF JInv
<1>1. /\ UNCHANGED <<home, slotA, slotB, header, job, todo, replay, call, writes, acked>>
      /\ Job \in {"rebuild", "clear", "mark", "halt", "call"}
      /\ Pc = "take" /\ Todo # <<>> /\ Own = NoRec /\ Com = NoRec
      /\ jlog.gen = header /\ header >= 1
      /\ Job' = Job /\ Todo' = Todo /\ Pc' = (IF Overfull THEN "sealSeq" ELSE "dataA")
      /\ jlog' \in LogType
      /\ jlog'.next = jlog.next + 1 /\ jlog'.gen = jlog.gen /\ jlog'.depth = jlog.depth
      /\ rec' \in [Harts -> AnyRec] /\ seal' \in [Harts -> AnyRec] /\ pc' \in [Harts -> Points]
      /\ Own'.kind = "data" /\ Own'.gen = header /\ Own'.seq = jlog.next
      /\ Own'.lba = Todo[1][1] /\ Own'.sum = Todo[1][2] /\ Own'.tx = jlog'.tx
      /\ Own' # NoRec
      /\ ~Overfull => Com' = NoRec
  BY TakeSeqEffect DEF Job, Todo, Pc, Own, Com
<1>2. /\ jlog.depth = 0 => /\ jlog'.tx = jlog.tx /\ jlog'.count = jlog.count
                           /\ jlog'.txNext = jlog.txNext
      /\ Overfull => /\ jlog'.tx = jlog.txNext /\ jlog'.count = 1 /\ jlog'.txNext = jlog.txNext + 1
                     /\ Job = "call" /\ jlog.depth = 1 /\ jlog.count = Chunk
                     /\ jlog.tx + 1 = jlog.txNext /\ jlog.tx >= 1
      /\ jlog.depth = 1 /\ ~Overfull => /\ jlog'.tx = jlog.tx /\ jlog'.count = jlog.count + 1
                                        /\ jlog'.txNext = jlog.txNext /\ jlog.count < Chunk
                                        /\ Job = "call"
      /\ Overfull => /\ Com'.kind = "commit" /\ Com'.gen = header
                     /\ Com'.tx = jlog.tx /\ Com'.sum = jlog.count
  BY TakeSeqEffect DEF Job, Com
<1>3. /\ jlog \in LogType /\ jlog.next \in Nat /\ jlog.depth \in {0, 1} /\ jlog.count \in Nat
      /\ jlog.txNext \in Nat /\ jlog.tx \in Nat
  BY <1>0 DEF Types, LogType
<1>4. ~Valve /\ ~Busy /\ Low = jlog.next /\ Busy' /\ (Valve' <=> Overfull) /\ Low' = Low
  BY <1>1 DEF Valve, Busy, Low, Sealing, Writing
<1>5. /\ RecordsSane' /\ Bounded' /\ RingOK(slotA, slotB, header)' /\ AckedCovered'
      /\ Live(slotA, header)' = Live(slotA, header) /\ InTx(slotA, header)' = InTx(slotA, header)
  BY <1>1, RingFrame
<1>6. Types'
  BY <1>0, <1>1 DEF Types
<1>7. Control'
  BY SMTT(20), <1>0, <1>1, <1>2, <1>3, <1>4 DEF Control, Sealing, Writing
<1>8. Work'
  <2>1. Todo[1] \in Blocks \X Int
    BY <1>0, <1>1 DEF Types, Todo, OneHart
  <2>2. /\ Own'.kind = "data" /\ Own'.gen = header /\ Own'.seq >= 1 /\ Own'.seq < jlog'.next
        /\ jlog'.depth = 1 => jlog'.count >= 1
    <3>1. jlog.next >= 1
      BY <1>0, <1>1, <1>4 DEF Numbers, Counting
    <3>2. QED
      BY <3>1, <1>1, <1>2, <1>3 DEF Overfull
  <2>3. Pc' \in Sealing => /\ Com'.kind = "commit" /\ Com'.gen = header /\ Com'.tx # 0
                           /\ Com'.sum \in 1 .. Chunk
    BY <1>1, <1>2, <1>3 DEF Sealing
  <2>4. Pc' \notin Sealing => Com' = NoRec
    BY <1>1 DEF Sealing
  <2>5. Job = "call" => \A i \in DOMAIN Todo : Todo[i][1] \in writes[call[h1]] /\ Todo[i][2] = call[h1]
    BY <1>0 DEF Work
  <2>6. /\ Job = "rebuild" => Len(Todo) <= Rebuilds /\ \A i \in DOMAIN Todo : Todo[i][1] = Bitmap
        /\ Job \in {"clear", "halt"} => Todo \in {<<>>, <<<<Sb, Clean>>>>}
        /\ Job = "mark" => Todo \in {<<>>, <<<<Sb, Dirty>>>>}
    BY <1>0 DEF Work
  <2>7. QED
    BY <2>2, <2>3, <2>4, <2>5, <2>6, <1>1, <1>4 DEF Work
<1>9. Numbers'
  <2>1. Counting /\ Counting'
    BY <1>1 DEF Counting
  <2>2. \A s \in Live(slotA, header) : slotA[s].seq < Low
    BY <1>0, <1>1, <2>1 DEF Numbers
  <2>3. Low >= 1 /\ (Low = 1 \/ \E s \in Live(slotA, header) : slotA[s].seq = Low - 1)
    BY <1>0, <2>1 DEF Numbers
  <2>4. QED
    BY <1>1, <1>3, <1>4, <1>5, <2>1, <2>2, <2>3 DEF Numbers
<1>10. Session'
  <2>1. Job \in {"up", "call"} =>
          \A s \in InTx(slotA, header) : slotA[s].tx < jlog.txNext /\ slotA[s].seq + NRec >= Low
    BY <1>0 DEF Session
  <2>2. slotA \in [Slots -> AnyRec] /\ \A s \in Live(slotA, header) : s \in Slots /\ slotA[s].tx \in Nat
    BY <1>0 DEF Types, Live, AnyRec
  <2>3. Job' \in {"up", "call"} =>
          \A s \in InTx(slotA, header)' : slotA'[s].tx < jlog'.txNext /\ slotA'[s].seq + NRec >= Low'
    BY <2>1, <2>2, <1>1, <1>2, <1>3, <1>4, <1>5 DEF InTx
  <2>4. CASE Job # "call"
    BY <2>3, <2>4, <1>1 DEF Session
  <2>5. ASSUME NEW t, NEW n, OpenTx(t, n)
        PROVE  OpenTx(t, n)'
    BY <2>5, <1>1, <1>4 DEF OpenTx
  <2>6. CASE Job = "call" /\ ~Overfull
    <3>1. jlog.depth = 1 => /\ jlog.tx >= 1 /\ jlog.tx + 1 = jlog.txNext /\ OpenTx(jlog.tx, jlog.count)
      BY <1>0, <1>1, <1>3, <2>6 DEF Session, Pending, Sealing
    <3>2. Pending' = 1
      BY <2>6, <1>1 DEF Pending
    <3>3. jlog'.count - Pending' = jlog.count /\ jlog.depth = 1
      BY SMTT(20), <2>6, <1>1, <1>2, <1>3, <1>0, <3>2 DEF Control, Valve, Sealing
    <3>4. OpenTx(jlog.tx, jlog.count - Pending)'
      BY <3>1, <3>3, <2>6, <1>1, <1>2, <1>4 DEF OpenTx
    <3>5. jlog'.count <= Chunk
      BY <2>6, <3>3, <1>2, <1>3
    <3>6. QED
      BY <2>3, <3>1, <3>3, <3>4, <3>5, <2>6, <1>1, <1>2, <1>4 DEF Session, Sealing
  <2>7. CASE Job = "call" /\ Overfull
    <3>1. OpenTx(jlog.tx, jlog.count)
      BY <1>0, <1>1, <1>2, <1>3, <2>7 DEF Session, Pending, Sealing
    <3>2. OpenTx(Com.tx, Com.sum)'
      BY <3>1, <2>5, <2>7, <1>2
    <3>3. Members(slotA, header, jlog.txNext) = {} /\ Seals(slotA, header, jlog.txNext) = {}
      BY <2>1, <2>2, <2>7, <1>2, <1>3 DEF Members, Seals, InTx
    <3>4. Pending' = 1
      BY <2>7, <1>1 DEF Pending, Sealing
    <3>5. OpenTx(jlog.tx, jlog.count - Pending)'
      <4>1. jlog'.tx = jlog.txNext /\ jlog'.count - Pending' = 0
        BY <3>4, <2>7, <1>2
      <4>2. /\ Seals(slotA', header', jlog'.tx) = {}
            /\ Members(slotA', header', jlog'.tx) = {}
        BY <4>1, <3>3, <1>1
      <4>3. Cardinality(Members(slotA', header', jlog'.tx)) = 0
        BY <4>2, FS_EmptySet
      <4>4. QED
        BY <4>1, <4>2, <4>3 DEF OpenTx
    <3>6. QED
      BY <2>3, <3>2, <3>5, <2>7, <1>1, <1>2, <1>3, <1>4 DEF Session, Sealing
  <2>8. QED
    BY <2>4, <2>6, <2>7
<1>11. Flagged'
  BY <1>0, <1>1, <1>5 DEF Flagged
<1>12. Flood'
  <2>1. Rebuilt' = Rebuilt
    BY <1>1 DEF Rebuilt
  <2>2. QED
    BY <2>1, <1>0, <1>1, <1>4, <1>5 DEF Flood
<1>13. HomeWritten' /\ HomeFresh'
  BY <1>0, <1>1 DEF HomeWritten, HomeFresh
<1>14. CallWritten'
  <2>1. Missing' = Missing
    BY <1>1 DEF Missing
  <2>2. CASE Job = "call"
    <3>1. jlog.depth = 1 /\ (Overfull \/ jlog'.tx = jlog.tx)
      BY <1>0, <1>1, <1>2, <1>3, <1>4, <2>2 DEF Control, Sealing
    <3>2. Open = {t \in Nat : t = jlog.tx}
      BY <3>1, <1>1 DEF Open
    <3>3. \A s \in InTx(slotA, header) : slotA[s].tx \in Open <=> slotA[s].tx \in Open'
      <4>1. \A s \in InTx(slotA, header) : slotA[s].tx < jlog.txNext /\ slotA[s].tx \in Nat
        BY <1>0, <2>2 DEF Session, Types, InTx, Live, AnyRec
      <4>2. CASE Overfull
        <5>1. Open' = {t \in Nat : t = jlog'.tx \/ t = Com'.tx}
          BY <3>1, <4>2, <1>1 DEF Open
        <5>2. QED
          BY <3>2, <4>1, <4>2, <5>1, <1>2, <1>3
      <4>3. CASE ~Overfull
        BY <3>1, <3>2, <4>3, <1>1 DEF Open
      <4>4. QED
        BY <4>2, <4>3
    <3>4. ASSUME NEW b, Covers(slotA, slotB, header, b, call[h1], Open)
          PROVE  Covers(slotA', slotB', header', b, call[h1], Open')
      <4>1. Holders(slotA', slotB', header', b, Open') = Holders(slotA, slotB, header, b, Open)
        BY <3>3, <1>1 DEF Holders
      <4>2. QED
        BY <3>4, <4>1, <1>1 DEF Covers
    <3>5. QED
      BY <3>4, <2>1, <1>0, <1>1 DEF CallWritten
  <2>3. QED
    BY <2>2, <1>1 DEF CallWritten
<1>15. Replayed'
  BY <1>1 DEF Replayed
<1>16. QED
  BY <1>5, <1>6, <1>7, <1>8, <1>9, <1>10, <1>11, <1>12, <1>13, <1>14, <1>15 DEF JInv

LEMMA StepWriteDataB ==
    ASSUME OneHart, JInv, WriteDataB(h1)
    PROVE  JInv'
<1> USE Sizes
<1>0. /\ Types /\ Control /\ Work /\ Numbers /\ Session /\ Flagged /\ Flood /\ RecordsSane /\ Bounded
      /\ HomeWritten /\ HomeFresh /\ CallWritten /\ Replayed
      /\ RingOK(slotA, slotB, header) /\ AckedCovered
  BY DEF JInv
<1>1. /\ UNCHANGED <<home, slotA, header, jlog, job, todo, rec, seal, replay, call, writes, acked>>
      /\ Pc = "dataB" /\ Pc' = "home" /\ pc' \in [Harts -> Points]
      /\ Job' = Job /\ Todo' = Todo /\ Own' = Own /\ Com' = Com
      /\ slotB' = [slotB EXCEPT ![Slot(Own)] = Own.sum]
  BY <1>0 DEF WriteDataB, Goto, Types, Points, OneHart, Job, Pc, Todo, Own, Com, history
<1>2. /\ Job \in Jobs /\ Own \in AnyRec /\ Own.sum \in Int /\ jlog.depth \in {0, 1} /\ Low \in Nat
      /\ \A s \in Slots : slotA[s] \in AnyRec /\ slotA[s].tx \in Nat
  BY <1>0, HartTypes
<1>3. /\ Busy /\ Busy' /\ ~Valve /\ ~Valve' /\ Low' = Low /\ Counting /\ Counting'
      /\ Job \in {"rebuild", "clear", "mark", "halt", "call"}
  BY <1>0, <1>1, <1>2 DEF Busy, Valve, Low, Counting, Control, Sealing, Writing, Jobs
<1>4. slotA[Slot(Own)] = Own /\ slotB' \in [Slots -> Int]
      /\ \A s \in Slots : slotB'[s] = IF s = Slot(Own) THEN Own.sum ELSE slotB[s]
  BY <1>0, <1>1, <1>2, <1>3 DEF Numbers, Types
<1>5. Seals(slotA, header, Own.tx) = {}
  <2>1. CASE jlog.depth = 1
    BY <2>1, <1>0, <1>1, <1>3 DEF Control, Session, OpenTx, Work
  <2>2. CASE jlog.depth = 0
    BY <2>2, <1>0, <1>3 DEF Control, Work, RingOK, Placed, Seals
  <2>3. QED
    BY <2>1, <2>2, <1>2
<1>6. \A t : Seals(slotA, header, t) # {} => \A s \in Members(slotA, header, t) : slotB'[s] = slotB[s]
  BY <1>4, <1>5 DEF Members, Live
<1>7. /\ RingOK(slotA, slotB', header)
      /\ \A b, T : Holders(slotA, slotB', header, b, T) = Holders(slotA, slotB, header, b, T)
      /\ \A b, n, T : Covers(slotA, slotB', header, b, n, T) = Covers(slotA, slotB, header, b, n, T)
  BY <1>0, <1>6, OtherSectors
<1>8. RingOK(slotA, slotB, header)' /\ AckedCovered'
  <2>1. RingOK(slotA, slotB, header)'
    BY <1>1, <1>7
  <2>2. \A n \in acked : \A b \in writes[n] : Covers(slotA, slotB', header, b, n, {})
    BY <1>0, <1>7 DEF AckedCovered
  <2>3. QED
    BY <2>1, <2>2, <1>1 DEF AckedCovered
<1>9. RecordsSane' /\ Bounded'
  BY <1>0, <1>1 DEF RecordsSane, Bounded
<1>10. Types'
  BY <1>0, <1>1, <1>4 DEF Types
<1>11. Control' /\ Work'
  BY <1>0, <1>1, <1>3 DEF Control, Work, Sealing, Writing
<1>12. Numbers'
  BY <1>0, <1>1, <1>3 DEF Numbers
<1>13. Session'
  <2>1. ASSUME NEW n, OpenTx(jlog.tx, n)
        PROVE  OpenTx(jlog.tx, n)'
    <3>1. \A s \in Members(slotA, header, jlog.tx) : s \in Slots
      BY DEF Members, Live
    <3>2. \A s \in Members(slotA, header, jlog.tx) : slotB'[s] = slotA[s].sum
      BY <2>1, <3>1, <1>1, <1>4 DEF OpenTx
    <3>3. QED
      BY <2>1, <3>2, <1>1, <1>3 DEF OpenTx
  <2>2. Pending = 0 /\ Pending' = 0
    BY <1>1 DEF Pending, Sealing
  <2>3. Job = "call" /\ jlog.depth = 1 => OpenTx(jlog.tx, jlog.count - Pending)'
    <3>1. Job = "call" /\ jlog.depth = 1 => OpenTx(jlog.tx, jlog.count - 0)
      BY <1>0, <2>2 DEF Session
    <3>2. QED
      BY <3>1, <2>2, <1>1, <1>3, <1>4 DEF OpenTx, Members, Live
  <2>4. QED
    BY <2>3, <1>0, <1>1, <1>3 DEF Session, Sealing
<1>14. Flagged'
  BY <1>0, <1>1 DEF Flagged
<1>15. Flood'
  <2>1. Rebuilt' = Rebuilt
    BY <1>1 DEF Rebuilt
  <2>2. QED
    BY <2>1, <1>0, <1>1, <1>3 DEF Flood
<1>16. HomeWritten' /\ HomeFresh' /\ Replayed'
  BY <1>0, <1>1, <1>3 DEF HomeWritten, HomeFresh, Replayed
<1>17. CallWritten'
  <2>1. Missing' = Missing /\ Open' = Open
    BY <1>1 DEF Missing, Open
  <2>2. QED
    BY <2>1, <1>0, <1>1, <1>7 DEF CallWritten
<1>18. QED
  BY <1>8, <1>9, <1>10, <1>11, <1>12, <1>13, <1>14, <1>15, <1>16, <1>17 DEF JInv

LEMMA StepWriteHome ==
    ASSUME OneHart, JInv, WriteHome(h1)
    PROVE  JInv'
<1> USE Sizes
<1>0. /\ Types /\ Control /\ Work /\ Numbers /\ Session /\ Flagged /\ Flood
      /\ HomeWritten /\ HomeFresh /\ CallWritten
  BY DEF JInv
<1>1. /\ UNCHANGED <<slotA, slotB, header, jlog, job, todo, rec, seal, replay, call, writes, acked>>
      /\ Pc = "home" /\ Pc' = "cache" /\ pc' \in [Harts -> Points]
      /\ Job' = Job /\ Todo' = Todo /\ Own' = Own /\ Com' = Com
      /\ home' = [home EXCEPT ![Own.lba] = Own.sum]
  BY <1>0 DEF WriteHome, Goto, Types, Points, OneHart, Job, Pc, Todo, Own, Com, history
<1>2. /\ Job \in Jobs /\ Own \in AnyRec /\ Own.sum \in Int /\ Own.lba \in Blocks /\ jlog.depth \in {0, 1}
      /\ Todo \in Seq(Blocks \X Int) /\ Low \in Nat /\ call[h1] \in Nat
  BY <1>0, HartTypes
<1>3. /\ Busy /\ Busy' /\ ~Valve /\ ~Valve' /\ Low' = Low /\ Counting /\ Counting'
      /\ Job \in {"rebuild", "clear", "mark", "halt", "call"}
  BY <1>0, <1>1, <1>2 DEF Busy, Valve, Low, Counting, Control, Sealing, Writing, Jobs
<1>4. /\ Todo # <<>> /\ Own.lba = Todo[1][1] /\ Own.sum = Todo[1][2] /\ 1 \in DOMAIN Todo
      /\ home' \in [Blocks -> Int]
      /\ \A b \in Blocks : home'[b] = IF b = Own.lba THEN Own.sum ELSE home[b]
  BY SMTT(20), <1>0, <1>1, <1>2, <1>3 DEF Work, Types
<1>5. /\ RecordsSane' /\ Bounded' /\ RingOK(slotA, slotB, header)' /\ AckedCovered'
      /\ InTx(slotA, header)' = InTx(slotA, header)
  BY <1>1, RingFrame
<1>6. /\ Data \subseteq Blocks /\ Sb \in Blocks /\ Sb \notin Data /\ Bitmap \notin Data /\ Sb # Bitmap
  BY JournalAssumption DEF Blocks
<1>7. /\ Job = "call" => /\ Own.lba \in writes[call[h1]] /\ Own.sum = call[h1]
                         /\ call[h1] = Len(writes) /\ call[h1] \in DOMAIN writes /\ Own.lba \in Data
      /\ Job = "rebuild" => Own.lba = Bitmap
      /\ Job \in {"clear", "mark", "halt"} => Own.lba = Sb
      /\ Job = "mark" => Own.sum = Dirty
  <2>1. Job = "call" => Own.lba \in writes[call[h1]] /\ Own.sum = call[h1]
    BY <1>0, <1>4 DEF Work
  <2>2. Job = "call" => call[h1] = Len(writes) /\ call[h1] # 0
    BY <1>0 DEF Control
  <2>3. Job = "call" => call[h1] \in DOMAIN writes /\ writes[call[h1]] \subseteq Data
    BY <2>2, <1>0, <1>2 DEF Types
  <2>4. Job = "rebuild" => Own.lba = Bitmap
    BY <1>0, <1>4 DEF Work
  <2>5. Job \in {"clear", "halt"} => Own.lba = Sb
    BY <1>0, <1>4 DEF Work
  <2>6. Job = "mark" => Own.lba = Sb /\ Own.sum = Dirty
    BY <1>0, <1>4 DEF Work
  <2>7. QED
    BY <2>1, <2>2, <2>3, <2>4, <2>5, <2>6
<1>10. Types'
  BY <1>0, <1>1, <1>4 DEF Types
<1>11. Control' /\ Work'
  BY <1>0, <1>1, <1>3 DEF Control, Work, Sealing, Writing
<1>12. Numbers'
  BY <1>0, <1>1, <1>3 DEF Numbers
<1>13. Session'
  <2>1. Pending = 0 /\ Pending' = 0
    BY <1>1 DEF Pending, Sealing
  <2>2. Job = "call" /\ jlog.depth = 1 => OpenTx(jlog.tx, jlog.count - Pending)'
    <3>1. Job = "call" /\ jlog.depth = 1 => OpenTx(jlog.tx, jlog.count - 0)
      BY <1>0, <2>1 DEF Session
    <3>2. QED
      BY <3>1, <2>1, <1>1, <1>3 DEF OpenTx
  <2>3. QED
    BY <2>2, <1>0, <1>1, <1>3 DEF Session, Sealing
<1>14. Flagged'
  BY <1>0, <1>1, <1>3, <1>4, <1>5, <1>6, <1>7 DEF Flagged
<1>15. Flood'
  <2>1. Rebuilt' = Rebuilt
    BY <1>1 DEF Rebuilt
  <2>2. QED
    BY <2>1, <1>0, <1>1, <1>3 DEF Flood
<1>16. HomeWritten'
  BY <1>0, <1>1, <1>3, <1>4, <1>6, <1>7 DEF HomeWritten
<1>17. HomeFresh'
  <2>1. SUFFICES ASSUME NEW n \in acked, NEW b \in writes[n] PROVE home'[b] >= n
    BY <1>1 DEF HomeFresh
  <2>2. n \in DOMAIN writes /\ b \in Data /\ n <= Len(writes) /\ n \in Nat
    BY <1>0 DEF Types
  <2>3. home[b] >= n
    BY <1>0, <1>3 DEF HomeFresh
  <2>4. QED
    BY <2>2, <2>3, <1>3, <1>4, <1>6, <1>7
<1>18. Replayed'
  BY <1>1, <1>3 DEF Replayed
<1>19. CallWritten'
  <2>1. CASE Job = "call"
    <3>1. Missing = {Todo[i][1] : i \in DOMAIN Todo} /\ Missing' = {Todo[i][1] : i \in 2 .. Len(Todo)}
      BY <1>1 DEF Missing
    <3>2. Missing \subseteq Missing' \cup {Own.lba}
      BY <3>1, <1>2, <1>4
    <3>3. ASSUME NEW b \in writes[call[h1]]
          PROVE  home'[b] = call[h1] \/ b \in Missing'
      <4>1. home[b] = call[h1] \/ b \in Missing
        BY <1>0, <2>1 DEF CallWritten
      <4>2. b \in Blocks
        BY <1>0, <1>6, <1>7, <2>1 DEF Types
      <4>3. QED
        BY <4>1, <4>2, <3>2, <1>4, <1>7, <2>1
    <3>4. Open' = Open
      BY <1>1 DEF Open
    <3>5. Covers(slotA, slotB, header, Own.lba, call[h1], Open)
      <4>1. jlog.depth = 1 /\ Own.tx = jlog.tx /\ jlog.tx >= 1
        BY <1>0, <1>1, <1>3, <2>1 DEF Control, Work, Session, Sealing
      <4>2. slotA[Slot(Own)] = Own /\ Slot(Own) \in Slots
        <5>1. slotA[Slot(Own)] = Own
          BY <1>0, <1>1, <1>3 DEF Numbers
        <5>2. Own.seq \in Nat /\ NRec \in Nat \ {0}
          BY <1>0, HartTypes
        <5>3. QED
          BY <5>1, <5>2, Remainder DEF Slot, Slots
      <4>3. Own.kind = "data" /\ Own.gen = header /\ Own.seq >= 1
        BY <1>0, <1>3 DEF Work
      <4>4. jlog.tx \in Open
        BY <4>1, <1>0, HartTypes DEF Open
      <4>5. Slot(Own) \in Holders(slotA, slotB, header, Own.lba, Open)
        BY SMTT(20), <4>1, <4>2, <4>3, <4>4, <1>0, HartTypes DEF Holders, InTx, Live
      <4>6. QED
        BY <4>2, <4>5, <1>2, <1>7, <2>1 DEF Covers
    <3>6. QED
      BY <3>3, <3>4, <3>5, <1>0, <1>1, <1>4, <1>6, <2>1 DEF CallWritten
  <2>2. QED
    BY <2>1, <1>1 DEF CallWritten
<1>20. QED
  BY <1>5, <1>10, <1>11, <1>12, <1>13, <1>14, <1>15, <1>16, <1>17, <1>18, <1>19 DEF JInv

LEMMA TailEffect ==
    ASSUME NEW S, NEW q \in Seq(S), q # <<>>
    PROVE  /\ Len(q) \in Nat \ {0} /\ Len(Tail(q)) = Len(q) - 1
           /\ Tail(q) \in Seq(S) /\ (Tail(q) = <<>> <=> Len(q) = 1)
           /\ \A i \in DOMAIN Tail(q) : i + 1 \in DOMAIN q /\ Tail(q)[i] = q[i + 1]
           /\ DOMAIN Tail(q) = 1 .. Len(q) - 1
<1>1. Len(q) \in Nat \ {0} /\ Len(Tail(q)) = Len(q) - 1 /\ Tail(q) \in Seq(S)
  OBVIOUS
<1>2. DOMAIN Tail(q) = 1 .. Len(q) - 1 /\ DOMAIN q = 1 .. Len(q)
  BY <1>1
<1>3. \A i \in DOMAIN Tail(q) : i + 1 \in DOMAIN q /\ Tail(q)[i] = q[i + 1]
  BY <1>1, <1>2
<1>4. Tail(q) = <<>> <=> Len(Tail(q)) = 0
  BY <1>1, EmptySeq
<1>5. QED
  BY <1>1, <1>2, <1>3, <1>4

LEMMA StepWriteCache ==
    ASSUME OneHart, JInv, WriteCache(h1)
    PROVE  JInv'
<1> USE Sizes
<1>0. /\ Types /\ Control /\ Work /\ Numbers /\ Session /\ Flagged /\ Flood
      /\ HomeWritten /\ HomeFresh /\ CallWritten
  BY DEF JInv
<1>1. /\ UNCHANGED <<home, slotA, slotB, header, jlog, job, seal, replay, call, writes, acked>>
      /\ Pc = "cache" /\ pc' \in [Harts -> Points]
      /\ Pc' = (IF Len(Todo) > 1 THEN "take" ELSE IF Job = "call" THEN "commit" ELSE "idle")
      /\ Job' = Job /\ Own' = NoRec /\ Com' = Com /\ rec' = [rec EXCEPT ![h1] = NoRec]
  BY <1>0 DEF WriteCache, Goto, Types, Points, OneHart, Job, Pc, Todo, Own, Com, device, history
<1>a. Todo' = Tail(Todo) /\ todo' = [todo EXCEPT ![h1] = Todo']
  BY <1>0 DEF WriteCache, Types, OneHart, Todo
<1>2. /\ Job \in Jobs /\ jlog.depth \in {0, 1} /\ Todo \in Seq(Blocks \X Int) /\ Low \in Nat
      /\ NoRec \in AnyRec
  BY <1>0, HartTypes
<1>3. /\ Busy /\ ~Busy' /\ ~Valve /\ ~Valve' /\ Low' = Low /\ Counting /\ Counting'
      /\ Job \in {"rebuild", "clear", "mark", "halt", "call"}
  BY <1>0, <1>1, <1>2 DEF Busy, Valve, Low, Counting, Control, Sealing, Writing, Jobs
<1>4. /\ Todo # <<>> /\ Len(Todo) \in Nat \ {0} /\ Len(Todo') = Len(Todo) - 1
      /\ Todo' \in Seq(Blocks \X Int) /\ (Todo' = <<>> <=> Len(Todo) = 1)
      /\ \A i \in DOMAIN Todo' : i + 1 \in DOMAIN Todo /\ Todo'[i] = Todo[i + 1]
      /\ DOMAIN Todo' = 1 .. Len(Todo) - 1
  <2>1. Todo # <<>>
    BY <1>0, <1>3 DEF Work
  <2>2. QED
    BY <2>1, <1>a, <1>2, TailEffect
<1>5. /\ RecordsSane' /\ Bounded' /\ RingOK(slotA, slotB, header)' /\ AckedCovered'
      /\ InTx(slotA, header)' = InTx(slotA, header)
  BY <1>1, RingFrame
<1>6. Types'
  <2>1. todo' \in [Harts -> Seq(Blocks \X Int)] /\ rec' \in [Harts -> AnyRec]
    BY <1>0, <1>1, <1>a, <1>2, <1>4 DEF Types
  <2>2. QED
    BY <2>1, <1>0, <1>1 DEF Types
<1>7. Control'
  BY <1>0, <1>1, <1>3 DEF Control, Sealing, Writing
<1>8. Work'
  <2>1. Pc' = "take" <=> Todo' # <<>>
    BY <1>1, <1>4
  <2>2. Job = "rebuild" => Len(Todo') <= Rebuilds /\ \A i \in DOMAIN Todo' : Todo'[i][1] = Bitmap
    <3>1. Rebuilds \in Nat
      BY JournalAssumption
    <3>2. Job = "rebuild" => Len(Todo) <= Rebuilds /\ \A i \in DOMAIN Todo : Todo[i][1] = Bitmap
      BY <1>0 DEF Work
    <3>3. QED
      BY <3>1, <3>2, <1>4
  <2>3. /\ Job \in {"clear", "halt", "mark"} => Todo' = <<>>
    BY <1>0, <1>1, <1>4 DEF Work
  <2>4. Job = "call" => \A i \in DOMAIN Todo' : Todo'[i][1] \in writes[call[h1]] /\ Todo'[i][2] = call[h1]
    BY <1>0, <1>4 DEF Work
  <2>5. Pc' \notin Sealing /\ Com = NoRec
    BY <1>0, <1>1 DEF Work, Sealing
  <2>6. QED
    BY <2>1, <2>2, <2>3, <2>4, <2>5, <1>1, <1>3 DEF Work
<1>9. Numbers'
  BY <1>0, <1>1, <1>3 DEF Numbers, Sealing
<1>10. Session'
  <2>1. Pending = 0 /\ Pending' = 0 /\ Pc' \notin Sealing /\ Pc' # "dataB"
    BY <1>1 DEF Pending, Sealing
  <2>2. Job = "call" /\ jlog.depth = 1 => OpenTx(jlog.tx, jlog.count - Pending)'
    <3>1. Job = "call" /\ jlog.depth = 1 => OpenTx(jlog.tx, jlog.count - 0)
      BY <1>0, <2>1 DEF Session
    <3>2. QED
      BY <3>1, <2>1, <1>1, <1>3 DEF OpenTx
  <2>3. QED
    BY <2>1, <2>2, <1>0, <1>1, <1>3 DEF Session, Sealing
<1>11. Flagged'
  BY <1>0, <1>1, <1>3, <1>5 DEF Flagged
<1>12. Flood'
  <2>1. Rebuilt' = Rebuilt
    BY <1>1, <1>4, JournalAssumption DEF Rebuilt
  <2>2. QED
    BY <2>1, <1>0, <1>1, <1>3, <1>5 DEF Flood
<1>13. HomeWritten' /\ HomeFresh' /\ Replayed'
  BY <1>0, <1>1, <1>3 DEF HomeWritten, HomeFresh, Replayed
<1>14. CallWritten'
  <2>1. Missing \subseteq Missing'
    <3>1. Missing = {Todo[i][1] : i \in 2 .. Len(Todo)} /\ Missing' = {Todo'[i][1] : i \in DOMAIN Todo'}
      BY <1>1 DEF Missing
    <3>2. ASSUME NEW i \in 2 .. Len(Todo)
          PROVE  i - 1 \in DOMAIN Todo' /\ Todo'[i - 1] = Todo[i]
      <4>1. i - 1 \in DOMAIN Todo' /\ (i - 1) + 1 = i
        BY <1>4
      <4>2. QED
        BY <4>1, <1>4
    <3>3. QED
      BY <3>1, <3>2
  <2>2. Open' = Open
    BY <1>1 DEF Open
  <2>3. QED
    BY <2>1, <2>2, <1>0, <1>1 DEF CallWritten
<1>15. QED
  BY <1>5, <1>6, <1>7, <1>8, <1>9, <1>10, <1>11, <1>12, <1>13, <1>14 DEF JInv

LEMMA StepSealSeq ==
    ASSUME OneHart, JInv, SealSeq(h1)
    PROVE  JInv'
<1> USE Sizes
<1>0. /\ Types /\ Control /\ Work /\ Numbers /\ Session /\ Flagged /\ Flood
      /\ HomeWritten /\ HomeFresh /\ CallWritten
  BY DEF JInv
<1>1. /\ UNCHANGED <<home, slotA, slotB, header, job, todo, rec, replay, call, writes, acked>>
      /\ Pc = "sealSeq" /\ Pc' = "sealA" /\ pc' \in [Harts -> Points]
      /\ Job' = Job /\ Todo' = Todo /\ Own' = Own
      /\ seal' = [seal EXCEPT ![h1].seq = jlog.next]
      /\ jlog' = [jlog EXCEPT !.next = @ + 1]
  BY <1>0 DEF SealSeq, Goto, Types, Points, OneHart, Job, Pc, Todo, Own, device, history
<1>2. /\ Job \in Jobs /\ jlog.depth \in {0, 1} /\ Com \in AnyRec /\ jlog.next \in Nat /\ jlog \in LogType
      /\ Low \in Nat /\ Own.seq \in Nat /\ jlog.count \in Nat
  BY <1>0, HartTypes DEF Types
<1>3. /\ jlog' \in LogType /\ jlog'.next = jlog.next + 1 /\ jlog'.gen = jlog.gen
      /\ jlog'.depth = jlog.depth /\ jlog'.tx = jlog.tx /\ jlog'.count = jlog.count
      /\ jlog'.txNext = jlog.txNext
  <2>1. PICK n \in Nat : n = jlog.next + 1
    BY <1>2
  <2>2. jlog' = [jlog EXCEPT !.next = n]
    BY <2>1, <1>1
  <2>3. QED
    BY <2>1, <2>2, <1>2 DEF LogType
<1>4. /\ seal' \in [Harts -> AnyRec] /\ Com'.seq = jlog.next /\ Com'.kind = Com.kind
      /\ Com'.gen = Com.gen /\ Com'.tx = Com.tx /\ Com'.sum = Com.sum
  <2> DEFINE c == [Com EXCEPT !.seq = jlog.next]
  <2>1. seal' = [seal EXCEPT ![h1] = c]
    BY <1>0, <1>1 DEF Types, Com, OneHart
  <2>2. c \in AnyRec
    BY <1>2 DEF AnyRec
  <2>3. c.seq = jlog.next /\ c.kind = Com.kind /\ c.gen = Com.gen
    BY <1>2 DEF AnyRec
  <2>4. c.tx = Com.tx /\ c.sum = Com.sum
    BY <1>2 DEF AnyRec
  <2> HIDE DEF c
  <2>5. seal' \in [Harts -> AnyRec] /\ Com' = c
    BY <1>0, <2>1, <2>2 DEF Types, Com, OneHart
  <2>6. QED
    BY <2>3, <2>4, <2>5
<1>5. /\ Valve' <=> Valve
      /\ Busy' <=> Busy
      /\ Counting /\ Counting' /\ Job = "call"
  BY <1>0, <1>1, <1>2 DEF Busy, Valve, Counting, Control, Sealing, Writing, Jobs
<1>6. Low' = Low
  BY <1>1, <1>4, <1>5 DEF Low
<1>7. /\ RecordsSane' /\ Bounded' /\ RingOK(slotA, slotB, header)' /\ AckedCovered'
      /\ InTx(slotA, header)' = InTx(slotA, header)
  BY <1>1, RingFrame
<1>8. Types'
  BY <1>0, <1>1, <1>3, <1>4 DEF Types
<1>9. Control'
  BY <1>0, <1>1, <1>3, <1>5 DEF Control, Sealing, Writing
<1>10. Work'
  <2>1. Busy => Own.seq < jlog'.next /\ (jlog'.depth = 1 => jlog'.count >= 1)
    BY <1>0, <1>2, <1>3 DEF Work
  <2>2. Com'.kind = "commit" /\ Com'.gen = header /\ Com'.tx # 0 /\ Com'.sum \in 1 .. Chunk
    BY <1>0, <1>1, <1>4 DEF Work, Sealing
  <2>3. QED
    BY <2>1, <2>2, <1>0, <1>1, <1>3, <1>5 DEF Work, Sealing
<1>11. Numbers'
  BY <1>0, <1>1, <1>2, <1>3, <1>4, <1>5, <1>6 DEF Numbers
<1>12. Session'
  <2>1. ASSUME NEW t, NEW n, OpenTx(t, n)
        PROVE  OpenTx(t, n)'
    BY <2>1, <1>1, <1>6 DEF OpenTx
  <2>2. Pending = 1 /\ Pending' = 1
    BY <1>1 DEF Pending, Sealing
  <2>3. jlog.depth = 1 => OpenTx(jlog.tx, jlog.count - Pending)'
    <3>1. jlog.depth = 1 => OpenTx(jlog.tx, jlog.count - 1)
      BY <1>0, <1>5, <2>2 DEF Session
    <3>2. QED
      BY <3>1, <2>2, <1>1, <1>3, <1>6 DEF OpenTx
  <2>4. OpenTx(Com.tx, Com.sum)'
    <3>1. OpenTx(Com.tx, Com.sum)
      BY <1>0, <1>1, <1>5 DEF Session
    <3>2. QED
      BY <3>1, <1>1, <1>4, <1>6 DEF OpenTx
  <2>5. QED
    BY <2>3, <2>4, <1>0, <1>1, <1>3, <1>4, <1>5, <1>6 DEF Session, Sealing
<1>13. Flagged' /\ Flood'
  BY <1>0, <1>1, <1>5 DEF Flagged, Flood
<1>14. HomeWritten' /\ HomeFresh' /\ Replayed'
  BY <1>0, <1>1, <1>5 DEF HomeWritten, HomeFresh, Replayed
<1>15. CallWritten'
  <2>1. Missing' = Missing
    BY <1>1 DEF Missing
  <2>2. Open' = Open
    BY <1>1, <1>3, <1>4 DEF Open
  <2>3. QED
    BY <2>1, <2>2, <1>0, <1>1 DEF CallWritten
<1>16. QED
  BY <1>7, <1>8, <1>9, <1>10, <1>11, <1>12, <1>13, <1>14, <1>15 DEF JInv

LEMMA ReplayFrame ==
    ASSUME UNCHANGED <<slotA, slotB, header>>
    PROVE  ToReplay(header)' = ToReplay(header)
<1>1. SlotsOfGen(header)' = SlotsOfGen(header)
  BY DEF SlotsOfGen
<1>2. Valid(header)' = Valid(header) /\ \A t : Commits(header, t)' = Commits(header, t)
  BY <1>1 DEF Valid, Commits
<1>3. ASSUME NEW t PROVE Complete(header, t)' = Complete(header, t)
  BY <1>2, Zenon DEF Complete
<1>4. QED
  BY <1>2, <1>3 DEF ToReplay

\* The invariant does not see the cache, nor the history of cuts.
LEMMA StepStutter ==
    ASSUME JInv, UNCHANGED <<home, slotA, slotB, header, jlog, job, pc, todo, rec, seal, replay,
                             call, writes, acked>>
    PROVE  JInv'
<1>1. /\ Job' = Job /\ Pc' = Pc /\ Todo' = Todo /\ Own' = Own /\ Com' = Com
  BY DEF Job, Pc, Todo, Own, Com
<1>2. Low' = Low /\ Valve' = Valve /\ Busy' = Busy /\ Counting' = Counting
  BY <1>1 DEF Low, Valve, Busy, Counting
<1>3. Types' /\ Control' /\ Work'
  BY <1>1, <1>2 DEF JInv, Types, Control, Work
<1>4. RecordsSane' /\ Bounded' /\ RingOK(slotA, slotB, header)' /\ AckedCovered'
  BY RingFrame
<1>5. ValveSealed' = ValveSealed /\ Pending' = Pending /\ Open' = Open /\ Missing' = Missing
      /\ Rebuilt' = Rebuilt
  BY <1>1 DEF ValveSealed, Pending, Open, Missing, Rebuilt
<1>6. Numbers'
  BY <1>1, <1>2, <1>5 DEF JInv, Numbers
<1>7. Session'
  BY <1>1, <1>2, <1>5 DEF JInv, Session, OpenTx
<1>8. Flagged' /\ Flood'
  BY <1>1, <1>2, <1>5 DEF JInv, Flagged, Flood
<1>9. HomeWritten' /\ HomeFresh'
  BY <1>1, <1>5 DEF JInv, HomeWritten, HomeFresh
<1>10. CallWritten'
  BY <1>1, <1>5 DEF JInv, CallWritten
<1>11. Replayed'
  <2>1. ToReplay(header)' = ToReplay(header)
    BY ReplayFrame
  <2>2. QED
    BY <2>1, <1>1 DEF JInv, Replayed
<1>12. QED
  BY <1>3, <1>4, <1>6, <1>7, <1>8, <1>9, <1>10, <1>11 DEF JInv

LEMMA StepSealB ==
    ASSUME OneHart, JInv, SealB(h1)
    PROVE  JInv'
<1> USE Sizes
<1>0. /\ Types /\ Control /\ Work /\ Numbers /\ Session /\ Flagged /\ Flood /\ RecordsSane /\ Bounded
      /\ HomeWritten /\ HomeFresh /\ CallWritten /\ Replayed
      /\ RingOK(slotA, slotB, header) /\ AckedCovered
  BY DEF JInv
<1>1. /\ UNCHANGED <<home, slotA, header, jlog, todo, rec, replay, writes>>
      /\ Pc = "sealB" /\ pc' \in [Harts -> Points]
      /\ Pc' = (IF Own # NoRec THEN "dataA" ELSE "idle")
      /\ Todo' = Todo /\ Own' = Own /\ Com' = NoRec
      /\ slotB' = [slotB EXCEPT ![Slot(Com)] = Zeros]
      /\ seal' = [seal EXCEPT ![h1] = NoRec]
      /\ Own # NoRec => UNCHANGED <<acked, job, call>> /\ Job' = Job
      /\ Own = NoRec => Return(h1)
  BY <1>0 DEF SealB, Goto, Types, Points, OneHart, Job, Pc, Todo, Own, Com
<1>2. /\ Job \in Jobs /\ Com \in AnyRec /\ jlog.depth \in {0, 1} /\ Low \in Nat /\ Own.seq \in Nat
      /\ NoRec \in AnyRec /\ jlog.count \in Nat /\ jlog.tx \in Nat /\ call[h1] \in Nat
      /\ \A s \in Slots : slotA[s] \in AnyRec /\ slotA[s].tx \in Nat
  BY <1>0, HartTypes
<1>3. /\ Job = "call" /\ Counting /\ (Valve <=> Own # NoRec) /\ (Busy <=> Valve) /\ ~Valve'
  BY <1>0, <1>1, <1>2 DEF Busy, Valve, Counting, Control, Sealing, Writing, Jobs
<1>4. Low' = Low
  BY <1>1, <1>3 DEF Low, Sealing
<1>5. slotA[Slot(Com)] = Com /\ Com.kind = "commit" /\ slotB' \in [Slots -> Int]
      /\ \A s \in Slots : s # Slot(Com) => slotB'[s] = slotB[s]
  <2>1. slotA[Slot(Com)] = Com
    BY <1>0, <1>1, <1>3 DEF Numbers
  <2>2. Com.kind = "commit"
    BY <1>0, <1>1 DEF Work, Sealing
  <2>3. slotB \in [Slots -> Int] /\ 0 \in Int
    BY <1>0 DEF Types
  <2>4. QED
    BY <2>1, <2>2, <2>3, <1>1 DEF Zeros
<1>6. \A t : Seals(slotA, header, t) # {} => \A s \in Members(slotA, header, t) : slotB'[s] = slotB[s]
  BY <1>5 DEF Members, Live
<1>7. /\ RingOK(slotA, slotB', header)
      /\ \A b, T : Holders(slotA, slotB', header, b, T) = Holders(slotA, slotB, header, b, T)
      /\ \A b, n, T : Covers(slotA, slotB', header, b, n, T) = Covers(slotA, slotB, header, b, n, T)
  BY <1>0, <1>6, OtherSectors
<1>8. RingOK(slotA, slotB, header)'
  BY <1>1, <1>7
<1>9. RecordsSane' /\ Bounded'
  BY <1>0, <1>1 DEF RecordsSane, Bounded
<1>11. HomeWritten'
  BY <1>0, <1>1 DEF HomeWritten
<1>12. CASE Own # NoRec
  <2>1. UNCHANGED <<acked, job, call>> /\ Job' = Job /\ Pc' = "dataA" /\ Valve /\ Busy'
    BY <1>1, <1>3, <1>12 DEF Busy, Writing
  <2>2. Types'
    BY <1>0, <1>1, <1>2, <1>5, <2>1 DEF Types
  <2>3. Control' /\ Work'
    BY <1>0, <1>1, <1>3, <2>1 DEF Control, Work, Sealing, Writing
  <2>4. Numbers'
    <3>1. ValveSealed
      BY <1>0, <1>1, <1>3, <2>1 DEF Numbers
    <3>2. ValveSealed'
      BY <3>1, <1>1, <2>1 DEF ValveSealed
    <3>3. Low >= 1 /\ (Low = 1 \/ \E s \in Live(slotA, header) : slotA[s].seq = Low - 1)
      BY <1>0, <1>3 DEF Numbers
    <3>4. QED
      BY <3>2, <3>3, <1>1, <1>3, <1>4, <2>1 DEF Numbers, Sealing
  <2>5. AckedCovered'
    <3>1. \A n \in acked : \A b \in writes[n] : Covers(slotA, slotB', header, b, n, {})
      BY <1>0, <1>7 DEF AckedCovered
    <3>2. QED
      BY <3>1, <1>1, <2>1 DEF AckedCovered
  <2>6. Session'
    <3>1. Pending = 1 /\ Pending' = 1
      BY <1>1, <2>1 DEF Pending, Sealing
    <3>2. jlog.depth = 1 => /\ jlog.tx >= 1 /\ jlog.tx + 1 = jlog.txNext
                            /\ OpenTx(jlog.tx, jlog.count - 1)
      BY <1>0, <1>3, <3>1 DEF Session
    <3>3. jlog.depth = 1 => OpenTx(jlog.tx, jlog.count - Pending)'
      <4>1. \A s \in Members(slotA, header, jlog.tx) : slotB'[s] = slotB[s]
        BY <1>5 DEF Members, Live
      <4>2. QED
        BY <4>1, <3>1, <3>2, <1>1, <1>4, <2>1 DEF OpenTx
    <3>4. QED
      BY <3>2, <3>3, <1>0, <1>1, <1>3, <1>4, <2>1 DEF Session, Sealing
  <2>7. Flagged' /\ Flood'
    BY <1>0, <1>1, <1>3, <2>1 DEF Flagged, Flood
  <2>8. HomeFresh' /\ Replayed'
    BY <1>0, <1>1, <1>3, <2>1 DEF HomeFresh, Replayed
  <2>9. CallWritten'
    <3>1. Missing' = Missing /\ Open' = Open
      BY <1>1, <2>1 DEF Missing, Open
    <3>2. QED
      BY <3>1, <1>0, <1>1, <1>7, <2>1 DEF CallWritten
  <2>10. QED
    BY <1>8, <1>9, <1>11, <2>2, <2>3, <2>4, <2>5, <2>6, <2>7, <2>8, <2>9 DEF JInv
<1>13. CASE Own = NoRec
  <2>1. /\ acked' = acked \cup {call[h1]} /\ job' = [job EXCEPT ![h1] = "up"]
        /\ call' = [call EXCEPT ![h1] = 0] /\ Pc' = "idle" /\ ~Valve /\ ~Busy'
    BY <1>1, <1>3, <1>13 DEF Busy, Return, Writing
  <2>2. job' \in [Harts -> Jobs] /\ Job' = "up" /\ call' \in [Harts -> Nat] /\ call'[h1] = 0
    BY <1>0, <2>1 DEF Types, Jobs, Job, OneHart
  <2>3. call[h1] \in DOMAIN writes /\ call[h1] = Len(writes) /\ jlog.depth = 0
    BY <1>0, <1>1, <1>2, <1>3, <2>1 DEF Types, Control, Sealing
  <2>4. Types'
    BY <1>0, <1>1, <1>2, <1>5, <2>1, <2>2, <2>3 DEF Types
  <2>5. Control' /\ Work'
    BY <1>0, <1>1, <1>3, <2>1, <2>2, <2>3 DEF Control, Work, Sealing
  <2>6. Numbers'
    BY <1>0, <1>1, <1>3, <1>4, <2>1, <2>2 DEF Numbers, Counting, Sealing
  <2>7. \A b \in writes[call[h1]] :
          home[b] = call[h1] /\ Covers(slotA, slotB', header, b, call[h1], {})
    <3>1. Todo = <<>>
      BY <1>0, <1>1, <1>3, <2>1 DEF Work
    <3>2. Missing = {}
      BY <3>1, <1>1 DEF Missing
    <3>3. Open = {}
      BY <1>1, <2>3 DEF Open
    <3>4. writes[call[h1]] \subseteq Data
      BY <1>0, <2>3 DEF Types
    <3>5. QED
      BY <3>2, <3>3, <3>4, <1>0, <1>3, <1>7 DEF CallWritten
  <2>8. AckedCovered'
    <3>1. \A n \in acked : \A b \in writes[n] : Covers(slotA, slotB', header, b, n, {})
      BY <1>0, <1>7 DEF AckedCovered
    <3>2. QED
      BY <3>1, <1>1, <2>1, <2>7 DEF AckedCovered
  <2>9. Session'
    <3>1. \A s \in InTx(slotA, header) : slotA[s].tx < jlog.txNext /\ slotA[s].seq + NRec >= Low
      BY <1>0, <1>3 DEF Session
    <3>2. QED
      BY <3>1, <1>1, <1>4, <2>1, <2>2 DEF Session, Sealing
  <2>10. Flagged' /\ Flood'
    BY <1>0, <1>1, <1>3, <2>2 DEF Flagged, Flood
  <2>11. HomeFresh'
    BY <1>0, <1>1, <1>2, <1>3, <2>1, <2>2, <2>7 DEF HomeFresh
  <2>12. Replayed' /\ CallWritten'
    BY <2>2 DEF Replayed, CallWritten
  <2>13. QED
    BY <1>8, <1>9, <1>11, <2>4, <2>5, <2>6, <2>8, <2>9, <2>10, <2>11, <2>12 DEF JInv
<1>14. QED
  BY <1>12, <1>13

LEMMA StepRead ==
    ASSUME OneHart, JInv, NEW b, Read(h1, b)
    PROVE  JInv'
<1>1. UNCHANGED <<home, slotA, slotB, header, jlog, job, pc, todo, rec, seal, replay, call, writes, acked>>
  BY DEF Read, device, history
<1>2. QED
  BY <1>1, StepStutter

LEMMA LeftEffect ==
    ASSUME NEW j \in LogType, j.depth = 1
    PROVE  /\ Left(j) \in LogType /\ Left(j).next = j.next /\ Left(j).gen = j.gen
           /\ Left(j).depth = 0 /\ Left(j).tx = 0 /\ Left(j).count = 0 /\ Left(j).txNext = j.txNext
<1>1. Left(j) = [j EXCEPT !.depth = 0, !.tx = 0, !.count = 0]
  BY DEF Left
<1>2. Left(j) \in LogType
  <2>1. j = [next |-> j.next, gen |-> j.gen, depth |-> j.depth, tx |-> j.tx, count |-> j.count,
             txNext |-> j.txNext]
    BY DEF LogType
  <2>2. Left(j) = [next |-> j.next, gen |-> j.gen, depth |-> 0, tx |-> 0, count |-> 0,
                   txNext |-> j.txNext]
    BY <1>1, <2>1
  <2>3. j.next \in Nat /\ j.gen \in Nat /\ j.txNext \in Nat
    BY DEF LogType
  <2>4. QED
    BY <2>2, <2>3 DEF LogType
<1>3. Left(j).next = j.next /\ Left(j).gen = j.gen /\ Left(j).txNext = j.txNext
  BY <1>1 DEF LogType
<1>4. Left(j).depth = 0 /\ Left(j).tx = 0 /\ Left(j).count = 0
  BY <1>1 DEF LogType
<1>5. QED
  BY <1>2, <1>3, <1>4

LEMMA StepCommit ==
    ASSUME OneHart, JInv, Commit(h1)
    PROVE  JInv'
<1> USE Sizes
<1>0. /\ Types /\ Control /\ Work /\ Numbers /\ Session /\ Flagged /\ Flood
      /\ HomeWritten /\ HomeFresh /\ CallWritten /\ AckedCovered
  BY DEF JInv
<1>1. /\ UNCHANGED <<home, slotA, slotB, header, todo, rec, replay, writes>>
      /\ Pc = "commit" /\ pc' \in [Harts -> Points] /\ jlog' = Left(jlog)
      /\ Todo' = Todo /\ Own' = Own
  BY <1>0 DEF Commit, Goto, Types, Points, OneHart, Pc, Todo, Own, device
<1>2. /\ Job \in Jobs /\ jlog.depth \in {0, 1} /\ Low \in Nat /\ jlog \in LogType
      /\ jlog.count \in Nat /\ jlog.tx \in Nat /\ call[h1] \in Nat
      /\ \A s \in Slots : slotA[s] \in AnyRec /\ slotA[s].tx \in Nat
  BY <1>0, HartTypes DEF Types
<1>3. /\ Job = "call" /\ Counting /\ ~Busy /\ ~Valve /\ Own = NoRec /\ Com = NoRec
      /\ jlog.depth = 1 /\ Todo = <<>> /\ Low = jlog.next
  BY <1>0, <1>1, <1>2 DEF Busy, Valve, Counting, Control, Work, Low, Sealing, Writing, Jobs
<1>4. /\ jlog' \in LogType /\ jlog'.next = jlog.next /\ jlog'.gen = jlog.gen
      /\ jlog'.depth = 0 /\ jlog'.tx = 0 /\ jlog'.count = 0 /\ jlog'.txNext = jlog.txNext
  BY <1>1, <1>2, <1>3, LeftEffect
<1>5. /\ ~Busy' /\ ~Valve' /\ jlog.txNext >= 1
  BY <1>0, <1>1, <1>3 DEF Busy, Valve, Commit, Goto, Pc, Types, OneHart, Writing, Control
<1>6. /\ jlog.tx >= 1 /\ jlog.tx + 1 = jlog.txNext /\ OpenTx(jlog.tx, jlog.count)
      /\ jlog.count <= Chunk
      /\ \A s \in InTx(slotA, header) : slotA[s].tx < jlog.txNext /\ slotA[s].seq + NRec >= Low
  <2>1. Pending = 0
    BY <1>1 DEF Pending, Sealing
  <2>2. QED
    BY <2>1, <1>0, <1>2, <1>3 DEF Session
<1>7. call[h1] \in DOMAIN writes /\ call[h1] = Len(writes) /\ writes[call[h1]] \subseteq Data
  BY <1>0, <1>2, <1>3 DEF Types, Control
<1>8. HomeWritten'
  BY <1>0, <1>1 DEF HomeWritten
<1>9. CASE jlog.count > 0
  <2>1. /\ UNCHANGED <<acked, job, call>> /\ Job' = Job /\ Pc' = "sealSeq"
        /\ seal' = [seal EXCEPT ![h1] = CommitOf(jlog)]
    BY <1>0, <1>3, <1>9 DEF Commit, Goto, CommitOf, Pc, Job, Types, OneHart
  <2>2. /\ seal' \in [Harts -> AnyRec] /\ Com'.kind = "commit" /\ Com'.gen = header
        /\ Com'.tx = jlog.tx /\ Com'.sum = jlog.count
    <3>1. /\ CommitOf(jlog) \in AnyRec /\ CommitOf(jlog).kind = "commit" /\ CommitOf(jlog).gen = jlog.gen
          /\ CommitOf(jlog).tx = jlog.tx /\ CommitOf(jlog).sum = jlog.count
      BY <1>2, CommitEffect
    <3>2. jlog.gen = header
      BY <1>0, <1>1, <1>3 DEF Control
    <3>3. seal' \in [Harts -> AnyRec] /\ Com' = CommitOf(jlog)
      BY <3>1, <2>1, <1>0 DEF Types, Com, OneHart
    <3>4. QED
      BY <3>1, <3>2, <3>3
  <2>3. /\ RecordsSane' /\ Bounded' /\ RingOK(slotA, slotB, header)' /\ AckedCovered'
        /\ InTx(slotA, header)' = InTx(slotA, header)
    BY <1>1, <2>1, RingFrame
  <2>4. Low' = Low /\ Counting'
    BY <1>3, <1>4, <1>5, <2>1 DEF Low, Counting
  <2>5. Types'
    BY <1>0, <1>1, <1>4, <2>1, <2>2 DEF Types
  <2>6. Control'
    BY <1>0, <1>1, <1>3, <1>4, <1>5, <2>1 DEF Control, Sealing
  <2>7. Work'
    <3>1. Job = "call" => \A i \in DOMAIN Todo : Todo[i][1] \in writes[call[h1]] /\ Todo[i][2] = call[h1]
      BY <1>3
    <3>2. Com'.tx # 0 /\ Com'.sum \in 1 .. Chunk
      BY <1>2, <1>6, <1>9, <2>2
    <3>3. QED
      BY <3>1, <3>2, <1>1, <1>3, <1>5, <2>1, <2>2 DEF Work, Sealing
  <2>8. Numbers'
    BY <1>0, <1>1, <1>3, <1>5, <2>1, <2>4 DEF Numbers, Sealing
  <2>9. Session'
    <3>1. OpenTx(Com.tx, Com.sum)'
      BY <1>1, <1>6, <2>1, <2>2, <2>4 DEF OpenTx
    <3>2. QED
      BY <3>1, <1>1, <1>2, <1>4, <1>5, <1>6, <2>1, <2>2, <2>4 DEF Session, Sealing
  <2>10. Flagged' /\ Flood'
    BY <1>0, <1>1, <1>3, <2>1 DEF Flagged, Flood
  <2>11. HomeFresh' /\ Replayed'
    BY <1>0, <1>1, <1>3, <2>1 DEF HomeFresh, Replayed
  <2>12. CallWritten'
    <3>1. Missing' = Missing
      BY <1>1, <2>1 DEF Missing
    <3>2. Open' = Open
      BY <1>1, <1>2, <1>3, <1>4, <2>1, <2>2 DEF Open
    <3>3. QED
      BY <3>1, <3>2, <1>0, <1>1, <2>1 DEF CallWritten
  <2>13. QED
    BY <1>8, <2>3, <2>5, <2>6, <2>7, <2>8, <2>9, <2>10, <2>11, <2>12 DEF JInv
<1>10. CASE jlog.count = 0
  <2>1. /\ acked' = acked \cup {call[h1]} /\ job' = [job EXCEPT ![h1] = "up"]
        /\ call' = [call EXCEPT ![h1] = 0] /\ Pc' = "idle" /\ Com' = Com /\ seal' = seal
    BY <1>0, <1>3, <1>10 DEF Commit, Goto, Return, Pc, Com, Types, OneHart
  <2>2. job' \in [Harts -> Jobs] /\ Job' = "up" /\ call' \in [Harts -> Nat] /\ call'[h1] = 0
    BY <1>0, <2>1 DEF Types, Jobs, Job, OneHart
  <2>3. RecordsSane' /\ Bounded' /\ RingOK(slotA, slotB, header)'
    BY <1>1 DEF JInv, RecordsSane, Bounded
  <2>4. Low' = Low /\ Counting'
    BY <1>3, <1>4, <1>5, <2>1, <2>2 DEF Low, Counting
  <2>5. Types'
    BY <1>0, <1>1, <1>4, <1>7, <2>1, <2>2 DEF Types
  <2>6. Control' /\ Work'
    BY <1>0, <1>1, <1>3, <1>4, <1>5, <2>1, <2>2 DEF Control, Work, Sealing
  <2>7. Numbers'
    BY <1>0, <1>1, <1>3, <1>5, <2>1, <2>4 DEF Numbers, Sealing
  <2>8. \A b \in writes[call[h1]] :
          home[b] = call[h1] /\ Covers(slotA, slotB, header, b, call[h1], {})
    <3>1. Missing = {}
      BY <1>1, <1>3 DEF Missing
    <3>2. Open = {t \in Nat : t = jlog.tx}
      BY <1>1, <1>3 DEF Open
    <3>3. Members(slotA, header, jlog.tx) = {}
      <4>1. Cardinality(Members(slotA, header, jlog.tx)) = 0
        BY <1>6, <1>10 DEF OpenTx
      <4>2. Members(slotA, header, jlog.tx) \in SUBSET Slots
        BY DEF Members, Live
      <4>3. QED
        BY <4>1, <4>2, PartsFinite, FS_EmptySet
    <3>4. \A b : Holders(slotA, slotB, header, b, Open) = Holders(slotA, slotB, header, b, {})
      BY <3>2, <3>3 DEF Holders, InTx, Members
    <3>5. QED
      BY <3>1, <3>4, <1>0, <1>3, <1>7 DEF CallWritten, Covers
  <2>9. AckedCovered'
    BY <1>0, <1>1, <2>1, <2>8 DEF AckedCovered
  <2>10. Session'
    BY <1>1, <1>4, <1>6, <2>1, <2>2, <2>4 DEF Session, Sealing, Valve
  <2>11. Flagged' /\ Flood'
    BY <1>0, <1>1, <1>3, <2>2 DEF Flagged, Flood
  <2>12. HomeFresh'
    BY <1>0, <1>1, <1>2, <1>3, <2>1, <2>2, <2>8 DEF HomeFresh
  <2>13. Replayed' /\ CallWritten'
    BY <2>2 DEF Replayed, CallWritten
  <2>14. QED
    BY <1>8, <2>3, <2>5, <2>6, <2>7, <2>9, <2>10, <2>11, <2>12, <2>13 DEF JInv
<1>11. QED
  BY <1>2, <1>9, <1>10

LEMMA StepBegin ==
    ASSUME OneHart, JInv, NEW blocks \in Calls, Begin(h1, blocks)
    PROVE  JInv'
<1> USE Sizes
<1> DEFINE n == Len(writes) + 1
<1> DEFINE mine == {blocks[i] : i \in DOMAIN blocks}
<1>0. /\ Types /\ Control /\ Work /\ Numbers /\ Session /\ Flagged /\ Flood /\ RecordsSane /\ Bounded
      /\ HomeWritten /\ HomeFresh /\ AckedCovered /\ RingOK(slotA, slotB, header)
  BY DEF JInv
<1>1. /\ UNCHANGED <<home, slotA, slotB, header, rec, seal, replay, acked>>
      /\ Pc = "idle" /\ pc' \in [Harts -> Points] /\ Pc' = (IF blocks = <<>> THEN "commit" ELSE "take")
      /\ Own' = Own /\ Com' = Com /\ Job = "up" /\ job' \in [Harts -> Jobs] /\ Job' = "call"
      /\ writes' = Append(writes, mine)
      /\ call' = [call EXCEPT ![h1] = n]
      /\ Todo' = [i \in DOMAIN blocks |-> <<blocks[i], n>>]
      /\ todo' = [todo EXCEPT ![h1] = Todo']
      /\ jlog' = [(IF jlog.depth = 0 THEN Opened(jlog) ELSE jlog) EXCEPT !.depth = @ + 1]
  BY <1>0 DEF Begin, Goto, Types, Points, Jobs, OneHart, Pc, Todo, Own, Com, Job, device
<1>2. /\ jlog.depth \in {0, 1} /\ Low \in Nat /\ jlog \in LogType /\ jlog.txNext \in Nat
      /\ \A s \in Slots : slotA[s] \in AnyRec /\ slotA[s].tx \in Nat
      /\ Data \subseteq Blocks
  BY <1>0, HartTypes DEF Types, Blocks
<1>3. /\ Counting /\ ~Busy /\ ~Valve /\ Own = NoRec /\ Com = NoRec
      /\ jlog.depth = 0 /\ Low = jlog.next /\ jlog.txNext >= 1
  BY <1>0, <1>1 DEF Busy, Valve, Counting, Control, Work, Low, Sealing, Writing
<1>4. /\ jlog' \in LogType /\ jlog'.next = jlog.next /\ jlog'.gen = jlog.gen
      /\ jlog'.depth = 1 /\ jlog'.tx = jlog.txNext /\ jlog'.count = 0
      /\ jlog'.txNext = jlog.txNext + 1
  <2> DEFINE k == Opened(jlog)
  <2>1. /\ k \in LogType /\ k.tx = jlog.txNext /\ k.txNext = jlog.txNext + 1
        /\ k.count = 0 /\ k.next = jlog.next /\ k.gen = jlog.gen /\ k.depth = 0
    BY <1>2, <1>3, OpenedEffect
  <2>2. jlog' = [k EXCEPT !.depth = k.depth + 1]
    BY <1>1, <1>3
  <2> HIDE DEF k
  <2>3. jlog' = [k EXCEPT !.depth = 1]
    BY <2>1, <2>2
  <2>4. jlog' \in LogType
    BY <2>1, <2>3 DEF LogType
  <2>5. /\ jlog'.next = k.next /\ jlog'.gen = k.gen /\ jlog'.depth = 1 /\ jlog'.tx = k.tx
        /\ jlog'.count = k.count /\ jlog'.txNext = k.txNext
    BY <2>1, <2>3 DEF LogType
  <2>6. QED
    BY <2>1, <2>4, <2>5
<1>5. /\ n \in Nat \ {0} /\ mine \in SUBSET Data /\ blocks \in Seq(Data) /\ n \in Int
      /\ writes' \in Seq(SUBSET Data) /\ Len(writes') = n /\ writes'[n] = mine
      /\ \A i \in DOMAIN writes : i \in DOMAIN writes' /\ writes'[i] = writes[i]
      /\ DOMAIN writes' = 1 .. n /\ acked \subseteq DOMAIN writes /\ n \notin acked
      /\ n \notin DOMAIN writes
  <2>1. blocks \in Seq(Data)
    BY JournalAssumption
  <2>2. mine \in SUBSET Data
    BY <2>1
  <2>3. writes \in Seq(SUBSET Data) /\ Len(writes) \in Nat /\ acked \subseteq DOMAIN writes
        /\ DOMAIN writes = 1 .. Len(writes)
    BY <1>0 DEF Types
  <2> HIDE DEF mine
  <2>4. /\ writes' \in Seq(SUBSET Data) /\ Len(writes') = n /\ writes'[n] = mine
        /\ \A i \in 1 .. Len(writes) : writes'[i] = writes[i]
    BY <2>2, <2>3, <1>1
  <2>5. QED
    BY <2>1, <2>2, <2>3, <2>4
<1>6. /\ Todo' \in Seq(Blocks \X Int) /\ DOMAIN Todo' = DOMAIN blocks
      /\ \A i \in DOMAIN Todo' : Todo'[i][1] \in mine /\ Todo'[i][2] = n
      /\ \A b \in mine : \E i \in DOMAIN Todo' : Todo'[i][1] = b
      /\ (Todo' = <<>> <=> blocks = <<>>)
  <2>1. DOMAIN blocks = 1 .. Len(blocks) /\ Len(blocks) \in Nat /\ \A i \in DOMAIN blocks : blocks[i] \in Data
    BY <1>5
  <2>2. Todo' = [i \in 1 .. Len(blocks) |-> <<blocks[i], n>>]
    BY <2>1, <1>1
  <2> DEFINE q == [i \in 1 .. Len(blocks) |-> <<blocks[i], n>>]
  <2>3. q \in Seq(Blocks \X Int) /\ Len(q) = Len(blocks) /\ DOMAIN q = DOMAIN blocks
    BY <2>1, <1>2, <1>5
  <2>4. q = <<>> <=> blocks = <<>>
    BY <2>3, <1>5, EmptySeq
  <2>5. \A i \in DOMAIN q : q[i][1] = blocks[i] /\ q[i][2] = n
    BY <2>3, <2>1
  <2> HIDE DEF q
  <2>6. QED
    BY SMTT(20), <2>1, <2>2, <2>3, <2>4, <2>5 DEF q
<1>7. call' \in [Harts -> Nat] /\ call'[h1] = n
  BY <1>0, <1>1, <1>5 DEF Types, OneHart
<1> HIDE DEF n, mine
<1>8. ~Busy' /\ ~Valve' /\ Low' = Low /\ Counting'
  BY <1>1, <1>3, <1>4 DEF Busy, Valve, Low, Counting, Sealing, Writing
<1>9. RecordsSane'
  <2>1. ASSUME NEW s \in Slots, slotA[s].kind = "data", slotA[s].tx # 0
        PROVE  slotA[s].sum \in DOMAIN writes' /\ slotA[s].lba \in writes'[slotA[s].sum]
    BY <2>1, <1>0, <1>5 DEF RecordsSane
  <2>2. QED
    BY <2>1, <1>0, <1>1 DEF RecordsSane
<1>10. Bounded' /\ RingOK(slotA, slotB, header)' /\ AckedCovered'
  <2>1. Bounded' /\ RingOK(slotA, slotB, header)'
    BY <1>0, <1>1 DEF Bounded
  <2>2. \A m \in acked : writes'[m] = writes[m]
    BY <1>5
  <2>3. QED
    BY <2>1, <2>2, <1>0, <1>1 DEF AckedCovered
<1>11. Types'
  BY <1>0, <1>1, <1>4, <1>5, <1>6, <1>7 DEF Types
<1>12. Control'
  <2>1. jlog.gen = header /\ header >= 1 /\ replay = {}
    BY <1>0, <1>1 DEF Control
  <2>2. Pc' \notin Sealing /\ Pc' \in {"take", "commit"} /\ Pc' # "header"
    BY <1>1 DEF Sealing
  <2>3. call'[h1] = Len(writes') /\ call'[h1] # 0 /\ call'[h1] \notin acked'
    BY <1>1, <1>5, <1>7
  <2>4. jlog'.txNext >= 1
    BY <1>2, <1>4
  <2>5. QED
    BY <2>1, <2>2, <2>3, <2>4, <1>1, <1>4 DEF Control
<1>13. Work'
  BY <1>1, <1>3, <1>5, <1>6, <1>7, <1>8 DEF Work, Sealing
<1>14. Numbers'
  BY <1>0, <1>1, <1>3, <1>8 DEF Numbers, Sealing
<1>15. Session'
  <2>1. \A s \in InTx(slotA, header) : slotA[s].tx < jlog.txNext /\ slotA[s].seq + NRec >= Low
    BY <1>0, <1>1 DEF Session
  <2>2. \A s \in Live(slotA, header) : s \in Slots /\ slotA[s].tx \in Nat
    BY <1>2 DEF Live
  <2>3. Members(slotA, header, jlog.txNext) = {} /\ Seals(slotA, header, jlog.txNext) = {}
    BY <2>1, <2>2, <1>2, <1>3 DEF Members, Seals, InTx
  <2>4. Pending' = 0
    BY <1>1 DEF Pending, Sealing
  <2>5. OpenTx(jlog.tx, jlog.count - Pending)'
    <3>1. /\ Seals(slotA', header', jlog'.tx) = {} /\ Members(slotA', header', jlog'.tx) = {}
      BY <2>3, <1>1, <1>4
    <3>2. Cardinality(Members(slotA', header', jlog'.tx)) = 0
      BY <3>1, FS_EmptySet
    <3>3. QED
      BY <3>1, <3>2, <2>4, <1>4 DEF OpenTx
  <2>6. \A s \in InTx(slotA, header) : slotA[s].tx < jlog'.txNext /\ slotA[s].seq + NRec >= Low'
    BY <2>1, <2>2, <1>2, <1>4, <1>8 DEF InTx
  <2>7. QED
    BY <2>5, <2>6, <1>1, <1>2, <1>3, <1>4, <1>8 DEF Session, Sealing
<1>16. Flagged' /\ Flood'
  BY <1>0, <1>1 DEF Flagged, Flood
<1>17. HomeWritten' /\ HomeFresh' /\ Replayed'
  <2>1. \A m \in acked : writes'[m] = writes[m]
    BY <1>5
  <2>2. QED
    BY <2>1, <1>0, <1>1, <1>5 DEF HomeWritten, HomeFresh, Replayed
<1>18. CallWritten'
  <2>1. Missing' = mine
    BY <1>1, <1>6 DEF Missing
  <2>2. \A b \in Data : home[b] # n
    BY <1>0, <1>5 DEF HomeWritten
  <2>3. QED
    BY <2>1, <2>2, <1>1, <1>5, <1>7 DEF CallWritten
<1>19. QED
  BY <1>9, <1>10, <1>11, <1>12, <1>13, <1>14, <1>15, <1>16, <1>17, <1>18 DEF JInv

----------------------------------------------------------------------------
(* Mounting *)

\* Rebuild, ClearDirty and MarkDirty.
LEMMA StepStart ==
    ASSUME OneHart, JInv, NEW next \in {"rebuild", "clear", "mark"}, NEW blocks \in Seq(Blocks \X Int),
           Start(h1, next, blocks), Job \in {"replay", "rebuild", "clear"}, replay = {}, blocks # <<>>,
           next = "rebuild" => Len(blocks) = Rebuilds /\ \A i \in DOMAIN blocks : blocks[i][1] = Bitmap,
           next = "clear" => blocks = <<<<Sb, Clean>>>>,
           next = "mark" => blocks = <<<<Sb, Dirty>>>>,
           next # "rebuild" => InTx(slotA, header) = {}
    PROVE  JInv'
<1> USE Sizes
<1>0. /\ Types /\ Control /\ Work /\ Numbers /\ Session /\ Flagged /\ Flood
      /\ HomeWritten /\ HomeFresh
  BY DEF JInv
<1>1. /\ UNCHANGED <<home, slotA, slotB, header, jlog, rec, seal, replay, call, writes, acked>>
      /\ Pc = "idle" /\ Pc' = "take" /\ pc' \in [Harts -> Points]
      /\ Job' = next /\ job' \in [Harts -> Jobs]
      /\ Todo' = blocks /\ todo' \in [Harts -> Seq(Blocks \X Int)]
      /\ Own' = Own /\ Com' = Com
  BY <1>0 DEF Start, Goto, Types, Points, Jobs, OneHart, Job, Pc, Todo, Own, Com, device, history
<1>2. /\ ~Busy /\ ~Valve /\ ~Busy' /\ ~Valve' /\ Low' = Low /\ Counting /\ Counting'
      /\ Own = NoRec /\ Com = NoRec /\ Low \in Nat
      /\ jlog.depth = 0 /\ call[h1] = 0 /\ jlog.tx = 0 /\ jlog.count = 0
  <2>1. ~Busy /\ ~Valve /\ ~Busy' /\ ~Valve' /\ Counting /\ Counting' /\ Pc \notin Sealing
    BY <1>1 DEF Busy, Valve, Counting, Sealing, Writing
  <2>2. Low' = Low
    BY <1>1, <2>1 DEF Low
  <2>3. QED
    BY <2>1, <2>2, <1>0, HartTypes DEF Control, Work
<1>3. /\ RecordsSane' /\ Bounded' /\ RingOK(slotA, slotB, header)' /\ AckedCovered'
      /\ InTx(slotA, header)' = InTx(slotA, header)
  BY <1>1, RingFrame
<1>4. Types'
  BY <1>0, <1>1 DEF Types
<1>5. Control'
  BY <1>0, <1>1, <1>2 DEF Control, Sealing, Writing
<1>6. Work'
  <2>1. Rebuilds \in Nat
    BY JournalAssumption
  <2>2. QED
    BY <2>1, <1>1, <1>2 DEF Work, Sealing
<1>7. Numbers'
  BY <1>0, <1>1, <1>2 DEF Numbers, Sealing
<1>8. Session' /\ CallWritten' /\ Replayed'
  BY <1>1 DEF Session, CallWritten, Replayed
<1>9. Flagged'
  BY <1>0, <1>1, <1>3 DEF Flagged
<1>10. Flood'
  <2>1. next = "rebuild" => Rebuilt' = 0
    BY <1>1, JournalAssumption DEF Rebuilt
  <2>2. QED
    BY <2>1, <1>1, <1>2 DEF Flood
<1>11. HomeWritten' /\ HomeFresh'
  BY <1>0, <1>1 DEF HomeWritten, HomeFresh
<1>12. QED
  BY <1>3, <1>4, <1>5, <1>6, <1>7, <1>8, <1>9, <1>10, <1>11 DEF JInv

LEMMA StepRebuild ==
    ASSUME OneHart, JInv, Rebuild(h1)
    PROVE  JInv'
<1> DEFINE blocks == [i \in 1 .. Rebuilds |-> <<Bitmap, IF i = Rebuilds THEN Whole ELSE Partial>>]
<1>1. Job = "replay" /\ replay = {} /\ Start(h1, "rebuild", blocks)
  BY DEF Rebuild, Job
<1>2. Rebuilds \in Nat \ {0} /\ Bitmap \in Blocks
  BY JournalAssumption DEF Blocks
<1>3. blocks \in Seq(Blocks \X Int) /\ Len(blocks) = Rebuilds /\ DOMAIN blocks = 1 .. Rebuilds
  BY <1>2 DEF Whole, Partial
<1>4. blocks # <<>> /\ \A i \in DOMAIN blocks : blocks[i][1] = Bitmap
  BY <1>2, <1>3
<1> HIDE DEF blocks
<1>5. QED
  BY <1>1, <1>3, <1>4, StepStart

LEMMA StepClearDirty ==
    ASSUME OneHart, JInv, ClearDirty(h1)
    PROVE  JInv'
<1> USE Sizes
<1>0. /\ Types /\ Control /\ Work /\ Flood
  BY DEF JInv
<1>1. Job = "rebuild" /\ Start(h1, "clear", <<<<Sb, Clean>>>>)
  BY DEF ClearDirty, Job
<1>2. Pc = "idle" /\ replay = {} /\ Todo = <<>>
  BY <1>0, <1>1 DEF Start, Goto, Pc, Control, Work, Busy, Valve, Sealing, Writing
<1>3. <<<<Sb, Clean>>>> \in Seq(Blocks \X Int) /\ <<<<Sb, Clean>>>> # <<>>
  BY DEF Blocks, Clean
<1>4. InTx(slotA, header) = {}
  <2>1. Rebuilt = Rebuilds /\ Rebuilds \in Nat /\ Rebuilds > NRec
    BY <1>2, JournalAssumption DEF Rebuilt
  <2>2. Rebuilds <= Low /\ Low \in Nat
    BY <2>1, <1>0, <1>1, HartTypes DEF Flood
  <2>3. ASSUME NEW s \in InTx(slotA, header) PROVE FALSE
    <3>1. s \in 0 .. NRec - 1
      BY DEF InTx, Live, Slots
    <3>2. PICK j \in (Low - NRec) .. (Low - 1) : (j % NRec) = s
      <4>1. NRec \in Nat \ {0} /\ NRec <= Low /\ Low \in Nat
        BY <2>1, <2>2
      <4>2. QED
        BY <4>1, <3>1, RoundTakesAll
    <3>3. j \in (Low - Rebuilt) .. (Low - 1)
      BY <2>1, <2>2, <3>2
    <3>4. QED
      BY <2>3, <3>2, <3>3, <1>0, <1>1 DEF Flood
  <2>4. QED
    BY <2>3
<1>5. QED
  BY <1>1, <1>2, <1>3, <1>4, StepStart

LEMMA StepMarkDirty ==
    ASSUME OneHart, JInv, MarkDirty(h1)
    PROVE  JInv'
<1>0. /\ Types /\ Control /\ Flagged
  BY DEF JInv
<1>1. Job = "clear" /\ Start(h1, "mark", <<<<Sb, Dirty>>>>)
  BY DEF MarkDirty, Job
<1>2. replay = {} /\ InTx(slotA, header) = {}
  BY <1>0, <1>1 DEF Control, Flagged
<1>3. <<<<Sb, Dirty>>>> \in Seq(Blocks \X Int) /\ <<<<Sb, Dirty>>>> # <<>>
  BY DEF Blocks, Dirty
<1>4. QED
  BY <1>1, <1>2, <1>3, StepStart

LEMMA StepMounted ==
    ASSUME OneHart, JInv, Mounted(h1)
    PROVE  JInv'
<1>0. /\ Types /\ Control /\ Work /\ Numbers /\ Session /\ Flagged /\ Flood
      /\ HomeWritten /\ HomeFresh
  BY DEF JInv
<1>1. /\ UNCHANGED <<home, slotA, slotB, header, jlog, pc, todo, rec, seal, replay, call, writes, acked>>
      /\ Pc = "idle" /\ Pc' = Pc /\ Todo' = Todo /\ Own' = Own /\ Com' = Com
      /\ Job = "mark" /\ Job' = "up" /\ job' \in [Harts -> Jobs]
  BY <1>0 DEF Mounted, Types, Jobs, OneHart, Job, Pc, Todo, Own, Com, device, history
<1>2. Busy' = Busy /\ ~Busy /\ Valve' = Valve /\ ~Valve /\ Low' = Low /\ Counting /\ Counting'
  BY <1>1 DEF Busy, Valve, Low, Counting, Sealing, Writing
<1>3. /\ RecordsSane' /\ Bounded' /\ RingOK(slotA, slotB, header)' /\ AckedCovered'
      /\ InTx(slotA, header)' = InTx(slotA, header)
  BY <1>1, RingFrame
<1>4. Types'
  BY <1>0, <1>1 DEF Types
<1>5. Control' /\ Work'
  BY <1>0, <1>1, <1>2 DEF Control, Work
<1>6. Numbers'
  BY <1>0, <1>1, <1>2 DEF Numbers, Sealing
<1>7. Session' /\ CallWritten' /\ Replayed' /\ Flood'
  BY <1>0, <1>1, <1>3 DEF Session, CallWritten, Replayed, Flood, Flagged
<1>8. Flagged'
  BY <1>0, <1>1, <1>3 DEF Flagged
<1>9. HomeWritten' /\ HomeFresh'
  BY <1>0, <1>1 DEF HomeWritten, HomeFresh
<1>10. QED
  BY <1>3, <1>4, <1>5, <1>6, <1>7, <1>8, <1>9 DEF JInv

LEMMA StepStartReplay ==
    ASSUME OneHart, JInv, StartReplay(h1)
    PROVE  JInv'
<1>0. /\ Types /\ Control /\ Work /\ Numbers /\ Session /\ Flagged /\ Flood
      /\ HomeWritten /\ HomeFresh /\ AckedCovered /\ RingOK(slotA, slotB, header)
  BY DEF JInv
<1>1. /\ UNCHANGED <<home, slotA, slotB, header, jlog, pc, todo, rec, seal, call, writes, acked>>
      /\ Pc' = Pc /\ Todo' = Todo /\ Own' = Own /\ Com' = Com
      /\ Job = "init" /\ Job' = "replay" /\ job' \in [Harts -> Jobs]
      /\ replay' = ToReplay(jlog.gen)
  BY <1>0 DEF StartReplay, Types, Jobs, OneHart, Job, Pc, Todo, Own, Com, device, history
<1>2. Pc = "idle" /\ Busy' = Busy /\ Valve' = Valve /\ Low' = Low /\ Counting /\ Counting' /\ jlog.gen = header
  BY <1>0, <1>1 DEF Busy, Valve, Low, Counting, Control
<1>3. /\ RecordsSane' /\ Bounded' /\ RingOK(slotA, slotB, header)' /\ AckedCovered'
      /\ InTx(slotA, header)' = InTx(slotA, header)
  BY <1>1, RingFrame
<1>4. /\ replay' = {slotA[s] : s \in {q \in Live(slotA, header) :
                      /\ slotA[q].kind = "data" /\ slotA[q].sum = slotB[q]
                      /\ slotA[q].tx = 0 \/ Intact(slotA, slotB, header, slotA[q].tx)}}
      /\ ToReplay(header)' = replay'
  <2>1. replay' = ToReplay(header) /\ slotA \in [Slots -> AnyRec]
    BY <1>0, <1>1, <1>2 DEF Types
  <2>2. ToReplay(header)' = ToReplay(header)
    BY <1>1, ReplayFrame
  <2>3. QED
    BY <2>1, <2>2, <1>0, RecoveryApplies
<1>5. Types'
  <2>1. replay' \in SUBSET AnyRec
    BY <1>0, <1>4 DEF Types, Live
  <2>2. QED
    BY <2>1, <1>0, <1>1 DEF Types
<1>6. Control' /\ Work'
  BY <1>0, <1>1, <1>2 DEF Control, Work
<1>7. Numbers'
  BY <1>0, <1>1, <1>2 DEF Numbers, Sealing
<1>8. Session' /\ CallWritten' /\ Flood' /\ Flagged'
  BY <1>1, <1>2 DEF Session, CallWritten, Flood, Flagged
<1>9. Replayed'
  BY <1>4 DEF Replayed
<1>10. HomeWritten'
  BY <1>0, <1>1 DEF HomeWritten
<1>11. HomeFresh'
  <2>1. SUFFICES ASSUME NEW n \in acked, NEW b \in writes[n], ~(home[b] >= n)
                 PROVE  \E r \in replay' : r.lba = b /\ r.sum >= n
    BY <1>1 DEF HomeFresh
  <2>2. Holders(slotA, slotB, header, b, {}) # {}
    BY <2>1, <1>0, <1>1 DEF HomeFresh
  <2>3. PICK s \in Holders(slotA, slotB, header, b, {}) : slotA[s].sum >= n
    BY <2>2, <1>0 DEF AckedCovered, Covers
  <2>4. /\ s \in Live(slotA, header) /\ slotA[s].kind = "data" /\ slotA[s].lba = b
        /\ Intact(slotA, slotB, header, slotA[s].tx) /\ s \in Members(slotA, header, slotA[s].tx)
    BY DEF Holders, InTx, Members
  <2>5. slotA[s].sum = slotB[s]
    <3>1. slotA \in [Slots -> AnyRec]
      BY <1>0 DEF Types
    <3>2. QED
      BY <3>1, <2>4, <1>0, IntactAreSound
  <2>6. QED
    BY <2>3, <2>4, <2>5, <1>4
<1>12. QED
  BY <1>3, <1>5, <1>6, <1>7, <1>8, <1>9, <1>10, <1>11 DEF JInv

\* One raw write of recovery.
LEMMA StepApply ==
    ASSUME OneHart, JInv, NEW r \in replay, Apply(h1, r)
    PROVE  JInv'
<1> USE Sizes
<1>0. /\ Types /\ Control /\ Work /\ Numbers /\ Session /\ Flagged /\ Flood /\ RecordsSane
      /\ HomeWritten /\ HomeFresh /\ AckedCovered /\ RingOK(slotA, slotB, header) /\ Replayed
  BY DEF JInv
<1>1. /\ UNCHANGED <<slotA, slotB, header, job, pc, todo, rec, seal, call, writes, acked>>
      /\ Pc' = Pc /\ Todo' = Todo /\ Own' = Own /\ Com' = Com /\ Job = "replay" /\ Job' = Job
      /\ First(r) /\ home' = [home EXCEPT ![r.lba] = r.sum] /\ replay' = replay \ {r}
      /\ jlog' = IF r.seq >= jlog.next THEN [jlog EXCEPT !.next = r.seq + 1] ELSE jlog
  BY DEF Apply, Job, Pc, Todo, Own, Com, history
<1>2. Pc = "idle" /\ ~Busy /\ ~Valve /\ Low = jlog.next /\ Counting
  BY <1>0, <1>1 DEF Busy, Valve, Low, Counting, Control, Sealing, Writing
<1>3. /\ RecordsSane' /\ Bounded' /\ RingOK(slotA, slotB, header)' /\ AckedCovered'
      /\ InTx(slotA, header)' = InTx(slotA, header)
  BY <1>1, RingFrame
<1>4. ToReplay(header) = {slotA[s] : s \in {q \in Live(slotA, header) :
                           /\ slotA[q].kind = "data" /\ slotA[q].sum = slotB[q]
                           /\ slotA[q].tx = 0 \/ Intact(slotA, slotB, header, slotA[q].tx)}}
  <2>1. slotA \in [Slots -> AnyRec]
    BY <1>0 DEF Types
  <2>2. QED
    BY <2>1, <1>0, RecoveryApplies
<1>5. PICK p \in Live(slotA, header) :
        /\ r = slotA[p] /\ slotA[p].kind = "data"
        /\ slotA[p].tx = 0 \/ Intact(slotA, slotB, header, slotA[p].tx)
  BY <1>0, <1>1, <1>4 DEF Replayed
<1>6. /\ p \in Slots /\ r.seq \in Nat /\ r.sum \in Int /\ r.lba \in Blocks /\ jlog.next \in Nat
      /\ slotA[p].kind # "none"
  BY <1>0, <1>5, HartTypes DEF Live
<1>7. jlog' = jlog
  <2>1. slotA[p].seq < Low
    BY <1>0, <1>2, <1>5 DEF Numbers
  <2>2. QED
    BY <2>1, <1>1, <1>2, <1>5, <1>6
<1>8. Busy' = Busy /\ Valve' = Valve /\ Low' = Low /\ Counting'
  BY <1>1, <1>2, <1>7 DEF Busy, Valve, Low, Counting
<1>9. /\ home' \in [Blocks -> Int]
      /\ \A b \in Blocks : home'[b] = IF b = r.lba THEN r.sum ELSE home[b]
  BY <1>0, <1>1, <1>6 DEF Types
<1>10. Types'
  BY <1>0, <1>1, <1>7, <1>9 DEF Types
<1>11. Control' /\ Work'
  BY <1>0, <1>1, <1>2, <1>7, <1>8 DEF Control, Work
<1>12. Numbers'
  BY <1>0, <1>1, <1>2, <1>7, <1>8 DEF Numbers, Sealing
<1>13. Session' /\ CallWritten' /\ Flood' /\ Flagged'
  BY <1>1, <1>2 DEF Session, CallWritten, Flood, Flagged
<1>14. Data \subseteq Blocks
  BY DEF Blocks
<1>15. r.lba \in Data => /\ r.tx # 0 /\ r.sum \in DOMAIN writes /\ r.lba \in writes[r.sum]
                         /\ p \in Holders(slotA, slotB, header, r.lba, {})
  BY <1>0, <1>5, <1>6 DEF RecordsSane, Holders, InTx
<1>16. HomeWritten'
  BY <1>0, <1>1, <1>9, <1>14, <1>15 DEF HomeWritten
<1>17. HomeFresh'
  <2>1. SUFFICES ASSUME NEW n \in acked, NEW b \in writes[n], ~(home'[b] >= n)
                 PROVE  \E q \in replay' : q.lba = b /\ q.sum >= n
    BY <1>1 DEF HomeFresh
  <2>2. b \in Data /\ b \in Blocks /\ n \in Nat
    BY <1>0, <1>14 DEF Types
  <2>3. CASE b # r.lba
    <3>1. ~(home[b] >= n)
      BY <2>1, <2>2, <2>3, <1>9
    <3>2. PICK q \in replay : q.lba = b /\ q.sum >= n
      BY <3>1, <1>0, <1>1 DEF HomeFresh
    <3>3. QED
      BY <3>2, <2>3, <1>1
  <2>4. CASE b = r.lba
    <3>1. ~(r.sum >= n)
      BY <2>1, <2>2, <2>4, <1>9
    <3>2. p \in Holders(slotA, slotB, header, b, {})
      BY <2>2, <2>4, <1>15
    <3>3. PICK s \in Holders(slotA, slotB, header, b, {}) : slotA[s].sum >= n
      BY <3>2, <1>0 DEF AckedCovered, Covers
    <3>4. /\ s \in InTx(slotA, header) /\ slotA[s].kind = "data" /\ slotA[s].lba = b
          /\ Intact(slotA, slotB, header, slotA[s].tx) /\ s \in Members(slotA, header, slotA[s].tx)
      BY DEF Holders, InTx, Members
    <3>5. slotA[s].sum = slotB[s]
      <4>1. slotA \in [Slots -> AnyRec]
        BY <1>0 DEF Types
      <4>2. QED
        BY <4>1, <3>4, <1>0, IntactAreSound
    <3>6. slotA[s] \in ToReplay(header) /\ slotA[s].seq \in Nat /\ slotA[s].sum \in Int
      BY <3>4, <3>5, <1>0, <1>4, HartTypes DEF InTx, Live
    <3>7. ~(slotA[s].seq < slotA[p].seq)
      <4>1. p \in InTx(slotA, header)
        BY <3>2 DEF Holders
      <4>2. slotA[s].seq < slotA[p].seq => slotA[s].sum <= slotA[p].sum
        BY <4>1, <3>4, <1>0, <1>5 DEF RingOK, Ordered
      <4>3. QED
        BY <4>2, <3>1, <3>3, <3>6, <2>2, <1>5, <1>6
    <3>8. slotA[s] \in replay
      BY <3>6, <3>7, <1>0, <1>1, <1>5, <1>6 DEF Replayed
    <3>9. slotA[s] # r
      BY <3>1, <3>3
    <3>10. QED
      BY <3>3, <3>4, <3>8, <3>9, <1>1
  <2>5. QED
    BY <2>3, <2>4
<1>18. Replayed'
  <2>1. ToReplay(header)' = ToReplay(header)
    BY <1>1, ReplayFrame
  <2>2. ASSUME NEW a \in replay', NEW q \in ToReplay(header), q.seq >= a.seq
        PROVE  q \in replay'
    <3>1. a \in replay /\ a # r /\ a \in ToReplay(header)
      BY <1>0, <1>1 DEF Replayed
    <3>2. q \in replay
      BY <2>2, <3>1, <1>0, <1>1 DEF Replayed
    <3>3. CASE q = r
      <4>1. PICK s \in Live(slotA, header) : a = slotA[s]
        BY <3>1, <1>4
      <4>2. s \in Slots /\ a.seq \in Nat
        BY <4>1, <1>0, HartTypes DEF Live
      <4>3. r.seq = a.seq
        BY <2>2, <3>1, <3>3, <4>2, <1>1, <1>6 DEF First
      <4>4. s = p
        BY <4>1, <4>3, <1>0, <1>5 DEF RingOK, Placed
      <4>5. QED
        BY <4>1, <4>4, <3>1, <1>5
    <3>4. QED
      BY <3>2, <3>3, <1>1
  <2>3. QED
    BY <2>1, <2>2, <1>0, <1>1 DEF Replayed
<1>19. QED
  BY <1>3, <1>10, <1>11, <1>12, <1>13, <1>16, <1>17, <1>18 DEF JInv

----------------------------------------------------------------------------
(* Shutdown and power cuts *)

LEMMA StepHalt ==
    ASSUME OneHart, JInv, Halt(h1)
    PROVE  JInv'
<1>0. /\ Types /\ Control /\ Work /\ Flagged /\ HomeWritten /\ HomeFresh
  BY DEF JInv
<1>1. /\ UNCHANGED <<home, slotA, slotB, header, todo, rec, seal, replay, call, writes, acked>>
      /\ Pc = "idle" /\ Pc' = "header" /\ pc' \in [Harts -> Points]
      /\ Todo' = Todo /\ Own' = Own /\ Com' = Com
      /\ Job = "up" /\ Job' = "halt" /\ job' \in [Harts -> Jobs]
      /\ jlog' = [jlog EXCEPT !.gen = @ + 1, !.next = 1]
  BY <1>0 DEF Halt, Goto, Types, Jobs, Points, OneHart, Job, Pc, Todo, Own, Com, device, history
<1>2. /\ ~Busy' /\ ~Counting' /\ ~Busy /\ jlog.gen = header /\ header >= 1
      /\ jlog.depth = 0 /\ jlog \in LogType
  BY <1>0, <1>1 DEF Busy, Valve, Counting, Sealing, Writing, Control, Types
<1>3. /\ jlog' \in LogType /\ jlog'.next = 1 /\ jlog'.gen = jlog.gen + 1 /\ jlog'.depth = jlog.depth
      /\ jlog'.tx = jlog.tx /\ jlog'.count = jlog.count /\ jlog'.txNext = jlog.txNext
  <2>1. PICK n \in Nat : n = jlog.gen + 1
    BY <1>2 DEF LogType
  <2>2. jlog' = [jlog EXCEPT !.gen = n, !.next = 1]
    BY <2>1, <1>1
  <2>3. jlog' \in LogType
    BY <2>2, <1>2 DEF LogType
  <2>4. jlog'.next = 1 /\ jlog'.gen = n /\ jlog'.depth = jlog.depth
    BY <2>2, <1>2 DEF LogType
  <2>5. jlog'.tx = jlog.tx /\ jlog'.count = jlog.count /\ jlog'.txNext = jlog.txNext
    BY <2>2, <1>2 DEF LogType
  <2>6. QED
    BY <2>1, <2>3, <2>4, <2>5
<1>4. /\ RecordsSane' /\ Bounded' /\ RingOK(slotA, slotB, header)' /\ AckedCovered'
      /\ InTx(slotA, header)' = InTx(slotA, header)
  BY <1>1, RingFrame
<1>5. Types'
  BY <1>0, <1>1, <1>3 DEF Types
<1>6. Control' /\ Work'
  BY <1>0, <1>1, <1>2, <1>3 DEF Control, Work, Sealing
<1>7. Numbers'
  BY <1>2 DEF Numbers
<1>8. Session' /\ CallWritten' /\ Replayed' /\ Flood'
  BY <1>1 DEF Session, CallWritten, Replayed, Flood
<1>9. Flagged'
  BY <1>0, <1>1, <1>4 DEF Flagged
<1>10. HomeWritten' /\ HomeFresh'
  BY <1>0, <1>1 DEF HomeWritten, HomeFresh
<1>11. QED
  BY <1>4, <1>5, <1>6, <1>7, <1>8, <1>9, <1>10 DEF JInv

\* No record is of a generation that has not begun.
LEMMA NoneOfNext ==
    ASSUME OneHart, Types, RecordsSane, NEW g, g = header + 1 \/ g = 0
    PROVE  /\ Live(slotA, g) = {} /\ InTx(slotA, g) = {} /\ RingOK(slotA, slotB, g)
           /\ \A b, T : Holders(slotA, slotB, g, b, T) = {}
<1>1. header \in Nat /\ \A s \in Slots : slotA[s].gen \in Nat
  BY HartTypes DEF Types
<1>2. Live(slotA, g) = {}
  BY <1>1 DEF RecordsSane, Live
<1>3. InTx(slotA, g) = {} /\ \A t : Members(slotA, g, t) = {} /\ Seals(slotA, g, t) = {}
  BY <1>2 DEF InTx, Members, Seals
<1>4. RingOK(slotA, slotB, g)
  BY <1>2, <1>3 DEF RingOK, Placed, Ordered, Sealed, Spans, Young
<1>5. QED
  BY <1>2, <1>3, <1>4 DEF Holders

LEMMA StepWriteHeader ==
    ASSUME OneHart, JInv, WriteHeader(h1)
    PROVE  JInv'
<1>0. /\ Types /\ Control /\ Work /\ Flagged /\ HomeWritten /\ HomeFresh /\ RecordsSane /\ Bounded
  BY DEF JInv
<1>1. /\ UNCHANGED <<home, slotA, slotB, jlog, job, rec, seal, replay, call, writes, acked>>
      /\ Pc = "header" /\ Pc' = "take" /\ pc' \in [Harts -> Points]
      /\ Todo' = <<<<Sb, Clean>>>> /\ todo' = [todo EXCEPT ![h1] = <<<<Sb, Clean>>>>]
      /\ Own' = Own /\ Com' = Com /\ Job' = Job /\ header' = jlog.gen
  BY <1>0 DEF WriteHeader, Goto, Types, Points, OneHart, Job, Pc, Todo, Own, Com, history
<1>2. /\ ~Busy' /\ ~Valve' /\ ~Busy /\ Counting' /\ Job = "halt" /\ header' = header + 1 /\ header \in Nat
      /\ header >= 1 /\ jlog.next = 1 /\ jlog.gen = header + 1 /\ jlog.gen \in Nat
  <2>1. Job \in Jobs /\ jlog.gen \in Nat /\ header \in Nat
    BY <1>0, HartTypes DEF Types
  <2>2. Job = "halt"
    BY <2>1, <1>0, <1>1 DEF Control, Jobs, Sealing, Writing
  <2>3. QED
    BY <2>1, <2>2, <1>0, <1>1 DEF Busy, Valve, Counting, Sealing, Writing, Control
<1>3. /\ Live(slotA, header') = {} /\ InTx(slotA, header') = {} /\ RingOK(slotA, slotB, header')
      /\ \A b, T : Holders(slotA, slotB, header', b, T) = {}
  BY <1>0, <1>2, NoneOfNext
<1>4. Low' = 1
  BY <1>1, <1>2 DEF Low
<1>5. RecordsSane' /\ Bounded'
  <2>1. \A s \in Slots : slotA[s].gen \in Nat
    BY <1>0, HartTypes
  <2>2. QED
    BY <2>1, <1>0, <1>1, <1>2 DEF RecordsSane, Bounded
<1>6. RingOK(slotA, slotB, header)' /\ AckedCovered'
  BY <1>1, <1>3 DEF AckedCovered, Covers
<1>7. Types'
  <2>1. <<<<Sb, Clean>>>> \in Seq(Blocks \X Int)
    BY DEF Blocks, Clean
  <2>2. QED
    BY <2>1, <1>0, <1>1, <1>2 DEF Types
<1>8. Control' /\ Work'
  BY <1>0, <1>1, <1>2 DEF Control, Work, Sealing
<1>9. Numbers'
  BY <1>1, <1>2, <1>3, <1>4 DEF Numbers, Sealing
<1>10. Session' /\ CallWritten' /\ Replayed' /\ Flood'
  BY <1>1, <1>2 DEF Session, CallWritten, Replayed, Flood
<1>11. Flagged'
  BY <1>0, <1>1, <1>2, <1>3 DEF Flagged
<1>12. HomeWritten' /\ HomeFresh'
  BY <1>0, <1>1, <1>2 DEF HomeWritten, HomeFresh
<1>13. QED
  BY <1>5, <1>6, <1>7, <1>8, <1>9, <1>10, <1>11, <1>12 DEF JInv

\* PowerDown and PowerCut.
LEMMA StepPowerOff ==
    ASSUME OneHart, JInv, PoweredOff, UNCHANGED <<home, slotA, slotB, header, writes, acked>>,
           home[Sb] # Dirty => InTx(slotA, header) = {}
    PROVE  JInv'
<1>0. /\ Types /\ Control /\ HomeWritten /\ HomeFresh /\ Replayed /\ RecordsSane
      /\ RingOK(slotA, slotB, header)
  BY DEF JInv
<1>1. /\ jlog' = FreshLog /\ Job' = "off" /\ Pc' = "idle" /\ Todo' = <<>> /\ Own' = NoRec /\ Com' = NoRec
      /\ job' \in [Harts -> Jobs] /\ pc' \in [Harts -> Points] /\ replay' = {}
      /\ todo' \in [Harts -> Seq(Blocks \X Int)] /\ call'[h1] = 0 /\ call' \in [Harts -> Nat]
      /\ rec' \in [Harts -> AnyRec] /\ seal' \in [Harts -> AnyRec]
  <2>1. NoRec \in AnyRec
    BY <1>0, HartTypes
  <2>2. QED
    BY <2>1 DEF PoweredOff, OneHart, Jobs, Points, Job, Pc, Todo, Own, Com
<1>2. /\ RecordsSane' /\ Bounded' /\ RingOK(slotA, slotB, header)' /\ AckedCovered'
      /\ InTx(slotA, header)' = InTx(slotA, header)
  BY RingFrame
<1>3. /\ jlog' \in LogType /\ jlog'.depth = 0 /\ jlog'.tx = 0 /\ jlog'.count = 0 /\ jlog'.txNext = 1
  BY <1>1 DEF FreshLog, LogType
<1>4. Types'
  BY <1>0, <1>1, <1>3 DEF Types
<1>5. Control' /\ Work'
  BY <1>1, <1>3 DEF Control, Work, Busy, Valve, Sealing, Writing
<1>6. Numbers' /\ Session' /\ CallWritten' /\ Replayed' /\ Flood'
  BY <1>1 DEF Numbers, Counting, Session, CallWritten, Replayed, Flood
<1>7. Flagged'
  BY <1>1, <1>2 DEF Flagged
<1>8. HomeWritten'
  BY <1>0 DEF HomeWritten
<1>9. HomeFresh'
  <2>1. SUFFICES ASSUME NEW n \in acked, NEW b \in writes[n], ~(home[b] >= n)
                 PROVE  Holders(slotA, slotB, header, b, {}) # {}
    BY <1>1 DEF HomeFresh
  <2>2. CASE Job \in {"off", "init"}
    BY <2>1, <2>2, <1>0 DEF HomeFresh
  <2>3. CASE Job = "replay"
    <3>1. PICK r \in replay : r.lba = b /\ r.sum >= n
      BY <2>1, <2>3, <1>0 DEF HomeFresh
    <3>2. ToReplay(header) = {slotA[s] : s \in {q \in Live(slotA, header) :
                           /\ slotA[q].kind = "data" /\ slotA[q].sum = slotB[q]
                           /\ slotA[q].tx = 0 \/ Intact(slotA, slotB, header, slotA[q].tx)}}
      <4>1. slotA \in [Slots -> AnyRec]
        BY <1>0 DEF Types
      <4>2. QED
        BY <4>1, <1>0, RecoveryApplies
    <3>3. PICK p \in Live(slotA, header) :
            /\ r = slotA[p] /\ slotA[p].kind = "data"
            /\ slotA[p].tx = 0 \/ Intact(slotA, slotB, header, slotA[p].tx)
      BY <3>1, <3>2, <2>3, <1>0 DEF Replayed
    <3>4. b \in Data /\ p \in Slots /\ slotA[p].kind # "none"
      BY <3>3, <1>0 DEF Types, Live
    <3>5. p \in Holders(slotA, slotB, header, b, {})
      BY <3>1, <3>3, <3>4, <1>0 DEF RecordsSane, Holders, InTx
    <3>6. QED
      BY <3>5
  <2>4. QED
    BY <2>1, <2>2, <2>3, <1>0 DEF HomeFresh
<1>10. QED
  BY <1>2, <1>4, <1>5, <1>6, <1>7, <1>8, <1>9 DEF JInv

LEMMA StepPowerDown ==
    ASSUME OneHart, JInv, PowerDown(h1)
    PROVE  JInv'
<1>1. PoweredOff /\ UNCHANGED <<home, slotA, slotB, header, writes, acked>>
  BY DEF PowerDown, device, history
<1>2. InTx(slotA, header) = {}
  BY DEF PowerDown, Job, Pc, JInv, Flagged
<1>3. QED
  BY <1>1, <1>2, StepPowerOff

\* A cut that does not stop the next recovery.
LEMMA StepPowerCut ==
    ASSUME OneHart, JInv, PowerCut, ~skipped'
    PROVE  JInv'
<1>1. PoweredOff /\ UNCHANGED <<home, slotA, slotB, header, writes, acked>> /\ ~HalfRecovered
  BY DEF PowerCut, device
<1>2. home[Sb] # Dirty => InTx(slotA, header) = {}
  BY <1>1 DEF HalfRecovered, Job, OneHart, JInv, Flagged
<1>3. QED
  BY <1>1, <1>2, StepPowerOff

\* The greatest number of a generation.
LEMMA MaxSeqIsLast ==
    ASSUME OneHart, Types, Bounded, NEW g
    PROVE  /\ MaxSeq(g) \in Nat
           /\ \A s \in Live(slotA, g) : slotA[s].seq <= MaxSeq(g)
           /\ MaxSeq(g) = 0 \/ \E s \in Live(slotA, g) : slotA[s].seq = MaxSeq(g)
<1> DEFINE S == {slotA[s].seq : s \in Live(slotA, g)}
<1>1. \A s \in Live(slotA, g) : s \in Slots /\ slotA[s].seq \in Nat
  BY HartTypes DEF Live
<1>2. S \in SUBSET Nat
  BY <1>1
<1>3. SlotsOfGen(g) = Live(slotA, g)
  BY DEF SlotsOfGen, Live
<1>4. MaxSeq(g) = IF S = {} THEN 0 ELSE CHOOSE m \in S : \A q \in S : q <= m
  BY <1>3 DEF MaxSeq
<1>5. CASE S = {}
  BY <1>4, <1>5
<1>6. CASE S # {}
  <2>1. PICK n \in Nat : \A s \in S : s <= n
    BY <1>1 DEF Bounded
  <2> HIDE DEF S
  <2>2. \E m \in S : \A s \in S : s <= m
    BY <1>2, <1>6, <2>1, GreatestExists
  <2>3. MaxSeq(g) = CHOOSE m \in S : \A q \in S : q <= m
    BY <1>4, <1>6
  <2>4. MaxSeq(g) \in S /\ \A q \in S : q <= MaxSeq(g)
    BY <2>2, <2>3
  <2>5. QED
    BY <2>4, <1>2 DEF S
<1>7. QED
  BY <1>5, <1>6

LEMMA StepBoot ==
    ASSUME OneHart, JInv, Boot(h1)
    PROVE  JInv'
<1> DEFINE g == IF header = 0 THEN 1 ELSE header
<1>0. /\ Types /\ Control /\ Work /\ Flagged /\ HomeWritten /\ HomeFresh /\ RecordsSane /\ Bounded
      /\ RingOK(slotA, slotB, header) /\ AckedCovered
  BY DEF JInv
<1>1. /\ UNCHANGED <<home, slotA, slotB, pc, todo, rec, seal, replay, call, writes, acked>>
      /\ Pc' = Pc /\ Todo' = Todo /\ Own' = Own /\ Com' = Com /\ Job = "off"
      /\ Job' = (IF home[Sb] = Dirty THEN "init" ELSE "clear") /\ job' \in [Harts -> Jobs]
      /\ header' = g /\ jlog' = [jlog EXCEPT !.gen = g, !.next = MaxSeq(g) + 1]
  BY <1>0 DEF Boot, Types, Jobs, OneHart, Job, Pc, Todo, Own, Com, history
<1>2. /\ Pc = "idle" /\ ~Busy /\ ~Valve /\ ~Busy' /\ ~Valve' /\ Counting' /\ jlog.depth = 0
      /\ g \in Nat /\ g >= 1 /\ jlog \in LogType
  <2>1. Pc = "idle" /\ jlog.depth = 0 /\ jlog \in LogType /\ header \in Nat
    BY <1>0, <1>1 DEF Control, Types
  <2>2. QED
    BY <2>1, <1>1 DEF Busy, Valve, Counting, Sealing, Writing
<1>3. /\ MaxSeq(g) \in Nat /\ \A s \in Live(slotA, g) : slotA[s].seq <= MaxSeq(g)
      /\ MaxSeq(g) = 0 \/ \E s \in Live(slotA, g) : slotA[s].seq = MaxSeq(g)
  BY <1>0, MaxSeqIsLast
<1> HIDE DEF g
<1>4. /\ jlog' \in LogType /\ jlog'.gen = g /\ jlog'.next = MaxSeq(g) + 1 /\ jlog'.depth = jlog.depth
      /\ jlog'.tx = jlog.tx /\ jlog'.count = jlog.count /\ jlog'.txNext = jlog.txNext
  <2>1. PICK n \in Nat : n = MaxSeq(g) + 1
    BY <1>3
  <2>2. jlog' = [jlog EXCEPT !.gen = g, !.next = n]
    BY <2>1, <1>1
  <2>3. jlog' \in LogType
    BY <2>2, <1>2 DEF LogType
  <2>4. jlog'.gen = g /\ jlog'.next = n /\ jlog'.depth = jlog.depth
    BY <2>2, <1>2 DEF LogType
  <2>5. jlog'.tx = jlog.tx /\ jlog'.count = jlog.count /\ jlog'.txNext = jlog.txNext
    BY <2>2, <1>2 DEF LogType
  <2>6. QED
    BY <2>1, <2>3, <2>4, <2>5
<1>5. /\ RingOK(slotA, slotB, g)
      /\ \A b, T : Holders(slotA, slotB, g, b, T) = Holders(slotA, slotB, header, b, T)
      /\ InTx(slotA, g) = InTx(slotA, header)
  <2>1. CASE header = 0
    <3>1. g = header + 1
      BY <2>1 DEF g
    <3>2. /\ RingOK(slotA, slotB, g) /\ InTx(slotA, g) = {}
          /\ \A b, T : Holders(slotA, slotB, g, b, T) = {}
      BY <3>1, <1>0, NoneOfNext
    <3>3. InTx(slotA, header) = {} /\ \A b, T : Holders(slotA, slotB, header, b, T) = {}
      BY <2>1, <1>0, NoneOfNext
    <3>4. QED
      BY <3>2, <3>3
  <2>2. CASE header # 0
    <3>1. g = header
      BY <2>2 DEF g
    <3>2. QED
      BY <3>1, <1>0
  <2>3. QED
    BY <2>1, <2>2
<1>6. RecordsSane' /\ Bounded'
  <2>1. g >= header /\ header \in Nat /\ \A s \in Slots : slotA[s].gen \in Nat
    BY <1>0, HartTypes DEF g, Types
  <2>2. QED
    BY <2>1, <1>0, <1>1, <1>2 DEF RecordsSane, Bounded
<1>7. RingOK(slotA, slotB, header)'
  BY <1>1, <1>5
<1>8. AckedCovered'
  <2>1. \A b, n : Covers(slotA, slotB, header, b, n, {}) = Covers(slotA, slotB, g, b, n, {})
    BY <1>5 DEF Covers
  <2>2. QED
    BY <2>1, <1>0, <1>1 DEF AckedCovered
<1>9. Types'
  BY <1>0, <1>1, <1>2, <1>4 DEF Types
<1>10. Control' /\ Work'
  BY <1>0, <1>1, <1>2, <1>4 DEF Control, Work, Sealing
<1>11. Low' = MaxSeq(g) + 1
  BY <1>1, <1>2, <1>4 DEF Low
<1>12. Numbers'
  <2>1. \A s \in Live(slotA, g) : slotA[s].seq \in Nat
    BY <1>0, HartTypes DEF Live
  <2>2. \A s \in Live(slotA, g) : slotA[s].seq < MaxSeq(g) + 1
    BY <2>1, <1>3
  <2>3. MaxSeq(g) + 1 >= 1 /\ (MaxSeq(g) + 1 = 1 \/ \E s \in Live(slotA, g) : slotA[s].seq = (MaxSeq(g) + 1) - 1)
    BY <1>3
  <2>4. QED
    BY <2>2, <2>3, <1>1, <1>2, <1>11 DEF Numbers, Sealing
<1>13. Session' /\ CallWritten' /\ Replayed' /\ Flood'
  BY <1>1 DEF Session, CallWritten, Replayed, Flood
<1>14. Flagged'
  BY <1>0, <1>1, <1>2, <1>5 DEF Flagged
<1>15. HomeWritten'
  BY <1>0, <1>1 DEF HomeWritten
<1>16. HomeFresh'
  <2>1. SUFFICES ASSUME NEW n \in acked, NEW b \in writes[n], ~(home[b] >= n)
                 PROVE  Job' = "init" /\ Holders(slotA, slotB, g, b, {}) # {}
    BY <1>1 DEF HomeFresh
  <2>2. Holders(slotA, slotB, header, b, {}) # {}
    BY <2>1, <1>0, <1>1 DEF HomeFresh
  <2>3. InTx(slotA, header) # {}
    BY <2>2 DEF Holders
  <2>4. home[Sb] = Dirty
    BY <2>3, <1>0, <1>1 DEF Flagged
  <2>5. QED
    BY <2>2, <2>4, <1>1, <1>5
<1>17. QED
  BY <1>6, <1>7, <1>8, <1>9, <1>10, <1>12, <1>13, <1>14, <1>15, <1>16 DEF JInv

----------------------------------------------------------------------------
(* A record reaches the device *)

\* The record taken may be written over whatever its slot holds.
LEMMA DataFits ==
    ASSUME OneHart, JInv, Pc = "dataA"
    PROVE  /\ Fits(slotA, header, Own) /\ Low = Own.seq /\ Seals(slotA, header, Own.tx) = {}
           /\ Own.tx = jlog.tx /\ Own.kind = "data" /\ Own.gen = header /\ Own.seq >= 1
           /\ Job # "call" => Own.tx = 0 /\ Own.lba \notin Data /\ ~ValveSealed
           /\ Job = "call" => /\ jlog.depth = 1 /\ jlog.tx >= 1 /\ jlog.tx + 1 = jlog.txNext
                              /\ Own.lba \in writes[call[h1]] /\ Own.lba \in Data
                              /\ Own.sum = call[h1] /\ call[h1] = Len(writes)
                              /\ call[h1] \in DOMAIN writes
                              /\ OpenTx(jlog.tx, jlog.count - 1)
                              /\ jlog.count \in 1 .. Chunk
                              /\ \A n \in acked : n <= call[h1]
                              /\ \A s \in InTx(slotA, header) :
                                   slotA[s].tx <= jlog.tx /\ slotA[s].seq + NRec >= Own.seq
<1> USE Sizes
<1>0. /\ Types /\ Control /\ Work /\ Numbers /\ Session /\ RingOK(slotA, slotB, header)
  BY DEF JInv
<1>1. /\ Busy /\ ~Valve /\ Counting /\ Job \in {"rebuild", "clear", "mark", "halt", "call"}
      /\ Pending = 1 /\ Low = Own.seq
  BY <1>0, HartTypes DEF Busy, Valve, Counting, Control, Jobs, Sealing, Writing, Pending, Low
<1>2. /\ Own \in AnyRec /\ Own.lba \in Blocks /\ jlog.depth \in {0, 1} /\ jlog.count \in Nat
      /\ jlog.tx \in Nat /\ jlog.txNext \in Nat /\ call[h1] \in Nat /\ Own.seq \in Nat
      /\ \A s \in Slots : slotA[s].tx \in Nat
  BY <1>0, HartTypes
<1>3. /\ Own.kind = "data" /\ Own.gen = header /\ Own.seq >= 1 /\ Own.tx = jlog.tx
      /\ Todo # <<>> /\ Own.lba = Todo[1][1] /\ Own.sum = Todo[1][2]
      /\ jlog.depth = 1 => jlog.count >= 1
  BY <1>0, <1>1 DEF Work
<1>4. Todo \in Seq(Blocks \X Int) /\ 1 \in DOMAIN Todo
  BY <1>0, <1>3, HartTypes
<1>5. Fits(slotA, header, Own)
  <2>1. \A q \in Live(slotA, header) : slotA[q].seq < Own.seq \/ slotA[q].seq = Own.seq + 1
    BY <1>0, <1>1 DEF Numbers, ValveSealed
  <2>2. Own.seq = 1 \/ \E q \in Live(slotA, header) : slotA[q].seq = Own.seq - 1
    BY <1>0, <1>1 DEF Numbers
  <2>3. QED
    BY <2>1, <2>2, <1>2, <1>3 DEF Fits
<1>6. ASSUME Job # "call"
      PROVE  Own.tx = 0 /\ Own.lba \notin Data /\ ~ValveSealed /\ Seals(slotA, header, Own.tx) = {}
  <2>1. Own.tx = 0
    BY <1>6, <1>0, <1>3 DEF Control
  <2>2. Own.lba \in {Bitmap, Sb}
    BY <1>6, <1>0, <1>1, <1>3, <1>4 DEF Work
  <2>3. Seals(slotA, header, 0) = {}
    BY <1>0 DEF RingOK, Placed, Seals
  <2>4. QED
    BY <1>6, <2>1, <2>2, <2>3, JournalAssumption DEF ValveSealed
<1>7. ASSUME Job = "call"
      PROVE  /\ jlog.depth = 1 /\ jlog.tx >= 1 /\ jlog.tx + 1 = jlog.txNext
             /\ Own.lba \in writes[call[h1]] /\ Own.lba \in Data
             /\ Own.sum = call[h1] /\ call[h1] = Len(writes) /\ call[h1] \in DOMAIN writes
             /\ OpenTx(jlog.tx, jlog.count - 1) /\ jlog.count \in 1 .. Chunk
             /\ \A n \in acked : n <= call[h1]
             /\ \A s \in InTx(slotA, header) :
                  slotA[s].tx <= jlog.tx /\ slotA[s].seq + NRec >= Own.seq
  <2>1. jlog.depth = 1 /\ call[h1] = Len(writes) /\ call[h1] # 0
    BY <1>7, <1>0 DEF Control, Sealing
  <2>2. /\ jlog.tx >= 1 /\ jlog.tx + 1 = jlog.txNext /\ OpenTx(jlog.tx, jlog.count - 1)
        /\ jlog.count <= Chunk
    BY <1>7, <2>1, <1>0, <1>1 DEF Session
  <2>3. Own.lba \in writes[call[h1]] /\ Own.sum = call[h1]
    BY <1>7, <1>0, <1>3, <1>4 DEF Work
  <2>4. writes \in Seq(SUBSET Data) /\ acked \subseteq DOMAIN writes
    BY <1>0 DEF Types
  <2>5. call[h1] \in DOMAIN writes /\ Own.lba \in Data /\ \A n \in acked : n <= call[h1]
    BY <2>1, <2>3, <2>4, <1>2
  <2>6. \A s \in InTx(slotA, header) : slotA[s].tx < jlog.txNext /\ slotA[s].seq + NRec >= Own.seq
    BY <1>7, <1>0, <1>1 DEF Session
  <2>7. \A s \in InTx(slotA, header) : slotA[s].tx \in Nat
    BY <1>2 DEF InTx, Live
  <2>8. QED
    BY <2>1, <2>2, <2>3, <2>5, <2>6, <2>7, <1>2, <1>3
<1>8. Seals(slotA, header, Own.tx) = {}
  <2>1. CASE Job = "call"
    BY <2>1, <1>3, <1>7 DEF OpenTx
  <2>2. CASE Job # "call"
    BY <2>2, <1>6
  <2>3. QED
    BY <2>1, <2>2
<1>9. QED
  BY <1>1, <1>3, <1>5, <1>6, <1>7, <1>8

\* The slot of the record taken holds no record of its own transaction.
LEMMA DataElsewhere ==
    ASSUME OneHart, JInv, Pc = "dataA", Job = "call"
    PROVE  Slot(Own) \notin Members(slotA, header, jlog.tx)
<1> USE Sizes
<1>1. /\ Types /\ RingOK(slotA, slotB, header) /\ slotA \in [Slots -> AnyRec]
  BY DEF JInv, Types
<1>2. /\ Fits(slotA, header, Own) /\ Low = Own.seq /\ OpenTx(jlog.tx, jlog.count - 1)
      /\ jlog.count \in 1 .. Chunk
  BY DataFits
<1>3. SUFFICES ASSUME Slot(Own) \in Members(slotA, header, jlog.tx) PROVE FALSE
  OBVIOUS
<1>4. Slot(Own) \in Live(slotA, header) /\ Slot(Own) \in Slots
  BY <1>3 DEF Members, Live
<1>5. slotA[Slot(Own)].seq + NRec <= Own.seq
  BY <1>1, <1>2, <1>4, PutOver DEF RingOK
<1>6. Own.seq <= slotA[Slot(Own)].seq + (jlog.count - 1) + 1
  BY <1>2, <1>3 DEF OpenTx
<1>7. slotA[Slot(Own)].seq \in Nat /\ Own.seq \in Nat
  BY <1>1, <1>4, HartTypes
<1>8. QED
  BY <1>2, <1>5, <1>6, <1>7

LEMMA DataRing ==
    ASSUME OneHart, JInv, Pc = "dataA"
    PROVE  RingOK(Put(slotA, Own), slotB, header)
<1> USE Sizes
<1>0. Types /\ RecordsSane /\ Numbers
  BY DEF JInv
<1>1. RingOK(slotA, slotB, header) /\ slotA \in [Slots -> AnyRec]
  BY DEF JInv, Types
<1>2. Fits(slotA, header, Own) /\ Own.kind = "data" /\ Own.tx = jlog.tx
  BY DataFits
<1>3. CASE Own.tx = 0
  BY <1>1, <1>2, <1>3, PutPlain
<1>4. CASE Own.tx # 0
  <2>1. Job = "call"
    BY <1>4, DataFits
  <2>2. /\ OpenTx(jlog.tx, jlog.count - 1) /\ Own.sum = call[h1] /\ call[h1] = Len(writes)
        /\ \A s \in InTx(slotA, header) : slotA[s].tx <= jlog.tx
    BY <2>1, DataFits
  <2>3. \A s \in InTx(slotA, header) : slotA[s].kind = "data" => slotA[s].tx <= Own.tx /\ slotA[s].sum <= Own.sum
    <3>1. \A s \in InTx(slotA, header) : slotA[s].kind = "data" => slotA[s].sum \in DOMAIN writes
      BY <1>0 DEF RecordsSane, InTx, Live
    <3>2. \A i \in DOMAIN writes : i <= Len(writes)
      BY <1>0 DEF Types
    <3>3. QED
      BY <3>1, <3>2, <2>2, <1>2
  <2>4. \A s \in InTx(slotA, header) : slotA[s].kind = "commit" => slotA[s].tx < Own.tx
    <3>1. \A s \in InTx(slotA, header) : slotA[s].kind = "commit" => slotA[s].tx # jlog.tx
      BY <2>2 DEF OpenTx, Seals, InTx
    <3>2. \A s \in InTx(slotA, header) : slotA[s].tx \in Nat
      BY <1>0, HartTypes DEF InTx, Live
    <3>3. jlog.tx \in Nat
      BY <1>0, HartTypes
    <3>4. QED
      BY <3>1, <3>2, <3>3, <2>2, <1>2
  <2>5. \A s \in Live(slotA, header) : slotA[s].seq = Own.seq + 1 => slotA[s].kind = "commit" /\ slotA[s].sum = Chunk
    <3>1. Counting /\ Own.seq \in Nat /\ \A s \in Live(slotA, header) : slotA[s].seq \in Nat
      BY <2>1, <1>0, HartTypes DEF Counting, Live
    <3>2. CASE ValveSealed
      BY <3>1, <3>2 DEF ValveSealed
    <3>3. CASE \A s \in Live(slotA, header) : slotA[s].seq < Own.seq
      BY <3>1, <3>3
    <3>4. QED
      BY <3>1, <3>2, <3>3, <1>0 DEF Numbers
  <2>6. QED
    BY <1>1, <1>2, <1>4, <2>3, <2>4, <2>5, PutMember
<1>5. QED
  BY <1>3, <1>4

\* The commit that opened the valve is not where the record goes.
LEMMA ValveElsewhere ==
    ASSUME OneHart, JInv, Pc = "dataA", ValveSealed
    PROVE  \E c \in Live(slotA, header) :
             /\ c # Slot(Own) /\ slotA[c].seq = Own.seq + 1 /\ slotA[c].kind = "commit"
             /\ \A s \in Live(slotA, header) : s # c => slotA[s].seq < Own.seq
<1> USE Sizes
<1>1. /\ Types /\ RingOK(slotA, slotB, header) /\ slotA \in [Slots -> AnyRec]
  BY DEF JInv, Types
<1>2. Fits(slotA, header, Own)
  BY DataFits
<1>3. PICK c \in Live(slotA, header) :
        /\ slotA[c].seq = Own.seq + 1 /\ slotA[c].kind = "commit"
        /\ \A s \in Live(slotA, header) : s # c => slotA[s].seq < Own.seq
  BY DEF ValveSealed
<1>4. ASSUME c = Slot(Own) PROVE FALSE
  <2>1. slotA[c].seq + NRec <= Own.seq
    BY <1>1, <1>2, <1>4, PutOver DEF RingOK
  <2>2. Own.seq \in Nat
    BY <1>1, HartTypes
  <2>3. QED
    BY <2>1, <2>2, <1>3
<1>5. QED
  BY <1>3, <1>4

LEMMA StepWriteDataA ==
    ASSUME OneHart, JInv, WriteDataA(h1)
    PROVE  JInv'
<1> USE Sizes
<1> DEFINE p == Slot(Own)
<1>0. /\ Types /\ Control /\ Work /\ Numbers /\ Session /\ Flagged /\ Flood /\ RecordsSane /\ Bounded
      /\ HomeWritten /\ HomeFresh /\ CallWritten /\ AckedCovered
      /\ RingOK(slotA, slotB, header) /\ slotA \in [Slots -> AnyRec]
  BY DEF JInv, Types
<1>1. /\ UNCHANGED <<home, slotB, header, jlog, job, todo, rec, seal, replay, call, writes, acked>>
      /\ Pc = "dataA" /\ Pc' = "dataB" /\ pc' \in [Harts -> Points]
      /\ Job' = Job /\ Todo' = Todo /\ Own' = Own /\ Com' = Com
      /\ slotA' = Put(slotA, Own)
  BY <1>0 DEF WriteDataA, Goto, Types, Points, OneHart, Job, Pc, Todo, Own, Com, history, Put
<1>2. /\ Fits(slotA, header, Own) /\ Low = Own.seq /\ Seals(slotA, header, Own.tx) = {}
      /\ Own.tx = jlog.tx /\ Own.kind = "data" /\ Own.gen = header /\ Own.seq >= 1
      /\ Job # "call" => Own.tx = 0 /\ Own.lba \notin Data /\ ~ValveSealed
  BY <1>1, DataFits
<1>3. Job = "call" => /\ jlog.depth = 1 /\ jlog.tx >= 1 /\ jlog.tx + 1 = jlog.txNext
                      /\ Own.lba \in writes[call[h1]] /\ Own.lba \in Data
                      /\ Own.sum = call[h1] /\ call[h1] = Len(writes)
                      /\ call[h1] \in DOMAIN writes
                      /\ OpenTx(jlog.tx, jlog.count - 1)
                      /\ jlog.count \in 1 .. Chunk
                      /\ \A n \in acked : n <= call[h1]
                      /\ \A s \in InTx(slotA, header) :
                           slotA[s].tx <= jlog.tx /\ slotA[s].seq + NRec >= Own.seq
                      /\ p \notin Members(slotA, header, jlog.tx)
  BY <1>1, DataFits, DataElsewhere
<1>4. /\ Own \in AnyRec /\ Own.seq \in Nat /\ Own.tx \in Nat /\ Own.sum \in Int /\ Low \in Nat
      /\ jlog.next \in Nat /\ jlog.tx \in Nat /\ jlog.txNext \in Nat /\ jlog.count \in Nat
      /\ jlog.depth \in {0, 1} /\ Job \in Jobs /\ call[h1] \in Nat
      /\ \A s \in Slots : slotA[s] \in AnyRec /\ slotA[s].seq \in Nat /\ slotA[s].tx \in Nat
  BY <1>0, HartTypes
<1>5. /\ p \in Slots /\ slotA' \in [Slots -> AnyRec] /\ slotA'[p] = Own
      /\ \A s \in Slots : s # p => slotA'[s] = slotA[s]
      /\ Live(slotA', header) = Live(slotA, header) \cup {p}
      /\ (Own.seq % NRec) = p
  BY <1>0, <1>1, <1>2, PutEffect, RecordNumber
<1>6. /\ Own.tx = 0 => InTx(slotA', header) = InTx(slotA, header) \ {p}
      /\ Own.tx # 0 => InTx(slotA', header) = InTx(slotA, header) \cup {p}
  BY <1>0, <1>1, <1>2, PutElsewhere
<1>7. \A s \in Live(slotA, header) : s \in Slots
  BY DEF Live
<1>8. /\ Busy /\ Busy' /\ ~Valve /\ ~Valve' /\ Counting /\ Counting' /\ Low' = jlog.next
      /\ Job \in {"rebuild", "clear", "mark", "halt", "call"}
  BY <1>0, <1>1, <1>4 DEF Busy, Valve, Low, Counting, Control, Sealing, Writing, Jobs
<1> HIDE DEF p
<1>9. \/ /\ jlog.next = Own.seq + 1 /\ \A s \in Live(slotA, header) : slotA[s].seq < Own.seq
      \/ /\ jlog.next = Own.seq + 2 /\ Job = "call" /\ jlog.count = 1
         /\ \E c \in Live(slotA, header) :
              /\ c # p /\ slotA[c].seq = Own.seq + 1 /\ slotA[c].kind = "commit"
              /\ \A s \in Live(slotA, header) : s # c => slotA[s].seq < Own.seq
  <2>1. CASE ValveSealed
    BY <2>1, <1>1, ValveElsewhere DEF ValveSealed, p
  <2>2. CASE ~ValveSealed
    BY <2>2, <1>0, <1>1, <1>8 DEF Numbers
  <2>3. QED
    BY <2>1, <2>2
<1>10. Types'
  BY <1>0, <1>1, <1>5 DEF Types
<1>11. Control' /\ Work'
  BY <1>0, <1>1, <1>8 DEF Control, Work, Sealing, Writing
<1>12. RecordsSane'
  <2>1. ASSUME NEW s \in Slots, s # p
        PROVE  slotA'[s] = slotA[s]
    BY <2>1, <1>5
  <2>2. /\ slotA'[p].seq >= 1 /\ slotA'[p].seq % NRec = p /\ slotA'[p].gen = header /\ header >= 1
        /\ slotA'[p].kind = "data" /\ slotA'[p].tx = 0 => slotA'[p].lba \notin Data
        /\ slotA'[p].kind = "data" /\ slotA'[p].tx # 0 =>
             /\ slotA'[p].lba \in Data /\ slotA'[p].sum \in DOMAIN writes
             /\ slotA'[p].lba \in writes[slotA'[p].sum]
        /\ slotA'[p].kind # "commit"
    BY <1>0, <1>2, <1>3, <1>4, <1>5, <1>8 DEF Control
  <2>3. header \in Nat
    BY <1>0 DEF Types
  <2>4. QED
    BY <2>1, <2>2, <2>3, <1>0, <1>1 DEF RecordsSane
<1>13. Bounded'
  <2>1. PICK n \in Nat : \A s \in Slots : slotA[s].seq <= n
    BY <1>0 DEF Bounded
  <2>2. n + Own.seq \in Nat
    BY <1>4
  <2>3. \A s \in Slots : slotA'[s].seq <= n + Own.seq
    BY <2>1, <1>4, <1>5
  <2>4. QED
    BY <2>2, <2>3 DEF Bounded
<1>14. RingOK(slotA, slotB, header)'
  BY <1>1, DataRing
<1>15. Numbers'
  <2>1. \A s \in Live(slotA', header) : slotA'[s].seq < jlog.next
    BY <1>4, <1>5, <1>7, <1>9
  <2>2. \E s \in Live(slotA', header) : slotA'[s].seq = jlog.next - 1
    BY <1>4, <1>5, <1>7, <1>9
  <2>3. QED
    BY <2>1, <2>2, <1>1, <1>2, <1>4, <1>5, <1>8, <1>9 DEF Numbers, p, Sealing
<1>16. AckedCovered'
  <2>1. ASSUME NEW n \in acked, NEW b \in writes[n]
        PROVE  Covers(slotA', slotB, header, b, n, {})
    <3>1. Covers(slotA, slotB, header, b, n, {}) /\ n \in Nat
      BY <1>0 DEF AckedCovered, Types
    <3>2. Own.tx # 0 => Own.sum >= n
      BY <3>1, <1>2, <1>3
    <3>3. QED
      BY <3>1, <3>2, <1>0, <1>1, <1>2, PutCovers
  <2>2. QED
    BY <2>1, <1>1 DEF AckedCovered
<1>17. Session'
  <2>1. CASE Job # "call"
    BY <2>1, <1>1, <1>8 DEF Session
  <2>2. CASE Job = "call"
    <3>1. InTx(slotA', header) = InTx(slotA, header) \cup {p}
      BY <2>2, <1>2, <1>3, <1>4, <1>6
    <3>2. ASSUME NEW s \in InTx(slotA', header)
          PROVE  slotA'[s].tx < jlog.txNext /\ slotA'[s].seq + NRec >= jlog.next
      <4>1. CASE s = p
        BY SMTT(20), <4>1, <2>2, <1>2, <1>3, <1>4, <1>5, <1>9
      <4>2. CASE s # p
        <5>1. s \in InTx(slotA, header) /\ s \in Live(slotA, header) /\ s \in Slots /\ slotA'[s] = slotA[s]
          BY <4>2, <3>1, <1>5, <1>7 DEF InTx
        <5>2. slotA[s].tx <= jlog.tx /\ slotA[s].seq + NRec >= Own.seq /\ slotA[s].seq \in Nat
          BY <5>1, <2>2, <1>3, <1>4
        <5>3. (slotA[s].seq % NRec) = s
          BY <5>1, <1>0 DEF RingOK, Placed
        <5>4. ((slotA[s].seq + NRec) % NRec) = s
          BY <5>2, <5>3, RingLater
        <5>5. slotA[s].seq + NRec # Own.seq
          BY <5>4, <4>2, <1>5
        <5>9. slotA'[s].tx < jlog.txNext
          BY <5>1, <5>2, <2>2, <1>3, <1>4
        <5>6. CASE jlog.next = Own.seq + 1
          <6>1. slotA[s].seq + NRec >= Own.seq + 1
            BY <5>2, <5>5, <1>4
          <6>2. QED
            BY <6>1, <5>1, <5>6, <5>9
        <5>7. CASE \E c \in Live(slotA, header) :
                     /\ c # p /\ slotA[c].seq = Own.seq + 1
                     /\ \A q \in Live(slotA, header) : q # c => slotA[q].seq < Own.seq
          <6>1. PICK c \in Live(slotA, header) : c # p /\ slotA[c].seq = Own.seq + 1
            BY <5>7
          <6>2. ((Own.seq + 1) % NRec) = c
            BY <6>1, <1>0 DEF RingOK, Placed
          <6>3. slotA[s].seq + NRec = Own.seq + 1 => s = c
            BY <5>4, <6>2
          <6>4. slotA[s].seq + NRec # Own.seq + 1
            BY <6>1, <6>3, <1>4
          <6>5. jlog.next <= Own.seq + 2
            BY <1>4, <1>9
          <6>6. slotA[s].seq + NRec >= Own.seq + 2
            BY <5>2, <5>5, <6>4, <1>4
          <6>7. QED
            BY <6>5, <6>6, <5>1, <5>2, <5>9, <1>4
        <5>8. QED
          BY <5>6, <5>7, <1>9
      <4>3. QED
        BY <4>1, <4>2
    <3>3. Members(slotA', header, jlog.tx) = Members(slotA, header, jlog.tx) \cup {p}
      BY <2>2, <1>2, <1>3, <1>5, <1>7 DEF Members
    <3>4. Seals(slotA', header, jlog.tx) = {}
      BY <1>2, <1>5, <1>7 DEF Seals
    <3>5. Cardinality(Members(slotA', header, jlog.tx)) = jlog.count
      <4>1. Members(slotA, header, jlog.tx) \in SUBSET Slots
        BY <1>7 DEF Members
      <4>2. IsFiniteSet(Members(slotA, header, jlog.tx))
        BY <4>1, PartsFinite
      <4>3. Cardinality(Members(slotA, header, jlog.tx)) = jlog.count - 1
        BY <2>2, <1>3 DEF OpenTx
      <4>4. Cardinality(Members(slotA, header, jlog.tx) \cup {p}) = (jlog.count - 1) + 1
        BY <4>2, <4>3, <2>2, <1>3, FS_AddElement
      <4>5. QED
        BY <4>4, <3>3, <1>4
    <3>6. ASSUME NEW s \in Members(slotA', header, jlog.tx)
          PROVE  /\ jlog.next <= slotA'[s].seq + jlog.count + 1
                 /\ slotA'[s].sum = call[h1]
                 /\ slotB[s] = slotA'[s].sum \/ s = p
      <4>1. CASE s = p
        BY SMTT(20), <4>1, <2>2, <1>3, <1>4, <1>5, <1>9
      <4>2. CASE s # p
        <5>1. s \in Members(slotA, header, jlog.tx) /\ s \in Slots /\ slotA'[s] = slotA[s] /\ slotA[s].seq \in Nat
          BY <4>2, <3>3, <1>4, <1>5, <1>7 DEF Members
        <5>2. /\ Own.seq <= slotA[s].seq + (jlog.count - 1) + 1 /\ slotA[s].sum = call[h1]
              /\ slotB[s] = slotA[s].sum
          BY <5>1, <2>2, <1>1, <1>2, <1>3 DEF OpenTx
        <5>3. jlog.count # 1
          <6>1. Members(slotA, header, jlog.tx) \in SUBSET Slots
            BY <1>7 DEF Members
          <6>2. Cardinality(Members(slotA, header, jlog.tx)) # 0
            BY <6>1, <5>1, PartsFinite, FS_EmptySet
          <6>3. QED
            BY <6>2, <2>2, <1>3, <1>4 DEF OpenTx
        <5>4. jlog.next = Own.seq + 1
          BY <5>3, <1>9
        <5>5. QED
          BY <5>1, <5>2, <5>4, <1>4
      <4>3. QED
        BY <4>1, <4>2
    <3>7. Pending' = 0
      BY <1>1 DEF Pending, Sealing
    <3>8. OpenTx(jlog.tx, jlog.count - Pending)'
      <4>1. jlog.count - Pending' = jlog.count
        BY <3>7, <1>4
      <4>2. QED
        BY <4>1, <3>4, <3>5, <3>6, <1>1, <1>8 DEF OpenTx, p
    <3>9. QED
      BY <3>2, <3>8, <2>2, <1>1, <1>3, <1>4, <1>8 DEF Session, Sealing
  <2>3. QED
    BY <2>1, <2>2
<1>18. Flagged'
  <2>1. Job # "call" => (InTx(slotA, header) = {} => InTx(slotA', header) = {})
    BY <1>2, <1>6
  <2>2. Job = "call" => home[Sb] = Dirty
    BY <1>0 DEF Flagged
  <2>3. QED
    BY <2>1, <2>2, <1>0, <1>1, <1>8 DEF Flagged
<1>19. Flood'
  <2>1. CASE Job = "rebuild"
    <3>1. Rebuilt' = Rebuilt + 1 /\ Rebuilt \in Int
      BY <1>1, JournalAssumption DEF Rebuilt
    <3>2. jlog.next = Own.seq + 1
      BY <2>1, <1>9
    <3>3. InTx(slotA', header) = InTx(slotA, header) \ {p}
      BY <2>1, <1>2, <1>6
    <3>4. Rebuilt <= Low /\ \A j \in (Low - Rebuilt) .. (Low - 1) : (j % NRec) \notin InTx(slotA, header)
      BY <2>1, <1>0 DEF Flood
    <3>5. ASSUME NEW j \in (jlog.next - Rebuilt') .. (jlog.next - 1)
          PROVE  (j % NRec) \notin InTx(slotA', header)
      <4>1. CASE j = Own.seq
        BY <4>1, <3>3, <1>5
      <4>2. CASE j # Own.seq
        <5>1. j \in (Low - Rebuilt) .. (Low - 1)
          BY <4>2, <3>1, <3>2, <1>2, <1>4
        <5>2. QED
          BY <5>1, <3>3, <3>4
      <4>3. QED
        BY <4>1, <4>2
    <3>6. Rebuilt' <= jlog.next
      BY <3>1, <3>2, <3>4, <1>2, <1>4
    <3>7. QED
      BY <3>5, <3>6, <1>1, <1>8 DEF Flood
  <2>2. QED
    BY <2>1, <1>1 DEF Flood
<1>20. HomeWritten' /\ Replayed'
  BY <1>0, <1>1, <1>8 DEF HomeWritten, Replayed
<1>21. HomeFresh'
  BY <1>0, <1>1, <1>8 DEF HomeFresh
<1>22. CallWritten'
  <2>1. CASE Job = "call"
    <3>1. Missing' = Missing /\ Open' = Open
      BY <1>1 DEF Missing, Open
    <3>2. Open = {jlog.tx}
      BY <2>1, <1>1, <1>3, <1>4 DEF Open
    <3>3. ASSUME NEW b \in Data, home[b] = call[h1]
          PROVE  Covers(slotA', slotB, header, b, call[h1], Open)
      <4>1. Covers(slotA, slotB, header, b, call[h1], Open)
        BY <3>3, <2>1, <1>0 DEF CallWritten
      <4>2. \A s \in InTx(slotA, header) : slotA[s].kind = "commit" => slotA[s].tx < jlog.tx
        <5>1. \A s \in InTx(slotA, header) : slotA[s].kind = "commit" => slotA[s].tx # jlog.tx
          BY <1>2 DEF Seals, InTx
        <5>2. \A s \in InTx(slotA, header) : slotA[s].tx \in Nat
          BY <1>4 DEF InTx, Live
        <5>3. QED
          BY SMTT(20), <5>1, <5>2, <2>1, <1>3, <1>4
      <4>3. \A t \in Open : /\ Slot(Own) \notin Members(slotA, header, t)
                            /\ \A s \in InTx(slotA, header) : slotA[s].kind = "commit" => slotA[s].tx < t
        BY <4>2, <3>2, <2>1, <1>3 DEF p
      <4>4. Open \in SUBSET Nat /\ Own.sum >= call[h1]
        BY <3>2, <2>1, <1>3, <1>4
      <4>5. QED
        BY <4>1, <4>3, <4>4, <1>0, <1>1, <1>2, <1>4, PutCovers
    <3>4. QED
      BY <3>1, <3>3, <2>1, <1>0, <1>1 DEF CallWritten
  <2>2. QED
    BY <2>1, <1>1 DEF CallWritten
<1>23. QED
  BY <1>10, <1>11, <1>12, <1>13, <1>14, <1>15, <1>16, <1>17, <1>18, <1>19, <1>20, <1>21, <1>22 DEF JInv

\* The commit record may be written, and completes its transaction.
LEMMA SealFits ==
    ASSUME OneHart, JInv, Pc = "sealA"
    PROVE  /\ Fits(slotA, header, Com) /\ Seals(slotA, header, Com.tx) = {}
           /\ Com.kind = "commit" /\ Com.gen = header /\ Com.tx # 0 /\ Com.sum \in 1 .. Chunk
           /\ Com.seq \in Nat /\ Com.seq >= 1 /\ Job = "call" /\ OpenTx(Com.tx, Com.sum)
           /\ call[h1] = Len(writes) /\ \A n \in acked : n <= call[h1]
           /\ \A s \in Live(slotA, header) : slotA[s].seq < Low
           /\ \A s \in InTx(slotA, header) : slotA[s].tx < jlog.txNext /\ slotA[s].seq + NRec >= Low
           /\ Low >= 1 /\ (Low = 1 \/ \E s \in Live(slotA, header) : slotA[s].seq = Low - 1)
           /\ Valve => /\ Low = Own.seq /\ Com.seq = Own.seq + 1 /\ jlog.next = Own.seq + 2
                       /\ Com.tx + 1 = jlog.tx /\ jlog.count = 1 /\ Com.sum = Chunk
                       /\ jlog.depth = 1 /\ jlog.tx >= 1 /\ jlog.tx + 1 = jlog.txNext
                       /\ OpenTx(jlog.tx, 0) /\ Members(slotA, header, jlog.tx) = {}
           /\ ~Valve => /\ Low = Com.seq /\ jlog.next = Com.seq + 1
                        /\ Com.tx + 1 = jlog.txNext /\ jlog.depth = 0
<1> USE Sizes
<1>0. /\ Types /\ Control /\ Work /\ Numbers /\ Session /\ RingOK(slotA, slotB, header)
  BY DEF JInv
<1>1. /\ Job = "call" /\ Counting /\ Pending = 1 /\ Low = (IF Valve THEN Own.seq ELSE Com.seq)
  BY <1>0, HartTypes DEF Counting, Control, Jobs, Sealing, Writing, Pending, Low
<1>2. /\ Com \in AnyRec /\ Com.seq \in Nat /\ Own.seq \in Nat /\ jlog.depth \in {0, 1} /\ Low \in Nat
      /\ jlog.count \in Nat /\ jlog.next \in Nat /\ call[h1] \in Nat
      /\ \A s \in Slots : slotA[s].tx \in Nat /\ slotA[s].seq \in Nat
  BY <1>0, HartTypes
<1>3. /\ Com.kind = "commit" /\ Com.gen = header /\ Com.tx # 0 /\ Com.sum \in 1 .. Chunk
  BY <1>0 DEF Work, Sealing
<1>4. /\ \A s \in Live(slotA, header) : slotA[s].seq < Low
      /\ Low >= 1 /\ (Low = 1 \/ \E s \in Live(slotA, header) : slotA[s].seq = Low - 1)
      /\ Valve => Com.seq = Own.seq + 1 /\ jlog.next = Own.seq + 2
      /\ ~Valve => jlog.next = Com.seq + 1
  BY <1>0, <1>1 DEF Numbers
<1>5. /\ \A s \in InTx(slotA, header) : slotA[s].tx < jlog.txNext /\ slotA[s].seq + NRec >= Low
      /\ OpenTx(Com.tx, Com.sum)
      /\ Valve => Com.tx + 1 = jlog.tx /\ jlog.count = 1 /\ Com.sum = Chunk
      /\ ~Valve => Com.tx + 1 = jlog.txNext
      /\ jlog.depth = 1 => /\ jlog.tx >= 1 /\ jlog.tx + 1 = jlog.txNext
                           /\ OpenTx(jlog.tx, jlog.count - 1)
  BY <1>0, <1>1 DEF Session, Sealing
<1>6. call[h1] = Len(writes) /\ (Valve <=> jlog.depth = 1)
  BY <1>0, <1>1 DEF Control, Sealing
<1>7. Seals(slotA, header, Com.tx) = {}
  BY <1>5 DEF OpenTx
<1>8. Fits(slotA, header, Com)
  <2>1. Com.seq >= 1 /\ \A q \in Live(slotA, header) : slotA[q].seq < Com.seq
    <3>1. \A q \in Live(slotA, header) : slotA[q].seq \in Nat
      BY <1>2 DEF Live
    <3>2. QED
      BY <3>1, <1>1, <1>2, <1>4
  <2>2. CASE Valve
    <3>1. \A e \in InTx(slotA, header) : slotA[e].seq + NRec + 1 >= Com.seq
      <4>1. \A e \in InTx(slotA, header) : slotA[e].seq \in Nat /\ slotA[e].seq + NRec >= Low
        BY <1>2, <1>5 DEF InTx, Live
      <4>2. QED
        BY <4>1, <2>2, <1>1, <1>2, <1>4
    <3>2. QED
      BY <3>1, <2>1, <1>2, <1>3 DEF Fits
  <2>3. CASE ~Valve
    BY <2>1, <2>3, <1>1, <1>2, <1>3, <1>4 DEF Fits
  <2>4. QED
    BY <2>2, <2>3
<1>9. \A n \in acked : n <= call[h1]
  BY <1>0, <1>6 DEF Types
<1>10. Valve => OpenTx(jlog.tx, 0) /\ Members(slotA, header, jlog.tx) = {}
  <2>1. Valve => OpenTx(jlog.tx, 0)
    BY <1>5, <1>6
  <2>2. Members(slotA, header, jlog.tx) \in SUBSET Slots
    BY DEF Members, Live
  <2>3. Valve => Members(slotA, header, jlog.tx) = {}
    BY <2>1, <2>2, PartsFinite, FS_EmptySet DEF OpenTx
  <2>4. QED
    BY <2>1, <2>3
<1>11. Com.seq >= 1
  BY <1>8 DEF Fits
<1>12. QED
  BY <1>1, <1>2, <1>3, <1>4, <1>5, <1>6, <1>7, <1>8, <1>9, <1>10, <1>11

LEMMA SealRing ==
    ASSUME OneHart, JInv, Pc = "sealA"
    PROVE  /\ RingOK(Put(slotA, Com), slotB, header)
           /\ Intact(Put(slotA, Com), slotB, header, Com.tx)
           /\ \A s \in InTx(slotA, header) : slotA[s].kind = "commit" => slotA[s].tx < Com.tx
           /\ Slot(Com) \notin Members(slotA, header, Com.tx)
<1> USE Sizes
<1>0. Types /\ RingOK(slotA, slotB, header) /\ slotA \in [Slots -> AnyRec]
  BY DEF JInv, Types
<1>1. /\ Fits(slotA, header, Com) /\ Seals(slotA, header, Com.tx) = {}
      /\ Com.kind = "commit" /\ Com.tx # 0 /\ Com.sum \in 1 .. Chunk
      /\ Com.seq \in Nat /\ Com.seq >= 1 /\ OpenTx(Com.tx, Com.sum)
      /\ \A s \in Live(slotA, header) : slotA[s].seq < Low
      /\ \A s \in InTx(slotA, header) : slotA[s].tx < jlog.txNext
  BY SealFits
<1>2. /\ Valve => /\ Low = Own.seq /\ Com.seq = Own.seq + 1
                  /\ Com.tx + 1 = jlog.tx /\ Com.sum = Chunk
                  /\ jlog.tx + 1 = jlog.txNext
                  /\ OpenTx(jlog.tx, 0) /\ Members(slotA, header, jlog.tx) = {}
      /\ ~Valve => Low = Com.seq /\ Com.tx + 1 = jlog.txNext
  BY SealFits
<1>3. /\ Com.tx \in Nat /\ jlog.tx \in Nat /\ jlog.txNext \in Nat /\ Own.seq \in Nat /\ Low \in Nat
      /\ \A s \in Slots : slotA[s].tx \in Nat /\ slotA[s].seq \in Nat
  BY <1>0, HartTypes
<1>4. \A s \in Live(slotA, header) : s \in Slots /\ slotA[s].tx \in Nat /\ slotA[s].seq \in Nat
  BY <1>3 DEF Live
<1>5. ASSUME NEW s \in InTx(slotA, header)
      PROVE  /\ slotA[s].kind = "data" => slotA[s].tx <= Com.tx
             /\ slotA[s].kind = "commit" => slotA[s].tx < Com.tx
  <2>1. s \in Live(slotA, header) /\ slotA[s].tx < jlog.txNext /\ slotA[s].tx \in Nat
    BY <1>1, <1>4 DEF InTx
  <2>2. slotA[s].kind = "commit" => slotA[s].tx # Com.tx
    BY <2>1, <1>1 DEF Seals
  <2>3. CASE Valve
    <3>1. slotA[s].kind = "commit" => slotA[s].tx # jlog.tx
      BY <2>1, <2>3, <1>2 DEF Seals, OpenTx
    <3>2. slotA[s].kind = "data" => slotA[s].tx # jlog.tx
      BY <2>1, <2>3, <1>2 DEF Members
    <3>3. QED
      BY <2>1, <2>2, <2>3, <3>1, <3>2, <1>2, <1>3
  <2>4. CASE ~Valve
    BY <2>1, <2>2, <2>4, <1>2, <1>3
  <2>5. QED
    BY <2>3, <2>4
<1>6. \A s \in Live(slotA, header) : slotA[s].seq < Com.seq
  BY <1>1, <1>2, <1>3, <1>4
<1>7. /\ Cardinality(Members(slotA, header, Com.tx)) = Com.sum
      /\ \A s \in Members(slotA, header, Com.tx) :
           slotA[s].sum = slotB[s] /\ Low <= slotA[s].seq + Com.sum + 1
  BY <1>1 DEF OpenTx
<1>8. PICK d \in {1, 2} : Com.seq = Low + (d - 1) /\ (d = 2 => Com.sum = Chunk)
  BY <1>1, <1>2, <1>3
<1>9. \A s \in Members(slotA, header, Com.tx) :
        slotA[s].seq + d <= Com.seq /\ Com.seq <= slotA[s].seq + Com.sum + d
  <2>1. \A s \in Members(slotA, header, Com.tx) : slotA[s].seq < Low /\ slotA[s].seq \in Nat
    BY <1>1, <1>4 DEF Members
  <2>2. QED
    BY <2>1, <1>1, <1>3, <1>7, <1>8
<1>10. /\ RingOK(Put(slotA, Com), slotB, header)
       /\ Intact(Put(slotA, Com), slotB, header, Com.tx)
  BY <1>0, <1>1, <1>5, <1>6, <1>7, <1>8, <1>9, PutSeal
<1>11. ASSUME Slot(Com) \in Members(slotA, header, Com.tx) PROVE FALSE
  <2>1. Slot(Com) \in Live(slotA, header)
    BY <1>11 DEF Members
  <2>2. slotA[Slot(Com)].seq + NRec <= Com.seq
    BY <2>1, <1>0, <1>1, PutOver DEF RingOK
  <2>3. Com.seq <= slotA[Slot(Com)].seq + Com.sum + d /\ slotA[Slot(Com)].seq \in Nat
    BY <2>1, <1>4, <1>9, <1>11
  <2>4. QED
    BY <2>2, <2>3, <1>1
<1>12. QED
  BY <1>5, <1>10, <1>11

LEMMA StepSealA ==
    ASSUME OneHart, JInv, SealA(h1)
    PROVE  JInv'
<1> USE Sizes
<1> DEFINE p == Slot(Com)
<1>0. /\ Types /\ Control /\ Work /\ Numbers /\ Session /\ Flagged /\ Flood /\ RecordsSane /\ Bounded
      /\ HomeWritten /\ HomeFresh /\ CallWritten /\ AckedCovered
      /\ RingOK(slotA, slotB, header) /\ slotA \in [Slots -> AnyRec]
  BY DEF JInv, Types
<1>1. /\ UNCHANGED <<home, slotB, header, jlog, job, todo, rec, seal, replay, call, writes, acked>>
      /\ Pc = "sealA" /\ Pc' = "sealB" /\ pc' \in [Harts -> Points]
      /\ Job' = Job /\ Todo' = Todo /\ Own' = Own /\ Com' = Com
      /\ slotA' = Put(slotA, Com)
  BY <1>0 DEF SealA, Goto, Types, Points, OneHart, Job, Pc, Todo, Own, Com, history, Put
<1>2. /\ Fits(slotA, header, Com) /\ Seals(slotA, header, Com.tx) = {}
      /\ Com.kind = "commit" /\ Com.gen = header /\ Com.tx # 0 /\ Com.sum \in 1 .. Chunk
      /\ Com.seq \in Nat /\ Com.seq >= 1 /\ Job = "call" /\ OpenTx(Com.tx, Com.sum)
      /\ call[h1] = Len(writes) /\ \A n \in acked : n <= call[h1]
      /\ \A s \in Live(slotA, header) : slotA[s].seq < Low
      /\ \A s \in InTx(slotA, header) : slotA[s].tx < jlog.txNext /\ slotA[s].seq + NRec >= Low
      /\ Low >= 1 /\ (Low = 1 \/ \E s \in Live(slotA, header) : slotA[s].seq = Low - 1)
  BY <1>1, SealFits
<1>3. /\ Valve => /\ Low = Own.seq /\ Com.seq = Own.seq + 1 /\ jlog.next = Own.seq + 2
                  /\ Com.tx + 1 = jlog.tx /\ jlog.count = 1 /\ Com.sum = Chunk
                  /\ jlog.depth = 1 /\ jlog.tx >= 1 /\ jlog.tx + 1 = jlog.txNext
                  /\ OpenTx(jlog.tx, 0) /\ Members(slotA, header, jlog.tx) = {}
      /\ ~Valve => /\ Low = Com.seq /\ jlog.next = Com.seq + 1
                   /\ Com.tx + 1 = jlog.txNext /\ jlog.depth = 0
  BY <1>1, SealFits
<1>4. /\ Com \in AnyRec /\ Com.tx \in Nat /\ Own.seq \in Nat /\ Low \in Nat
      /\ jlog.next \in Nat /\ jlog.tx \in Nat /\ jlog.txNext \in Nat /\ jlog.count \in Nat
      /\ jlog.depth \in {0, 1} /\ call[h1] \in Nat
      /\ \A s \in Slots : slotA[s] \in AnyRec /\ slotA[s].seq \in Nat /\ slotA[s].tx \in Nat
  BY <1>0, HartTypes
<1>5. /\ p \in Slots /\ slotA' \in [Slots -> AnyRec] /\ slotA'[p] = Com
      /\ \A s \in Slots : s # p => slotA'[s] = slotA[s]
      /\ Live(slotA', header) = Live(slotA, header) \cup {p}
      /\ (Com.seq % NRec) = p
  BY <1>0, <1>1, <1>2, PutEffect, RecordNumber
<1>6. InTx(slotA', header) = InTx(slotA, header) \cup {p}
  BY <1>0, <1>1, <1>2, PutElsewhere
<1>7. \A s \in Live(slotA, header) : s \in Slots /\ slotA[s].seq \in Nat
  BY <1>4 DEF Live
<1>8. /\ Counting /\ Counting' /\ Valve' = Valve /\ Busy' = Busy
      /\ Low' = (IF Valve THEN Own.seq ELSE jlog.next)
  BY <1>1, <1>2 DEF Busy, Valve, Low, Counting, Sealing, Writing
<1>9. /\ RingOK(slotA', slotB, header) /\ Intact(slotA', slotB, header, Com.tx)
      /\ \A s \in InTx(slotA, header) : slotA[s].kind = "commit" => slotA[s].tx < Com.tx
      /\ p \notin Members(slotA, header, Com.tx)
  BY <1>1, SealRing
<1>10. \A s \in Members(slotA, header, Com.tx) : slotA[s].sum = call[h1]
  BY <1>2 DEF OpenTx
<1>11. Types'
  BY <1>0, <1>1, <1>5 DEF Types
<1>12. Control' /\ Work'
  BY <1>0, <1>1, <1>2, <1>8 DEF Control, Work, Sealing, Writing
<1>13. RecordsSane'
  <2>1. ASSUME NEW s \in Slots, s # p
        PROVE  slotA'[s] = slotA[s]
    BY <2>1, <1>5
  <2>2. /\ slotA'[p].seq >= 1 /\ slotA'[p].seq % NRec = p /\ slotA'[p].gen = header /\ header >= 1
        /\ slotA'[p].kind = "commit" /\ slotA'[p].tx # 0 /\ slotA'[p].sum \in 1 .. Chunk
    BY <1>0, <1>2, <1>5 DEF Control
  <2>3. header \in Nat
    BY <1>0 DEF Types
  <2>4. QED
    BY <2>1, <2>2, <2>3, <1>0, <1>1 DEF RecordsSane
<1>14. Bounded'
  <2>1. PICK n \in Nat : \A s \in Slots : slotA[s].seq <= n
    BY <1>0 DEF Bounded
  <2>2. Com.seq \in Nat /\ n + Com.seq \in Nat
    BY <1>2
  <2>3. \A s \in Slots : slotA'[s].seq <= n + Com.seq
    BY <2>1, <2>2, <1>4, <1>5
  <2>4. QED
    BY <2>2, <2>3 DEF Bounded
<1>15. RingOK(slotA, slotB, header)'
  BY <1>1, <1>9
<1>16. Numbers'
  <2>1. CASE Valve
    <3>1. p \in Live(slotA', header) /\ slotA'[p].kind = "commit" /\ slotA'[p].seq = Own.seq + 1
          /\ slotA'[p].tx = jlog.tx - 1 /\ slotA'[p].sum = Chunk
      BY SMTT(20), <2>1, <1>2, <1>3, <1>4, <1>5
    <3>2. \A s \in Live(slotA', header) : s # p => slotA'[s].seq < Own.seq
      BY <2>1, <1>2, <1>3, <1>5, <1>7
    <3>3. jlog.tx > 1
      BY <2>1, <1>2, <1>3, <1>4
    <3>4. ValveSealed'
      BY <3>1, <3>2, <3>3, <2>1, <1>1, <1>2, <1>3 DEF ValveSealed
    <3>5. Low = 1 \/ \E s \in Live(slotA', header) : slotA'[s].seq = Low - 1
      <4>1. ASSUME NEW s \in Live(slotA, header), slotA[s].seq = Low - 1
            PROVE  s # p
        <5>1. s = p => slotA[s].seq + NRec <= Com.seq
          BY <1>0, <1>2, PutOver DEF RingOK
        <5>2. QED
          BY <5>1, <4>1, <2>1, <1>3, <1>4, <1>7
      <4>2. QED
        BY <4>1, <1>2, <1>5, <1>7
    <3>6. QED
      BY <3>4, <3>5, <2>1, <1>1, <1>2, <1>3, <1>5, <1>8 DEF Numbers, p
  <2>2. CASE ~Valve
    <3>1. \A s \in Live(slotA', header) : slotA'[s].seq < jlog.next
      BY <2>2, <1>2, <1>3, <1>5, <1>7
    <3>2. p \in Live(slotA', header) /\ slotA'[p].seq = jlog.next - 1
      BY <2>2, <1>2, <1>3, <1>5
    <3>3. QED
      BY <3>1, <3>2, <2>2, <1>1, <1>2, <1>3, <1>5, <1>8 DEF Numbers, p
  <2>3. QED
    BY <2>1, <2>2
<1>17. AckedCovered'
  <2>1. ASSUME NEW n \in acked, NEW b \in writes[n]
        PROVE  Covers(slotA', slotB, header, b, n, {})
    <3>1. Covers(slotA, slotB, header, b, n, {}) /\ n \in Nat /\ n <= call[h1]
      BY <1>0, <1>2 DEF AckedCovered, Types
    <3>2. \A s \in Members(slotA, header, Com.tx) : slotA[s].sum >= n
      BY <3>1, <1>4, <1>10
    <3>3. QED
      BY <3>1, <3>2, <1>0, <1>1, <1>2, PutCovers
  <2>2. QED
    BY <2>1, <1>1 DEF AckedCovered
<1>18. Session'
  <2>1. ASSUME NEW s \in InTx(slotA', header)
        PROVE  slotA'[s].tx < jlog.txNext /\ slotA'[s].seq + NRec >= Low'
    <3>1. CASE s = p
      <4>1. slotA'[s] = Com /\ Com.seq \in Nat
        BY <3>1, <1>2, <1>5
      <4>2. CASE Valve
        BY <4>1, <4>2, <1>3, <1>4, <1>8
      <4>3. CASE ~Valve
        BY <4>1, <4>3, <1>3, <1>4, <1>8
      <4>4. QED
        BY <4>2, <4>3
    <3>2. CASE s # p
      <4>1. s \in InTx(slotA, header) /\ s \in Live(slotA, header) /\ s \in Slots /\ slotA'[s] = slotA[s]
        BY <3>2, <1>5, <1>6, <1>7 DEF InTx
      <4>2. slotA[s].tx < jlog.txNext /\ slotA[s].seq + NRec >= Low /\ slotA[s].seq \in Nat
        BY <4>1, <1>2, <1>4
      <4>3. CASE Valve
        BY <4>1, <4>2, <4>3, <1>3, <1>8
      <4>4. CASE ~Valve
        <5>1. (slotA[s].seq % NRec) = s
          BY <4>1, <1>0 DEF RingOK, Placed
        <5>2. ((slotA[s].seq + NRec) % NRec) = s
          BY <4>2, <5>1, RingLater
        <5>3. slotA[s].seq + NRec # Com.seq
          BY <5>2, <3>2, <1>5
        <5>4. slotA[s].seq + NRec >= Com.seq + 1
          <6>1. Low = Com.seq /\ Com.seq \in Nat
            BY <4>4, <1>2, <1>3
          <6>2. QED
            BY <4>2, <5>3, <6>1
        <5>5. QED
          BY <4>1, <4>2, <4>4, <5>4, <1>3, <1>8
      <4>5. QED
        BY <4>3, <4>4
    <3>3. QED
      BY <3>1, <3>2
  <2>2. Pending' = 1
    BY <1>1 DEF Pending, Sealing
  <2>3. Valve => OpenTx(jlog.tx, jlog.count - Pending)'
    <3>1. CASE Valve
      <4>1. Com.tx # jlog.tx
        BY <3>1, <1>3, <1>4
      <4>2. Seals(slotA', header, jlog.tx) = {}
        <5>1. Seals(slotA, header, jlog.tx) = {}
          BY <3>1, <1>3 DEF OpenTx
        <5>2. QED
          BY <4>1, <5>1, <1>5, <1>7 DEF Seals
      <4>3. Members(slotA', header, jlog.tx) = {}
        <5>1. Members(slotA, header, jlog.tx) = {}
          BY <3>1, <1>3
        <5>2. QED
          BY <4>1, <5>1, <1>5, <1>7 DEF Members
      <4>4. jlog.count - Pending' = 0 /\ Cardinality(Members(slotA', header, jlog.tx)) = 0
        BY <4>3, <3>1, <2>2, <1>3, FS_EmptySet
      <4>5. QED
        BY <4>2, <4>3, <4>4, <1>1 DEF OpenTx
    <3>2. QED
      BY <3>1
  <2>4. QED
    BY <2>1, <2>3, <1>0, <1>1, <1>2, <1>3, <1>8 DEF Session, Sealing
<1>19. Flagged' /\ Flood' /\ Replayed'
  BY <1>0, <1>1, <1>2 DEF Flagged, Flood, Replayed
<1>20. HomeWritten' /\ HomeFresh'
  BY <1>0, <1>1, <1>2 DEF HomeWritten, HomeFresh
<1>21. CallWritten'
  <2>1. Missing' = Missing
    BY <1>1 DEF Missing
  <2>2. /\ Open' = {t \in Nat : Valve /\ t = jlog.tx}
        /\ Open = {t \in Nat : (Valve /\ t = jlog.tx) \/ t = Com.tx}
    BY <1>1, <1>3 DEF Open
  <2>3. ASSUME NEW b \in Data, home[b] = call[h1]
        PROVE  Covers(slotA', slotB, header, b, call[h1], Open')
    <3>1. Covers(slotA, slotB, header, b, call[h1], Open)
      BY <2>3, <1>0, <1>2 DEF CallWritten
    <3>2. ASSUME NEW t \in Open
          PROVE  /\ Slot(Com) \notin Members(slotA, header, t)
                 /\ t \in Open' \/ Intact(Put(slotA, Com), slotB, header, t)
                 /\ \A s \in InTx(slotA, header) : slotA[s].kind = "commit" => slotA[s].tx < t
      <4>1. CASE t = Com.tx
        BY <4>1, <1>1, <1>9 DEF p
      <4>2. CASE Valve /\ t = jlog.tx
        <5>1. \A s \in InTx(slotA, header) : slotA[s].tx \in Nat
          BY <1>4 DEF InTx, Live
        <5>2. QED
          BY <4>2, <5>1, <2>2, <1>3, <1>4, <1>9
      <4>3. QED
        BY <4>1, <4>2, <2>2
    <3>3. Open \in SUBSET Nat /\ Open' \in SUBSET Open
      BY <2>2
    <3>4. \A s \in Members(slotA, header, Com.tx) : slotA[s].sum >= call[h1]
      BY <1>4, <1>10
    <3>5. QED
      BY <3>1, <3>2, <3>3, <3>4, <1>0, <1>1, <1>2, <1>4, PutCovers
  <2>4. QED
    BY <2>1, <2>3, <1>0, <1>1, <1>2 DEF CallWritten
<1>22. QED
  BY <1>11, <1>12, <1>13, <1>14, <1>15, <1>16, <1>17, <1>18, <1>19, <1>20, <1>21 DEF JInv

----------------------------------------------------------------------------
(* Every step, and what it means *)

\* Once a cut made mount skip recovery it stays so.
LEMMA SkippedStays ==
    ASSUME OneHart, [Next]_vars, skipped \in BOOLEAN
    PROVE  skipped' \in BOOLEAN /\ (skipped => skipped')
<1>1. ASSUME HartStep(h1) PROVE skipped' = skipped
  BY <1>1 DEF HartStep, TakeSeq, WriteDataA, WriteDataB, WriteHome, WriteCache, SealSeq, SealA, SealB,
              Commit, Begin, Read, Boot, StartReplay, Rebuild, ClearDirty, MarkDirty, Mounted, Start,
              Apply, Halt, WriteHeader, PowerDown, history
<1>2. ASSUME PowerCut PROVE skipped' = (skipped \/ HalfRecovered)
  BY <1>2 DEF PowerCut
<1>3. CASE UNCHANGED vars
  BY <1>3 DEF vars, history
<1>4. HalfRecovered \in BOOLEAN
  BY DEF HalfRecovered
<1>5. QED
  BY <1>1, <1>2, <1>3, <1>4 DEF Next, OneHart

LEMMA NextKeeps ==
    ASSUME OneHart, JInv, [Next]_vars, ~skipped'
    PROVE  JInv'
<1>1. ASSUME HartStep(h1) PROVE JInv'
  <2>1. CASE TakeSeq(h1) \/ WriteDataA(h1) \/ WriteDataB(h1) \/ WriteHome(h1) \/ WriteCache(h1)
    BY <2>1, StepTakeSeq, StepWriteDataA, StepWriteDataB, StepWriteHome, StepWriteCache
  <2>2. CASE SealSeq(h1) \/ SealA(h1) \/ SealB(h1) \/ Commit(h1)
    BY <2>2, StepSealSeq, StepSealA, StepSealB, StepCommit
  <2>3. CASE \E blocks \in Calls : Begin(h1, blocks)
    BY <2>3, StepBegin
  <2>4. CASE \E b \in Data : Read(h1, b)
    BY <2>4, StepRead
  <2>5. CASE Boot(h1) \/ StartReplay(h1) \/ Rebuild(h1) \/ ClearDirty(h1) \/ MarkDirty(h1) \/ Mounted(h1)
    BY <2>5, StepBoot, StepStartReplay, StepRebuild, StepClearDirty, StepMarkDirty, StepMounted
  <2>6. CASE \E r \in replay : Apply(h1, r)
    BY <2>6, StepApply
  <2>7. CASE Halt(h1) \/ WriteHeader(h1) \/ PowerDown(h1)
    BY <2>7, StepHalt, StepWriteHeader, StepPowerDown
  <2>8. QED
    BY <1>1, <2>1, <2>2, <2>3, <2>4, <2>5, <2>6, <2>7 DEF HartStep
<1>2. CASE PowerCut
  BY <1>2, StepPowerCut
<1>3. CASE UNCHANGED vars
  BY <1>3, StepStutter DEF vars, device, history
<1>4. QED
  BY <1>1, <1>2, <1>3 DEF Next, OneHart

\* On a machine that is up nothing is left to recover.
LEMMA UpIsFresh ==
    ASSUME OneHart, JInv
    PROVE  AckedSurvive
<1>1. SUFFICES ASSUME Up, NEW n \in acked, NEW b \in writes[n]
               PROVE  home[b] >= n
  BY DEF AckedSurvive
<1>2. Job \in {"up", "call"}
  BY <1>1 DEF Up, Job, OneHart
<1>3. QED
  BY <1>1, <1>2 DEF JInv, HomeFresh

\* What the invariant says of a machine with one hart.
Kept == skipped \in BOOLEAN /\ (~skipped => JInv)

LEMMA KeptStep ==
    ASSUME OneHart, Kept, [Next]_vars
    PROVE  Kept'
<1>1. skipped' \in BOOLEAN /\ (skipped => skipped')
  BY SkippedStays DEF Kept
<1>2. ASSUME ~skipped' PROVE JInv'
  BY <1>1, <1>2, NextKeeps DEF Kept
<1>3. QED
  BY <1>1, <1>2 DEF Kept

\* A call that returned survives every power cut, in any number and also during
\* recovery and shutdown, until one makes mount skip recovery (jnl.rs, disk.rs).
THEOREM JournalSurvives ==
    ASSUME OneHart
    PROVE  Spec => [](~skipped => AckedSurvive)
<1>1. Init => Kept
  BY JInit DEF Kept, Init
<1>2. Kept /\ [Next]_vars => Kept'
  BY KeptStep
<1>3. Kept => (~skipped => AckedSurvive)
  BY UpIsFresh DEF Kept
<1>4. QED
  BY <1>1, <1>2, <1>3, PTL DEF Spec

\* The same of the machines the run checks side by side, for any constants of theirs.
THEOREM CallsSurviveAlways ==
    ASSUME OneHart
    PROVE  JournalSpec => []CallsSurvive
<1> DEFINE Inv == part # "harts" => Kept
<1>1. JournalInit => Inv
  BY JInit DEF Kept, Init, JournalInit
<1>2. Inv /\ [WithCuts \/ CutAgain \/ WithHarts]_journalVars => Inv'
  <2>1. ASSUME Inv, WithCuts \/ CutAgain PROVE Inv'
    BY <2>1, KeptStep DEF WithCuts, CutAgain
  <2>2. ASSUME WithHarts PROVE Inv'
    BY <2>2 DEF WithHarts
  <2>3. ASSUME Inv, UNCHANGED journalVars PROVE Inv'
    BY <2>3, KeptStep DEF journalVars
  <2>4. QED
    BY <2>1, <2>2, <2>3
<1>3. Inv => CallsSurvive
  BY UpIsFresh DEF Kept, CallsSurvive
<1>4. QED
  BY <1>1, <1>2, <1>3, PTL DEF JournalSpec

----------------------------------------------------------------------------
(* The journal implements the durable store *)

\* What the durable store lets a block be.
StableHolds ==
    /\ Stable \in [Data -> 0 .. Len(writes)]
    /\ \A b \in Data : Stable[b] # 0 => b \in writes[Stable[b]]
    /\ \A n \in acked : \A b \in writes[n] : n <= Stable[b]

\* The records recovery would apply to block b now.
Found(b) == {r \in (IF Replays THEN ToReplay(header) ELSE {}) : r.lba = b}

\* The newest of them.
Newest(R) == CHOOSE r \in R : \A q \in R : q.seq <= r.seq

LEMMA StableIs ==
    /\ Stable = [b \in Data |-> IF Found(b) = {} THEN home[b] ELSE Newest(Found(b)).sum]
    /\ \A b \in Data : Stable[b] = IF Found(b) = {} THEN home[b] ELSE Newest(Found(b)).sum
<1>1. Stable = [b \in Data |-> IF Found(b) = {} THEN home[b] ELSE Newest(Found(b)).sum]
  BY DEF Stable, Found, Newest
<1>2. QED
  BY <1>1

\* Each of them is in the ring, in a transaction that recovery applies.
LEMMA FoundAreHolders ==
    ASSUME JInv, NEW b \in Data, NEW r \in Found(b)
    PROVE  /\ \E s \in Holders(slotA, slotB, header, b, {}) : r = slotA[s]
           /\ r.seq \in Nat /\ r.sum \in DOMAIN writes /\ b \in writes[r.sum]
<1>1. slotA \in [Slots -> AnyRec] /\ RingOK(slotA, slotB, header) /\ RecordsSane
  BY DEF JInv, Types
<1>2. r \in ToReplay(header) /\ r.lba = b
  BY DEF Found
<1>3. PICK s \in Live(slotA, header) :
        /\ r = slotA[s] /\ slotA[s].kind = "data" /\ slotA[s].sum = slotB[s]
        /\ slotA[s].tx = 0 \/ Intact(slotA, slotB, header, slotA[s].tx)
  BY <1>1, <1>2, RecoveryApplies
<1>4. s \in Slots /\ slotA[s].kind # "none" /\ slotA[s].lba \in Data
  BY <1>2, <1>3 DEF Live
<1>5. slotA[s].tx # 0 /\ slotA[s].sum \in DOMAIN writes /\ slotA[s].lba \in writes[slotA[s].sum]
  BY <1>1, <1>3, <1>4 DEF RecordsSane
<1>6. s \in Holders(slotA, slotB, header, b, {})
  BY <1>2, <1>3, <1>5 DEF Holders, InTx
<1>7. r.seq \in Nat
  BY <1>1, <1>3, <1>4 DEF AnyRec
<1>8. QED
  BY <1>2, <1>3, <1>5, <1>6, <1>7

\* And if recovery runs, every such record is found.
LEMMA HoldersAreFound ==
    ASSUME JInv, NEW b \in Data, NEW s \in Holders(slotA, slotB, header, b, {}), Replays
    PROVE  slotA[s] \in Found(b)
<1>1. slotA \in [Slots -> AnyRec] /\ RingOK(slotA, slotB, header)
  BY DEF JInv, Types
<1>2. /\ s \in Live(slotA, header) /\ slotA[s].kind = "data" /\ slotA[s].lba = b
      /\ Intact(slotA, slotB, header, slotA[s].tx)
  BY DEF Holders, InTx
<1>3. s \in Members(slotA, header, slotA[s].tx)
  BY <1>2 DEF Members
<1>4. slotA[s].sum = slotB[s]
  BY <1>1, <1>2, <1>3, IntactAreSound
<1>5. slotA[s] \in ToReplay(header)
  BY <1>1, <1>2, <1>4, RecoveryApplies
<1>6. QED
  BY <1>2, <1>5 DEF Found

\* The newest is one of them, and no older than any other is.
LEMMA NewestIsNewest ==
    ASSUME JInv, NEW b \in Data, Found(b) # {}
    PROVE  /\ Newest(Found(b)) \in Found(b)
           /\ \A s \in Holders(slotA, slotB, header, b, {}) :
                slotA[s] \in Found(b) => slotA[s].sum <= Newest(Found(b)).sum
<1> DEFINE R == Found(b)
<1> DEFINE seqs == {r.seq : r \in R}
<1>1. PICK n \in Nat : \A s \in Slots : slotA[s].seq <= n
  BY DEF JInv, Bounded
<1>2. \A r \in R : r.seq \in Nat /\ \E s \in Slots : r = slotA[s]
  BY FoundAreHolders DEF Holders, InTx, Live
<1>3. seqs \in SUBSET Nat /\ seqs # {} /\ \A q \in seqs : q <= n
  BY <1>1, <1>2
<1>4. PICK m \in seqs : \A q \in seqs : q <= m
  BY <1>3, GreatestExists
<1>5. \E r \in R : \A q \in R : q.seq <= r.seq
  BY <1>4
<1> DEFINE top == Newest(R)
<1>6. top \in R /\ \A q \in R : q.seq <= top.seq
  BY <1>5 DEF Newest
<1> HIDE DEF top
<1>7. ASSUME NEW s \in Holders(slotA, slotB, header, b, {}), slotA[s] \in R
      PROVE  slotA[s].sum <= top.sum
  <2>1. PICK d \in Holders(slotA, slotB, header, b, {}) : top = slotA[d]
    BY <1>6, FoundAreHolders
  <2>2. /\ s \in InTx(slotA, header) /\ slotA[s].kind = "data" /\ s \in Live(slotA, header)
        /\ d \in InTx(slotA, header) /\ slotA[d].kind = "data" /\ d \in Live(slotA, header)
    BY <1>7, <2>1 DEF Holders, InTx
  <2>3. slotA[s].seq <= slotA[d].seq /\ slotA[s].seq \in Nat /\ slotA[d].seq \in Nat
    BY <1>2, <1>6, <1>7, <2>1
  <2>4. slotA[s].sum \in Int /\ slotA[d].sum \in Int
    BY <2>2 DEF JInv, Types, Live, AnyRec
  <2>5. CASE slotA[s].seq < slotA[d].seq
    BY <2>1, <2>2, <2>5 DEF JInv, RingOK, Ordered
  <2>6. CASE slotA[s].seq = slotA[d].seq
    <3>1. s = d
      BY <2>2, <2>6 DEF JInv, RingOK, Placed
    <3>2. QED
      BY <3>1, <2>1, <2>4
  <2>7. QED
    BY <2>3, <2>5, <2>6
<1>8. QED
  BY <1>6, <1>7 DEF top

LEMMA StableSound ==
    ASSUME OneHart, JInv
    PROVE  StableHolds
<1>0. /\ writes \in Seq(SUBSET Data) /\ acked \subseteq DOMAIN writes /\ Len(writes) \in Nat
      /\ DOMAIN writes = 1 .. Len(writes)
  BY DEF JInv, Types
<1>1. ASSUME NEW b \in Data
      PROVE  Stable[b] \in 0 .. Len(writes) /\ (Stable[b] # 0 => b \in writes[Stable[b]])
  <2>1. CASE Found(b) = {}
    <3>1. Stable[b] = home[b]
      BY <2>1, StableIs
    <3>2. home[b] = 0 \/ (home[b] \in DOMAIN writes /\ b \in writes[home[b]])
      BY DEF JInv, HomeWritten
    <3>3. QED
      BY <3>1, <3>2, <1>0
  <2>2. CASE Found(b) # {}
    <3>1. Stable[b] = Newest(Found(b)).sum
      BY <2>2, StableIs
    <3>2. Newest(Found(b)) \in Found(b)
      BY <2>2, NewestIsNewest
    <3>3. Stable[b] \in DOMAIN writes /\ b \in writes[Stable[b]]
      BY <3>1, <3>2, FoundAreHolders
    <3>4. QED
      BY <3>3, <1>0
  <2>3. QED
    BY <2>1, <2>2
<1>2. ASSUME NEW n \in acked, NEW b \in writes[n]
      PROVE  n <= Stable[b]
  <2>1. b \in Data /\ n \in Nat
    BY <1>0
  <2>2. CASE Found(b) = {}
    <3>1. Stable[b] = home[b]
      BY <2>1, <2>2, StableIs
    <3>2. CASE home[b] >= n
      BY <3>1, <3>2
    <3>3. CASE Job \in {"off", "init"} /\ Holders(slotA, slotB, header, b, {}) # {}
      <4>1. PICK s \in Holders(slotA, slotB, header, b, {}) : s \in InTx(slotA, header)
        BY <3>3 DEF Holders
      <4>2. Replays
        BY <3>3, <4>1 DEF JInv, Flagged, Replays
      <4>3. QED
        BY <4>1, <4>2, <2>1, <2>2, HoldersAreFound
    <3>4. CASE Job = "replay" /\ \E r \in replay : r.lba = b /\ r.sum >= n
      <4>1. PICK r \in replay : r.lba = b
        BY <3>4
      <4>2. r \in ToReplay(header)
        BY <3>4, <4>1 DEF JInv, Replayed
      <4>3. Replays
        BY <3>4 DEF Replays, Job, OneHart
      <4>4. QED
        BY <4>1, <4>2, <4>3, <2>2 DEF Found
    <3>5. QED
      BY <3>2, <3>3, <3>4 DEF JInv, HomeFresh
  <2>3. CASE Found(b) # {}
    <3>1. Stable[b] = Newest(Found(b)).sum /\ Replays
      BY <2>1, <2>3, StableIs DEF Found
    <3>2. Holders(slotA, slotB, header, b, {}) # {}
      BY <2>1, <2>3, FoundAreHolders
    <3>3. PICK s \in Holders(slotA, slotB, header, b, {}) : slotA[s].sum >= n
      BY <3>2 DEF JInv, AckedCovered, Covers
    <3>4. slotA[s].sum <= Newest(Found(b)).sum
      BY <3>1, <2>1, <2>3, HoldersAreFound, NewestIsNewest
    <3>5. Stable[b] \in Nat /\ slotA[s].sum \in Int
      BY <1>1, <2>1, <1>0 DEF Holders, InTx, Live, JInv, Types, AnyRec
    <3>6. QED
      BY <3>1, <3>3, <3>4, <3>5, <2>1
  <2>4. QED
    BY <2>2, <2>3
<1>3. Stable \in [Data -> 0 .. Len(writes)]
  <2>1. Stable = [b \in Data |-> Stable[b]]
    BY StableIs
  <2>2. QED
    BY <2>1, <1>1
<1>4. QED
  BY <1>1, <1>2, <1>3 DEF StableHolds

\* What a step must leave alone for recovery to find the same.
LEMMA StableFrame ==
    ASSUME UNCHANGED <<home, slotA, header>>, Valid(header)' = Valid(header), Replays' = Replays
    PROVE  Stable' = Stable
<1>1. SlotsOfGen(header)' = SlotsOfGen(header)
  BY DEF SlotsOfGen
<1>2. \A t : Commits(header, t)' = Commits(header, t)
  BY <1>1 DEF Commits
<1>3. ASSUME NEW t PROVE Complete(header, t)' = Complete(header, t)
  BY <1>2, Zenon DEF Complete
<1>4. ToReplay(header)' = ToReplay(header)
  BY <1>3 DEF ToReplay
<1>5. \A b : Found(b)' = Found(b)
  BY <1>4 DEF Found
<1>6. ASSUME NEW b PROVE Newest(Found(b))' = Newest(Found(b))
  BY <1>5, Zenon DEF Newest
<1>7. Stable' = [b \in Data |-> IF Found(b)' = {} THEN home'[b] ELSE Newest(Found(b))'.sum]
  BY DEF Stable, Found, Newest
<1>8. QED
  BY <1>5, <1>6, <1>7, StableIs

\* A step of which the calls see nothing.
LEMMA Settles ==
    ASSUME UNCHANGED <<writes, acked>>, StableHolds', writes \in Seq(SUBSET Data)
    PROVE  Store!Next
<1>1. Stable' \in [Data -> 0 .. Len(writes)]
  BY DEF StableHolds
<1>2. ASSUME NEW b \in Data PROVE Store!Holds(b, Stable'[b])
  BY DEF StableHolds, Store!Holds
<1>3. Store!Settle
  BY <1>1, <1>2 DEF Store!Settle
<1>4. QED
  BY <1>3 DEF Store!Next

\* The step with which the call of the hart returns.
LEMMA Returns ==
    ASSUME OneHart, JInv, Job = "call", StableHolds', Stable' = Stable, UNCHANGED writes,
           acked' = acked \cup {call[h1]}
    PROVE  Store!Next
<1>1. call[h1] \in DOMAIN writes \ acked
  BY DEF JInv, Types, Control
<1>2. \A b \in writes[call[h1]] : Stable[b] >= call[h1]
  <2>1. call[h1] \in acked'
    OBVIOUS
  <2>2. ASSUME NEW b \in writes[call[h1]] PROVE call[h1] <= Stable[b]
    BY <2>1, <2>2 DEF StableHolds
  <2>3. QED
    BY <2>2
<1>3. Store!Return(call[h1])
  BY <1>1, <1>2 DEF Store!Return
<1>4. QED
  BY <1>1, <1>3 DEF Store!Next

LEMMA BeginStarts ==
    ASSUME OneHart, NEW blocks \in Calls, Begin(h1, blocks)
    PROVE  Store!Next
<1> DEFINE mine == {blocks[i] : i \in DOMAIN blocks}
<1>1. /\ UNCHANGED <<home, slotA, slotB, header, acked>> /\ writes' = Append(writes, mine)
      /\ job[h1] = "up" /\ job' = [job EXCEPT ![h1] = "call"]
  BY DEF Begin, device
<1>2. mine \in SUBSET Data
  BY JournalAssumption
<1>3. Replays' = Replays
  BY <1>1 DEF Replays, OneHart
<1>4. Valid(header)' = Valid(header)
  BY <1>1 DEF Valid, SlotsOfGen
<1>5. Stable' = Stable
  BY <1>1, <1>3, <1>4, StableFrame
<1>6. Store!Start(mine)
  BY <1>1, <1>5 DEF Store!Start
<1>7. QED
  BY <1>2, <1>6 DEF Store!Next

LEMMA SealBReturns ==
    ASSUME OneHart, JInv, SealB(h1), StableHolds'
    PROVE  Store!Next
<1>0. writes \in Seq(SUBSET Data)
  BY DEF JInv, Types
<1>1. /\ UNCHANGED <<home, slotA, header, writes>> /\ pc[h1] = "sealB"
      /\ slotB' = [slotB EXCEPT ![Slot(Com)] = Zeros]
      /\ IF Own # NoRec THEN UNCHANGED <<acked, job, call>> ELSE Return(h1)
  BY DEF SealB, Goto, Own, Com
<1>2. CASE Own # NoRec
  BY <1>0, <1>1, <1>2, Settles
<1>3. CASE Own = NoRec
  <2>1. /\ acked' = acked \cup {call[h1]} /\ job' = [job EXCEPT ![h1] = "up"]
    BY <1>1, <1>3 DEF Return
  <2>2. Pc = "sealB" /\ Job \in Jobs /\ job \in [Harts -> Jobs] /\ slotB \in [Slots -> Int]
    BY <1>1, HartTypes DEF Pc, JInv, Types
  <2>3. Job = "call"
    BY <2>2 DEF JInv, Control, Jobs, Writing
  <2>4. Replays' = Replays
    BY <1>1, <2>1, <2>2, <2>3 DEF Replays, OneHart, Job
  <2>5. Counting
    BY <2>2, <2>3 DEF Counting
  <2>6. slotA[Slot(Com)] = Com /\ Com.kind = "commit"
    BY <2>2, <2>5 DEF JInv, Numbers, Work, Sealing
  <2>7. \A s \in Slots : slotA[s].kind = "data" => slotB'[s] = slotB[s]
    BY <1>1, <2>2, <2>6
  <2>8. Valid(header)' = Valid(header)
    BY <1>1, <2>7 DEF Valid, SlotsOfGen
  <2>9. Stable' = Stable
    BY <1>1, <2>4, <2>8, StableFrame
  <2>10. QED
    BY <1>1, <2>1, <2>3, <2>9, Returns
<1>4. QED
  BY <1>2, <1>3

LEMMA CommitReturns ==
    ASSUME OneHart, JInv, Commit(h1), StableHolds'
    PROVE  Store!Next
<1>0. writes \in Seq(SUBSET Data)
  BY DEF JInv, Types
<1>1. /\ UNCHANGED <<home, slotA, slotB, header, writes>> /\ pc[h1] = "commit"
      /\ IF jlog.depth = 1 /\ jlog.count > 0 THEN UNCHANGED <<acked, job, call>> ELSE Return(h1)
  BY DEF Commit, Goto, device
<1>2. CASE jlog.depth = 1 /\ jlog.count > 0
  BY <1>0, <1>1, <1>2, Settles
<1>3. CASE ~(jlog.depth = 1 /\ jlog.count > 0)
  <2>1. /\ acked' = acked \cup {call[h1]} /\ job' = [job EXCEPT ![h1] = "up"]
    BY <1>1, <1>3 DEF Return
  <2>2. Pc = "commit" /\ Job \in Jobs /\ job \in [Harts -> Jobs]
    BY <1>1, HartTypes DEF Pc, JInv, Types
  <2>3. Job = "call"
    BY <2>2 DEF JInv, Control, Jobs, Writing
  <2>4. Replays' = Replays
    BY <1>1, <2>1, <2>2, <2>3 DEF Replays, OneHart, Job
  <2>5. Valid(header)' = Valid(header)
    BY <1>1 DEF Valid, SlotsOfGen
  <2>6. Stable' = Stable
    BY <1>1, <2>4, <2>5, StableFrame
  <2>7. QED
    BY <1>1, <2>1, <2>3, <2>6, Returns
<1>4. QED
  BY <1>2, <1>3

\* Every step is one of the store, or invisible to it.
LEMMA StepImplements ==
    ASSUME OneHart, JInv, [Next]_vars, ~skipped', StableHolds'
    PROVE  Store!Next
<1>0. writes \in Seq(SUBSET Data)
  BY DEF JInv, Types
<1>1. ASSUME HartStep(h1), ~SealB(h1), ~Commit(h1), ~\E blocks \in Calls : Begin(h1, blocks)
      PROVE  UNCHANGED <<writes, acked>>
  BY <1>1 DEF HartStep, TakeSeq, WriteDataA, WriteDataB, WriteHome, WriteCache, SealSeq, SealA,
              Read, Boot, StartReplay, Rebuild, ClearDirty, MarkDirty, Mounted, Start,
              Apply, Halt, WriteHeader, PowerDown, history
<1>2. CASE HartStep(h1)
  BY <1>0, <1>1, <1>2, Settles, SealBReturns, CommitReturns, BeginStarts
<1>3. CASE PowerCut
  BY <1>0, <1>3, Settles DEF PowerCut
<1>4. CASE UNCHANGED vars
  BY <1>0, <1>4, Settles DEF vars, history
<1>5. QED
  BY <1>2, <1>3, <1>4 DEF Next, OneHart

LEMMA InitImplements ==
    ASSUME Init
    PROVE  Store!Init
<1>1. ToReplay(header) = {}
  BY DEF Init, ToReplay, Valid, SlotsOfGen, NoRec
<1>2. \A b : Found(b) = {}
  BY <1>1 DEF Found
<1>3. \A b \in Data : home[b] = 0
  BY JournalAssumption DEF Init, Blocks, Zeros
<1>4. Stable = [b \in Data |-> 0]
  BY <1>2, <1>3, StableIs
<1>5. QED
  BY <1>4 DEF Init, Store!Init

\* Refinement: with one hart the journal, the blocks and recovery together are a durable
\* store, across any number of power cuts, until one makes mount skip recovery.
THEOREM JournalIsDurableStore ==
    ASSUME OneHart
    PROVE  Spec => IsDurableStore
<1>1. Init => Kept /\ Store!Init
  BY JInit, InitImplements DEF Kept, Init
<1>2. Kept /\ [Next]_vars => Kept'
  BY KeptStep
<1>3. Kept => (skipped \in BOOLEAN /\ (~skipped => JInv /\ StableHolds))
  BY StableSound DEF Kept
<1>4. Kept' => (skipped \in BOOLEAN /\ (~skipped => JInv /\ StableHolds))'
  BY <1>3, PTL
<1>5. Kept /\ [Next]_vars => [~skipped' => Store!Next]_<<vars, Stable>>
  <2>1. SUFFICES ASSUME Kept, [Next]_vars, ~skipped' PROVE Store!Next
    OBVIOUS
  <2>2. JInv /\ StableHolds'
    BY <2>1, <1>2, <1>4, SkippedStays DEF Kept
  <2>3. QED
    BY <2>1, <2>2, StepImplements
<1>6. QED
  BY <1>1, <1>2, <1>5, PTL DEF Spec, IsDurableStore

\* Refinement: the same of the machines the run checks side by side.
THEOREM PromiseIsKept ==
    ASSUME OneHart
    PROVE  JournalSpec => KeepsThePromise
<1> DEFINE Inv == part # "harts" => Kept
<1> DEFINE Step == WithCuts \/ CutAgain \/ WithHarts
<1>1. JournalInit => Inv /\ (part # "harts" => Store!Init)
  BY JInit, InitImplements DEF Kept, Init, JournalInit
<1>2. ASSUME Inv, [Step]_journalVars, part # "harts"
      PROVE  part' # "harts" /\ Kept /\ Kept' /\ [Next]_vars
  BY <1>2, KeptStep DEF WithCuts, CutAgain, WithHarts, journalVars
<1>3. Inv /\ [Step]_journalVars => Inv'
  <2>1. part = "harts" /\ [Step]_journalVars => part' = "harts"
    BY DEF WithCuts, CutAgain, WithHarts, journalVars
  <2>2. QED
    BY <1>2, <2>1
<1>4. Kept => (skipped \in BOOLEAN /\ (~skipped => JInv /\ StableHolds))
  BY StableSound DEF Kept
<1>5. Kept' => (skipped \in BOOLEAN /\ (~skipped => JInv /\ StableHolds))'
  BY <1>4, PTL
<1>6. Inv /\ [Step]_journalVars
        => [part # "harts" /\ ~skipped' => Store!Next]_<<journalVars, Stable>>
  <2>1. SUFFICES ASSUME Inv, [Step]_journalVars, part # "harts", ~skipped' PROVE Store!Next
    OBVIOUS
  <2>2. JInv /\ StableHolds' /\ [Next]_vars
    BY <2>1, <1>2, <1>5, SkippedStays DEF Kept
  <2>3. QED
    BY <2>1, <2>2, StepImplements
<1>7. QED
  BY <1>1, <1>3, <1>6, PTL DEF JournalSpec, KeepsThePromise

----------------------------------------------------------------------------
(* What recovery relies on *)

LEMMA RecordsAreFresh ==
    ASSUME OneHart, JInv
    PROVE  NextIsFresh /\ CommitCountsMembers
<1> USE Sizes
<1>0. /\ Types /\ Control /\ Work /\ Numbers /\ RecordsSane /\ RingOK(slotA, slotB, header)
  BY DEF JInv
<1>1. /\ Pc \in Points /\ Job \in Jobs /\ Own.seq \in Nat /\ Com.seq \in Nat /\ jlog.next \in Nat
      /\ jlog.gen \in Nat /\ header \in Nat
      /\ \A s \in Slots : slotA[s].seq \in Nat /\ slotA[s].gen \in Nat
  BY <1>0, HartTypes DEF Types
<1>2. CASE ~Counting
  <2>1. jlog.gen = 0 \/ jlog.gen = header + 1
    BY <1>0, <1>2 DEF Control, Counting, FreshLog
  <2>2. ASSUME NEW s \in Slots, slotA[s].kind # "none" PROVE slotA[s].gen # jlog.gen
    <3>1. slotA[s].gen >= 1 /\ slotA[s].gen <= header
      BY <1>0, <2>2 DEF RecordsSane
    <3>2. QED
      BY <2>1, <3>1, <1>1
  <2>3. SlotsOfGen(jlog.gen) = {}
    BY <2>2 DEF SlotsOfGen
  <2>4. QED
    BY <2>2, <2>3 DEF NextIsFresh, CommitCountsMembers, OneHart
<1>3. CASE Counting
  <2>1. jlog.gen = header
    BY <1>0, <1>3 DEF Control, Counting
  <2>2. SlotsOfGen(jlog.gen) = Live(slotA, header)
    BY <2>1 DEF SlotsOfGen, Live
  <2>3. ASSUME NEW s \in Live(slotA, header) PROVE slotA[s].seq < jlog.next
    <3>0. slotA[s].seq \in Nat
      BY <1>1 DEF Live
    <3>1. CASE Pc = "dataA" \/ (Pc = "sealB" /\ Valve)
      <4>1. CASE ValveSealed
        BY <4>1, <3>0, <1>1 DEF ValveSealed
      <4>2. CASE ~ValveSealed
        BY <4>2, <3>1, <3>0, <1>0, <1>1, <1>3 DEF Numbers
      <4>3. QED
        BY <4>1, <4>2
    <3>2. CASE ~(Pc = "dataA" \/ (Pc = "sealB" /\ Valve))
      <4>1. slotA[s].seq < Low
        BY <3>2, <1>0, <1>3 DEF Numbers
      <4>2. CASE Valve
        <5>1. Pc \in {"sealSeq", "sealA"} /\ Low = Own.seq
          BY <3>2, <4>2 DEF Valve, Sealing, Low
        <5>2. jlog.next = Own.seq + 1 \/ jlog.next = Own.seq + 2
          BY <5>1, <4>2, <1>0, <1>3 DEF Numbers
        <5>3. QED
          BY <5>1, <5>2, <4>1, <3>0, <1>1
      <4>3. CASE ~Valve
        <5>1. Low = IF Pc = "sealA" THEN Com.seq ELSE jlog.next
          BY <3>2, <4>3 DEF Low
        <5>2. Pc = "sealA" => jlog.next = Com.seq + 1
          BY <4>3, <1>0, <1>3 DEF Numbers
        <5>3. QED
          BY <5>1, <5>2, <4>1, <3>0, <1>1
      <4>4. QED
        BY <4>2, <4>3
    <3>3. QED
      BY <3>1, <3>2
  <2>4. ASSUME NEW c \in Slots, slotA[c].kind = "commit", slotA[c].gen = header
        PROVE  Cardinality({d \in Slots : /\ slotA[d].kind = "data"
                                          /\ slotA[d].gen = header
                                          /\ slotA[d].tx = slotA[c].tx}) <= slotA[c].sum
    <3>1. \A d \in Slots : slotA[d].kind # "none" => slotA[d].seq >= 1
      BY <1>0 DEF RecordsSane
    <3>2. c \in InTx(slotA, header)
      BY <2>4, <3>1, <1>0 DEF RecordsSane, InTx, Live
    <3>3. {d \in Slots : slotA[d].kind = "data" /\ slotA[d].gen = header /\ slotA[d].tx = slotA[c].tx}
            = Members(slotA, header, slotA[c].tx)
      BY <3>1 DEF Members, Live
    <3>4. Cardinality(Members(slotA, header, slotA[c].tx)) <= slotA[c].sum
      BY <2>4, <3>2, <1>0 DEF RingOK, Spans
    <3>5. QED
      BY <3>3, <3>4
  <2>5. NextIsFresh
    BY <2>2, <2>3 DEF NextIsFresh, OneHart
  <2>6. CommitCountsMembers
    BY <2>1, <2>4 DEF CommitCountsMembers
  <2>7. QED
    BY <2>5, <2>6
<1>4. QED
  BY <1>2, <1>3

\* No number is handed out again while its record is in the ring (max_seq), and no commit
\* counts fewer records than its transaction has there: on one hart, also when the ring
\* wraps and a valve opens, until a cut makes mount skip recovery.
THEOREM RecordsStayFresh ==
    ASSUME OneHart
    PROVE  Spec => [](~skipped => NextIsFresh /\ CommitCountsMembers)
<1>1. Init => Kept
  BY JInit DEF Kept, Init
<1>2. Kept /\ [Next]_vars => Kept'
  BY KeptStep
<1>3. Kept => (~skipped => NextIsFresh /\ CommitCountsMembers)
  BY RecordsAreFresh DEF Kept
<1>4. QED
  BY <1>1, <1>2, <1>3, PTL DEF Spec

----------------------------------------------------------------------------
(* The promise: what a durable store does, whatever implements it *)

VARIABLE store  \* the blocks of any durable store, of which writes and acked are the calls

Promise == INSTANCE DurableStore WITH stable <- store

\* A call that returned has a number that was given out: else the next call
\* would be counted as returned from its start.
PromiseInv == Promise!TypeOK /\ Promise!AckedAreThere

\* Only Return adds to the calls that returned, only Settle moves blocks, and
\* Start must not change what an older call wrote.
LEMMA PromiseStep == PromiseInv /\ [Promise!Next]_Promise!vars => PromiseInv'
<1> SUFFICES ASSUME PromiseInv, [Promise!Next]_Promise!vars PROVE PromiseInv'
  OBVIOUS
<1> USE DEF PromiseInv, Promise!TypeOK, Promise!AckedAreThere
<1>1. ASSUME NEW blocks \in SUBSET Data, Promise!Start(blocks) PROVE PromiseInv'
  <2>1. writes' \in Seq(SUBSET Data) /\ DOMAIN writes \subseteq DOMAIN writes'
    BY <1>1 DEF Promise!Start
  <2>2. \A n \in DOMAIN writes : writes'[n] = writes[n]
    BY <1>1 DEF Promise!Start
  <2> QED
    BY <1>1, <2>1, <2>2 DEF Promise!Start
<1>2. ASSUME Promise!Settle PROVE PromiseInv'
  <2>1. /\ store' \in [Data -> 0 .. Len(writes)]
        /\ \A b \in Data : Promise!Holds(b, store'[b])
    BY <1>2 DEF Promise!Settle
  <2>2. store' \in [Data -> Nat]
    BY <2>1
  <2>3. \A n \in acked : \A b \in writes[n] : b \in Data /\ n \in Nat
    OBVIOUS
  <2>4. \A n \in acked : \A b \in writes[n] : store'[b] >= n
    BY <2>1, <2>2, <2>3 DEF Promise!Holds
  <2> QED
    BY <1>2, <2>2, <2>4 DEF Promise!Settle
<1>3. ASSUME NEW n \in DOMAIN writes, Promise!Return(n) PROVE PromiseInv'
  BY <1>3 DEF Promise!Return
<1>4. CASE UNCHANGED Promise!vars
  BY <1>4 DEF Promise!vars
<1> QED
  BY <1>1, <1>2, <1>3, <1>4 DEF Promise!Next

\* Of any durable store: a call that returned is found after any number of power cuts.
THEOREM DurableHolds == Promise!Spec => []Promise!AckedAreThere
<1>1. Promise!Init => PromiseInv
  BY DEF Promise!Init, PromiseInv, Promise!TypeOK, Promise!AckedAreThere
<1>2. PromiseInv => Promise!AckedAreThere
  BY DEF PromiseInv
<1> QED
  BY <1>1, <1>2, PromiseStep, PTL DEF Promise!Spec

============================================================================
