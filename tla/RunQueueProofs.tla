--------------------------- MODULE RunQueueProofs ---------------------------
(***************************************************************************)
(* RunQueue, for any number of harts, tasks, groups and entries and any    *)
(* stash: what the two passes do to the queues, that no entry is lost or   *)
(* doubled by them, that caps come first and that a hart idles only when   *)
(* every queue is empty.  The scans are recursive functions over the       *)
(* entries; each is shown to exist and then to keep what a scan promises.  *)
(***************************************************************************)
EXTENDS RunQueue, SequenceTheorems, NaturalsInduction, WellFoundedInduction, TLAPS

----------------------------------------------------------------------------
(* Functions that are defined step by step *)

NatOrder == {x \in Nat \X Nat : x[1] < x[2]}

LEMMA LeastOf ==
    ASSUME NEW S \in SUBSET Nat, S # {}
    PROVE  \E m \in S : \A k \in S : m <= k
<1>1. IsWellFoundedOn(NatOrder, Nat)
  BY NatLessThanWellFounded DEF OpToRel, NatOrder
<1>2. PICK m \in S : \A y \in S : <<y, m>> \notin NatOrder
  BY <1>1, WFMin
<1>3. ASSUME NEW y \in S, y < m PROVE FALSE
  <2>1. <<y, m>> \in Nat \X Nat /\ <<y, m>>[1] < <<y, m>>[2]
    BY <1>3
  <2> QED BY <2>1, <1>2 DEF NatOrder
<1> QED BY <1>3

\* Induction over an interval, on the set of numbers of which something holds.
LEMMA UpTo ==
    ASSUME NEW a \in Nat, NEW n \in Nat, NEW B, a \in B,
           \A k \in a .. n : k \in B /\ k < n => k + 1 \in B
    PROVE  \A k \in a .. n : k \in B
<1> DEFINE Bad == {k \in a .. n : k \notin B}
<1>1. SUFFICES ASSUME Bad # {} PROVE FALSE
  OBVIOUS
<1>2. Bad \in SUBSET Nat
  OBVIOUS
<1>3. PICK m \in Bad : \A k \in Bad : m <= k
  BY <1>1, <1>2, LeastOf
<1>4. m \in a .. n /\ m \notin B /\ m # a
  OBVIOUS
<1>5. m - 1 \in a .. n /\ m - 1 < n /\ (m - 1) + 1 = m /\ ~(m <= m - 1)
  BY <1>4
<1>6. m - 1 \notin Bad
  BY <1>3, <1>5
<1> QED BY <1>4, <1>5, <1>6

Steps(a, n, S) == [a + 1 .. n -> [S -> S]]

Follows(f, a, n, S, c, step) ==
    f \in [a .. n -> S] /\ f[a] = c /\ \A i \in a + 1 .. n : f[i] = step[i][f[i - 1]]

\* What is defined from the value before it, from a on, exists.
LEMMA Iterates ==
    ASSUME NEW a \in Nat, NEW n \in Nat, a <= n, NEW S, NEW c \in S, NEW step, step \in Steps(a, n, S)
    PROVE  \E f : Follows(f, a, n, S, c, step)
<1>0. step \in [a + 1 .. n -> [S -> S]]
  BY DEF Steps
<1> DEFINE Good(k) == \E f \in [a .. k -> S] : f[a] = c /\ \A i \in a + 1 .. k : f[i] = step[i][f[i - 1]]
           B == {k \in a .. n : Good(k)}
<1>1. a \in B
  <2> DEFINE f == [i \in a .. a |-> c]
  <2>1. f \in [a .. a -> S] /\ f[a] = c /\ \A i \in a + 1 .. a : FALSE
    OBVIOUS
  <2>2. Good(a)
    BY <2>1
  <2> QED BY <2>2
<1>2. ASSUME NEW k \in a .. n, k \in B, k < n PROVE k + 1 \in B
  <2>1. PICK f \in [a .. k -> S] : f[a] = c /\ \A i \in a + 1 .. k : f[i] = step[i][f[i - 1]]
    BY <1>2
  <2>0. k \in Nat /\ a <= k /\ k \in a .. k /\ k + 1 \in a + 1 .. n
    BY <1>2
  <2> DEFINE e == step[k + 1][f[k]]
             g == [i \in a .. k + 1 |-> IF i = k + 1 THEN e ELSE f[i]]
  <2>2. e \in S
    BY <2>0, <2>1, <1>0
  <2> HIDE DEF e
  <2>3. g \in [a .. k + 1 -> S] /\ g[k + 1] = e /\ \A i \in a .. k : g[i] = f[i]
    BY <2>0, <2>1, <2>2
  <2> HIDE DEF g
  <2>4. ASSUME NEW i \in a + 1 .. k + 1 PROVE g[i] = step[i][g[i - 1]]
    <3>1. CASE i = k + 1
      <4>1. i - 1 = k /\ g[i - 1] = f[k]
        BY <2>0, <2>3, <3>1
      <4> QED BY <2>3, <3>1, <4>1 DEF e
    <3>2. CASE i # k + 1
      <4>1. i \in a + 1 .. k /\ i \in a .. k /\ i - 1 \in a .. k
        BY <2>0, <3>2
      <4> QED BY <2>1, <2>3, <4>1
    <3> QED BY <3>1, <3>2
  <2>5. g[a] = c
    BY <2>0, <2>1, <2>3
  <2>6. Good(k + 1)
    BY <2>3, <2>4, <2>5
  <2>7. k + 1 \in a .. n
    BY <2>0
  <2> QED BY <2>6, <2>7
<1> HIDE DEF Good
<1>3. \A k \in a .. n : k \in B
  BY <1>1, <1>2, UpTo
<1>4. n \in a .. n
  OBVIOUS
<1> QED BY <1>3, <1>4 DEF Good, Follows

----------------------------------------------------------------------------
(* Sequences as sets *)

LEMMA OneMore ==
    ASSUME NEW T, NEW s \in Seq(T), NEW x \in T
    PROVE  /\ Append(s, x) \in Seq(T) /\ ToSet(Append(s, x)) = ToSet(s) \cup {x}
           /\ IsInjective(s) /\ x \notin ToSet(s) => IsInjective(Append(s, x))
<1> DEFINE a == Append(s, x)
<1>1. /\ a \in Seq(T) /\ Len(a) = Len(s) + 1 /\ a[Len(s) + 1] = x /\ Len(s) \in Nat
      /\ \A i \in 1 .. Len(s) : a[i] = s[i]
  OBVIOUS
<1> HIDE DEF a
<1>2. DOMAIN a = 1 .. Len(s) + 1 /\ DOMAIN s = 1 .. Len(s)
  BY <1>1
<1>3. \A i \in 1 .. Len(s) + 1 : i \in 1 .. Len(s) \/ i = Len(s) + 1
  BY <1>1
<1>4. ToSet(a) = ToSet(s) \cup {x}
  <2>1. \A y \in ToSet(a) : y \in ToSet(s) \cup {x}
    BY <1>1, <1>2, <1>3 DEF ToSet
  <2>2. \A y \in ToSet(s) \cup {x} : y \in ToSet(a)
    BY <1>1, <1>2 DEF ToSet
  <2> QED BY <2>1, <2>2
<1>5. ASSUME IsInjective(s), x \notin ToSet(s) PROVE IsInjective(a)
  <2>1. \A i \in 1 .. Len(s) : a[i] \in ToSet(s)
    BY <1>1, <1>2 DEF ToSet
  <2>2. ASSUME NEW i \in 1 .. Len(s) + 1, NEW j \in 1 .. Len(s) + 1, a[i] = a[j] PROVE i = j
    BY <2>1, <2>2, <1>1, <1>2, <1>3, <1>5 DEF IsInjective
  <2> QED BY <2>2, <1>2 DEF IsInjective
<1> QED BY <1>1, <1>4, <1>5 DEF a

LEMMA Joined ==
    ASSUME NEW T, NEW s \in Seq(T), NEW t \in Seq(T)
    PROVE  /\ s \o t \in Seq(T) /\ ToSet(s \o t) = ToSet(s) \cup ToSet(t)
           /\ IsInjective(s) /\ IsInjective(t) /\ ToSet(s) \cap ToSet(t) = {} => IsInjective(s \o t)
<1> DEFINE a == s \o t
<1>1. /\ a \in Seq(T) /\ Len(a) = Len(s) + Len(t) /\ Len(s) \in Nat /\ Len(t) \in Nat
      /\ \A i \in 1 .. Len(s) : a[i] = s[i]
      /\ \A i \in 1 .. Len(t) : a[Len(s) + i] = t[i]
  OBVIOUS
<1> HIDE DEF a
<1>2. DOMAIN a = 1 .. Len(s) + Len(t) /\ DOMAIN s = 1 .. Len(s) /\ DOMAIN t = 1 .. Len(t)
  BY <1>1
<1>3. ASSUME NEW i \in DOMAIN a
      PROVE  i \in 1 .. Len(s) \/ (i - Len(s) \in 1 .. Len(t) /\ Len(s) + (i - Len(s)) = i)
  BY <1>1, <1>2
<1>4. ToSet(a) = ToSet(s) \cup ToSet(t)
  <2>1. \A y \in ToSet(a) : y \in ToSet(s) \cup ToSet(t)
    BY <1>1, <1>2, <1>3 DEF ToSet
  <2>2. \A i \in 1 .. Len(t) : Len(s) + i \in DOMAIN a
    BY <1>1, <1>2
  <2>3. ASSUME NEW y \in ToSet(s) PROVE y \in ToSet(a)
    <3>1. PICK i \in 1 .. Len(s) : y = s[i]
      BY <1>2 DEF ToSet
    <3>2. i \in DOMAIN a /\ a[i] = y
      BY <3>1, <1>1, <1>2
    <3> QED BY <3>2 DEF ToSet
  <2>4. ASSUME NEW y \in ToSet(t) PROVE y \in ToSet(a)
    <3>1. PICK i \in 1 .. Len(t) : y = t[i]
      BY <1>2 DEF ToSet
    <3>2. Len(s) + i \in DOMAIN a /\ a[Len(s) + i] = y
      BY <3>1, <1>1, <2>2
    <3> QED BY <3>2 DEF ToSet
  <2> QED BY <2>1, <2>3, <2>4
<1>5. ASSUME IsInjective(s), IsInjective(t), ToSet(s) \cap ToSet(t) = {} PROVE IsInjective(a)
  <2>1. /\ \A i \in 1 .. Len(s) : a[i] \in ToSet(s)
        /\ \A i \in 1 .. Len(t) : t[i] \in ToSet(t)
    BY <1>1, <1>2 DEF ToSet
  <2>2. ASSUME NEW i \in DOMAIN a, NEW j \in DOMAIN a, a[i] = a[j] PROVE i = j
    <3>1. CASE i \in 1 .. Len(s) /\ j \in 1 .. Len(s)
      BY <2>2, <3>1, <1>1, <1>2, <1>5 DEF IsInjective
    <3>2. CASE i \in 1 .. Len(s) /\ j \notin 1 .. Len(s)
      <4>1. a[j] \in ToSet(t)
        BY <3>2, <1>1, <1>3, <2>1
      <4> QED BY <4>1, <2>1, <2>2, <3>2, <1>5
    <3>3. CASE i \notin 1 .. Len(s) /\ j \in 1 .. Len(s)
      <4>1. a[i] \in ToSet(t)
        BY <3>3, <1>1, <1>3, <2>1
      <4> QED BY <4>1, <2>1, <2>2, <3>3, <1>5
    <3>4. CASE i \notin 1 .. Len(s) /\ j \notin 1 .. Len(s)
      <4>1. /\ i - Len(s) \in 1 .. Len(t) /\ Len(s) + (i - Len(s)) = i
            /\ j - Len(s) \in 1 .. Len(t) /\ Len(s) + (j - Len(s)) = j
        BY <3>4, <1>3
      <4>2. a[i] = t[i - Len(s)] /\ a[j] = t[j - Len(s)]
        BY <4>1, <1>1
      <4>3. i - Len(s) = j - Len(s)
        BY <4>1, <4>2, <2>2, <1>2, <1>5 DEF IsInjective
      <4> QED BY <4>1, <4>3
    <3> QED BY <3>1, <3>2, <3>3, <3>4
  <2> QED BY <2>2 DEF IsInjective
<1> QED BY <1>1, <1>4, <1>5 DEF a

\* The sequence without an element, and without its first.
LEMMA EmptyIs == ToSet(<<>>) = {} /\ IsInjective(<<>>) /\ \A T : <<>> \in Seq(T)
BY DEF ToSet, IsInjective

LEMMA Without ==
    ASSUME NEW T, NEW s \in Seq(T), s # <<>>, IsInjective(s)
    PROVE  /\ s[1] \in T /\ SubSeq(s, 2, Len(s)) \in Seq(T) /\ IsInjective(SubSeq(s, 2, Len(s)))
           /\ s[1] \in ToSet(s) /\ ToSet(SubSeq(s, 2, Len(s))) = ToSet(s) \ {s[1]}
<1> DEFINE a == SubSeq(s, 2, Len(s))
<1>1. /\ a \in Seq(T) /\ Len(a) = Len(s) - 1 /\ Len(s) \in Nat /\ Len(s) >= 1
      /\ \A i \in 1 .. Len(s) - 1 : a[i] = s[i + 1]
  <2>1. Len(s) \in Nat /\ Len(s) >= 1
    BY EmptySeq
  <2>2. \A i \in 2 .. Len(s) : s[i] \in T
    BY <2>1
  <2>3. a \in Seq(T) /\ Len(a) = Len(s) - 1 /\ \A i \in 1 .. Len(a) : a[i] = s[2 + i - 1]
    <3>1. Len(s) \in Int /\ 2 \in Int
      BY <2>1
    <3>2. /\ a \in Seq(T) /\ Len(a) = IF 2 <= Len(s) THEN Len(s) - 2 + 1 ELSE 0
          /\ \A i \in 1 .. Len(s) - 2 + 1 : a[i] = s[2 + i - 1]
      BY <3>1, <2>2, SubSeqProperties
    <3> HIDE DEF a
    <3> DEFINE m == Len(s)
               l == Len(a)
    <3>3. l = m - 1 /\ m - 2 + 1 = l
      <4>1. m \in Nat /\ m >= 1 /\ l = IF 2 <= m THEN m - 2 + 1 ELSE 0
        BY <3>2, <2>1
      <4> HIDE DEF m, l
      <4>2. CASE 2 <= m
        BY <4>1, <4>2
      <4>3. CASE m = 1
        BY <4>1, <4>3
      <4> QED BY <4>1, <4>2, <4>3
    <3> QED BY <3>2, <3>3
  <2> HIDE DEF a
  <2>4. \A i \in 1 .. Len(s) - 1 : 2 + i - 1 = i + 1
    BY <2>1
  <2> QED BY <2>1, <2>3, <2>4
<1> HIDE DEF a
<1>2. DOMAIN a = 1 .. Len(s) - 1 /\ DOMAIN s = 1 .. Len(s)
  BY <1>1
<1>3. s[1] \in T /\ s[1] \in ToSet(s)
  BY <1>1, <1>2 DEF ToSet
<1>4. \A i \in 1 .. Len(s) - 1 : i + 1 \in 1 .. Len(s) /\ i + 1 # 1
  BY <1>1
<1>5. \A i \in 1 .. Len(s) : i # 1 => i - 1 \in 1 .. Len(s) - 1 /\ (i - 1) + 1 = i
  BY <1>1
<1>6. \A y \in ToSet(a) : y \in ToSet(s) /\ y # s[1]
  BY <1>1, <1>2, <1>4 DEF ToSet, IsInjective
<1>7. ASSUME NEW y \in ToSet(s), y # s[1] PROVE y \in ToSet(a)
  <2>1. PICK i \in 1 .. Len(s) : y = s[i]
    BY <1>2 DEF ToSet
  <2>2. i - 1 \in DOMAIN a /\ a[i - 1] = y
    BY <2>1, <1>1, <1>2, <1>5, <1>7
  <2> QED BY <2>2 DEF ToSet
<1>8. IsInjective(a)
  <2>1. ASSUME NEW i \in DOMAIN a, NEW j \in DOMAIN a, a[i] = a[j] PROVE i = j
    <3>1. s[i + 1] = s[j + 1] /\ i + 1 \in DOMAIN s /\ j + 1 \in DOMAIN s
      BY <2>1, <1>1, <1>2, <1>4
    <3>2. i + 1 = j + 1
      BY <3>1 DEF IsInjective
    <3> QED BY <3>2, <1>2
  <2> QED BY <2>1 DEF IsInjective
<1> QED BY <1>1, <1>3, <1>6, <1>7, <1>8 DEF a

----------------------------------------------------------------------------
(* The entries of the queues *)

Entry == HartIds \X Tasks

\* A queue as it comes out of a scan: the entries that are of it, in their order.
LEMMA TasksOfMeans ==
    ASSUME NEW es \in Seq(Entry), NEW v
    PROVE  /\ TasksOf(v, es) \in Seq(Tasks)
           /\ ToSet(TasksOf(v, es)) = {t \in Tasks : <<v, t>> \in ToSet(es)}
           /\ IsInjective(es) => IsInjective(TasksOf(v, es))
<1> DEFINE n == Len(es)
           Goes(f, i) == IF i = 0 THEN <<>>
                         ELSE IF es[i][1] = v THEN Append(f[i - 1], es[i][2]) ELSE f[i - 1]
           W == CHOOSE f : f = [i \in 0 .. n |-> Goes(f, i)]
           step == [i \in 0 + 1 .. n |-> [s \in Seq(Tasks) |->
                      IF es[i][1] = v THEN Append(s, es[i][2]) ELSE s]]
<1>1. n \in Nat /\ \A i \in 1 .. n : es[i] \in Entry /\ es[i][2] \in Tasks /\ es[i] = <<es[i][1], es[i][2]>>
  BY DEF Entry
<1>2. step \in [0 + 1 .. n -> [Seq(Tasks) -> Seq(Tasks)]]
  <2>1. ASSUME NEW i \in 0 + 1 .. n, NEW s \in Seq(Tasks)
        PROVE  (IF es[i][1] = v THEN Append(s, es[i][2]) ELSE s) \in Seq(Tasks)
    <3>1. es[i][2] \in Tasks
      BY <1>1
    <3> QED BY <3>1
  <2> QED BY <2>1
<1>3. PICK f \in [0 .. n -> Seq(Tasks)] :
         f[0] = <<>> /\ \A i \in 0 + 1 .. n : f[i] = step[i][f[i - 1]]
  <2> HIDE DEF step
  <2>1. <<>> \in Seq(Tasks) /\ 0 \in Nat /\ 0 <= n
    BY <1>1
  <2>2. n \in Nat
    BY <1>1
  <2> DEFINE Q == Seq(Tasks)
  <2>3. step \in Steps(0, n, Q) /\ <<>> \in Q
    BY <1>2, <2>1 DEF Steps
  <2> HIDE DEF n, Q
  <2>4. \E f : Follows(f, 0, n, Q, <<>>, step)
    BY <2>1, <2>2, <2>3, Iterates
  <2> QED BY <2>4 DEF Q, Follows
<1>4. f = [i \in 0 .. n |-> Goes(f, i)]
  <2>1. ASSUME NEW i \in 0 .. n PROVE f[i] = Goes(f, i)
    <3>1. CASE i = 0
      BY <1>3, <3>1
    <3>2. CASE i # 0
      <4>1. i \in 0 + 1 .. n /\ i - 1 \in 0 .. n
        BY <1>1, <3>2
      <4> QED BY <1>3, <3>2, <4>1
    <3> QED BY <3>1, <3>2
  <2> HIDE DEF Goes
  <2> QED BY <2>1
<1>5. W = [i \in 0 .. n |-> Goes(W, i)]
  <2> HIDE DEF Goes
  <2> QED BY <1>4
<1>6. TasksOf(v, es) = W[n]
  BY DEF TasksOf
<1>7. \A i \in 0 .. n : W[i] = Goes(W, i)
  BY <1>5
<1> HIDE DEF W, step
<1> DEFINE Some(k) == {t \in Tasks : \E j \in 1 .. k : es[j] = <<v, t>>}
           B == {k \in 0 .. n : /\ W[k] \in Seq(Tasks) /\ ToSet(W[k]) = Some(k)
                                /\ IsInjective(es) => IsInjective(W[k])}
<1>8. 0 \in B
  <2>1. W[0] = <<>> /\ 0 \in 0 .. n
    BY <1>1, <1>7
  <2>2. Some(0) = {}
    OBVIOUS
  <2> QED BY <2>1, <2>2, EmptyIs
<1>9. ASSUME NEW k \in 0 .. n, k \in B, k < n PROVE k + 1 \in B
  <2>0. k + 1 \in 0 .. n /\ k + 1 \in 1 .. n /\ (k + 1) - 1 = k /\ k + 1 # 0
    BY <1>1, <1>9
  <2>1. W[k + 1] = IF es[k + 1][1] = v THEN Append(W[k], es[k + 1][2]) ELSE W[k]
    BY <1>7, <2>0
  <2>2. \A j \in 1 .. k + 1 : j \in 1 .. k \/ j = k + 1
    BY <2>0
  <2>2a. 1 .. k \subseteq 1 .. k + 1
    OBVIOUS
  <2>3. CASE es[k + 1][1] = v
    <3> DEFINE x == es[k + 1][2]
    <3>1. es[k + 1] = <<v, x>> /\ x \in Tasks
      BY <1>1, <2>0, <2>3
    <3> HIDE DEF x
    <3>2. Some(k + 1) = Some(k) \cup {x}
      <4>1. \A t \in Some(k + 1) : t \in Some(k) \cup {x}
        BY <2>2, <3>1
      <4>2. \A t \in Some(k) : t \in Some(k + 1)
        BY <2>2a
      <4>3. x \in Some(k + 1)
        BY <2>0, <3>1
      <4> QED BY <4>1, <4>2, <4>3
    <3>3. IsInjective(es) => x \notin Some(k)
      <4>1. SUFFICES ASSUME IsInjective(es), NEW j \in 1 .. k, es[j] = <<v, x>> PROVE FALSE
        OBVIOUS
      <4>2. j \in DOMAIN es /\ k + 1 \in DOMAIN es /\ j # k + 1
        BY <1>1, <2>0
      <4> QED BY <4>1, <4>2, <3>1 DEF IsInjective
    <3>4. W[k + 1] = Append(W[k], x)
      BY <2>1, <2>3 DEF x
    <3> HIDE DEF Some
    <3>5. /\ Append(W[k], x) \in Seq(Tasks) /\ ToSet(Append(W[k], x)) = ToSet(W[k]) \cup {x}
          /\ IsInjective(W[k]) /\ x \notin ToSet(W[k]) => IsInjective(Append(W[k], x))
      BY <1>9, <3>1, OneMore
    <3> QED BY <1>9, <2>0, <3>2, <3>3, <3>4, <3>5
  <2>4. CASE es[k + 1][1] # v
    <3>1. \A t \in Tasks : es[k + 1] # <<v, t>>
      BY <2>4
    <3>2. Some(k + 1) = Some(k)
      BY <2>2, <2>2a, <3>1
    <3>3. W[k + 1] = W[k]
      BY <2>1, <2>4
    <3> HIDE DEF Some
    <3> QED BY <1>9, <2>0, <3>2, <3>3
  <2> QED BY <2>3, <2>4
<1> HIDE DEF B
<1>10. n \in B
  <2>1. \A k \in 0 .. n : k \in B
    BY <1>1, <1>8, <1>9, UpTo
  <2> QED BY <1>1, <2>1
<1>11. Some(n) = {t \in Tasks : <<v, t>> \in ToSet(es)}
  <2>1. DOMAIN es = 1 .. n
    OBVIOUS
  <2>2. ASSUME NEW t \in Tasks
        PROVE  (\E j \in 1 .. n : es[j] = <<v, t>>) <=> <<v, t>> \in ToSet(es)
    BY <2>1 DEF ToSet
  <2> QED BY <2>2
<1> HIDE DEF Some
<1> QED BY <1>6, <1>10, <1>11 DEF B

\* A sequence of sequences put end to end, which begins with the first of them.
LEMMA FlattenMeans ==
    ASSUME NEW T, NEW n \in Nat, n >= 1, NEW ss \in [1 .. n -> Seq(T)],
           \A i \in 1 .. n : IsInjective(ss[i]),
           \A i, j \in 1 .. n : i # j => ToSet(ss[i]) \cap ToSet(ss[j]) = {}
    PROVE  /\ FlattenSeq(ss) \in Seq(T) /\ IsInjective(FlattenSeq(ss))
           /\ ToSet(FlattenSeq(ss)) = UNION {ToSet(ss[i]) : i \in 1 .. n}
           /\ Len(ss[1]) <= Len(FlattenSeq(ss))
           /\ \A k \in 1 .. Len(ss[1]) : FlattenSeq(ss)[k] = ss[1][k]
<1> DEFINE Goes(f, i) == IF i = 1 THEN ss[i] ELSE f[i - 1] \o ss[i]
           W == CHOOSE f : f = [i \in 1 .. n |-> Goes(f, i)]
           step == [i \in 1 + 1 .. n |-> [s \in Seq(T) |-> s \o ss[i]]]
           Q == Seq(T)
<1>1. ss \in Seq(Seq(T)) /\ Len(ss) = n /\ 1 \in 1 .. n /\ 1 \in Nat /\ n # 0
  OBVIOUS
<1>2. step \in Steps(1, n, Q) /\ ss[1] \in Q
  <2>1. ASSUME NEW i \in 1 + 1 .. n, NEW s \in Seq(T) PROVE s \o ss[i] \in Seq(T)
    <3>1. ss[i] \in Seq(T)
      OBVIOUS
    <3> HIDE DEF step
    <3> QED BY <3>1
  <2>2. ss[1] \in Q
    BY <1>1
  <2> QED BY <2>1, <2>2 DEF Steps
<1>3. PICK f \in [1 .. n -> Seq(T)] :
         f[1] = ss[1] /\ \A i \in 1 + 1 .. n : f[i] = step[i][f[i - 1]]
  <2> HIDE DEF step, Q
  <2>1. \E f : Follows(f, 1, n, Q, ss[1], step)
    BY <1>1, <1>2, Iterates
  <2> QED BY <2>1 DEF Q, Follows
<1>4. f = [i \in 1 .. n |-> Goes(f, i)]
  <2>1. ASSUME NEW i \in 1 .. n PROVE f[i] = Goes(f, i)
    <3>1. CASE i = 1
      BY <1>3, <3>1
    <3>2. CASE i # 1
      <4>1. i \in 1 + 1 .. n /\ i - 1 \in 1 .. n
        BY <3>2
      <4>2. f[i] = step[i][f[i - 1]] /\ f[i - 1] \in Seq(T)
        BY <1>3, <4>1
      <4>3. step[i][f[i - 1]] = f[i - 1] \o ss[i]
        BY <4>1, <4>2
      <4> QED BY <3>2, <4>2, <4>3
    <3> QED BY <3>1, <3>2
  <2> HIDE DEF Goes
  <2> QED BY <2>1
<1>5. W = [i \in 1 .. n |-> Goes(W, i)]
  <2> HIDE DEF Goes
  <2> QED BY <1>4
<1>6. FlattenSeq(ss) = W[n]
  BY <1>1 DEF FlattenSeq
<1>7. \A i \in 1 .. n : W[i] = Goes(W, i)
  BY <1>5
<1> HIDE DEF W, step, Q
<1> DEFINE All(k) == UNION {ToSet(ss[i]) : i \in 1 .. k}
           B == {k \in 1 .. n : /\ W[k] \in Seq(T) /\ ToSet(W[k]) = All(k) /\ IsInjective(W[k])
                                /\ Len(ss[1]) <= Len(W[k])
                                /\ \A j \in 1 .. Len(ss[1]) : W[k][j] = ss[1][j]}
<1>8. 1 \in B
  <2>1. W[1] = ss[1] /\ ss[1] \in Seq(T)
    BY <1>1, <1>7
  <2>2. All(1) = ToSet(ss[1])
    <3>1. 1 .. 1 = {1}
      OBVIOUS
    <3> QED BY <3>1
  <2>3. Len(ss[1]) \in Nat
    BY <2>1
  <2> QED BY <1>1, <2>1, <2>2, <2>3
<1>9. ASSUME NEW k \in 1 .. n, k \in B, k < n PROVE k + 1 \in B
  <2>0. k + 1 \in 1 .. n /\ (k + 1) - 1 = k /\ k + 1 # 1 /\ \A i \in 1 .. k : i \in 1 .. n /\ i # k + 1
    BY <1>9
  <2>1. W[k + 1] = W[k] \o ss[k + 1]
    BY <1>7, <2>0
  <2>2. ss[k + 1] \in Seq(T) /\ IsInjective(ss[k + 1])
    BY <2>0
  <2>3. \A j \in 1 .. k + 1 : j \in 1 .. k \/ j = k + 1
    BY <2>0
  <2>4. All(k + 1) = All(k) \cup ToSet(ss[k + 1])
    <3>1. 1 .. k \subseteq 1 .. k + 1 /\ k + 1 \in 1 .. k + 1
      BY <2>0
    <3> QED BY <2>3, <3>1
  <2>5. All(k) \cap ToSet(ss[k + 1]) = {}
    BY <2>0
  <2>6. /\ W[k + 1] \in Seq(T) /\ ToSet(W[k + 1]) = ToSet(W[k]) \cup ToSet(ss[k + 1])
        /\ IsInjective(W[k + 1])
    <3> HIDE DEF All
    <3> QED BY <1>9, <2>1, <2>2, <2>5, Joined
  <2>7. Len(ss[1]) <= Len(W[k + 1]) /\ \A j \in 1 .. Len(ss[1]) : W[k + 1][j] = ss[1][j]
    <3> DEFINE l == Len(ss[1])
               s == W[k]
               t == ss[k + 1]
    <3>1. s \in Seq(T) /\ t \in Seq(T) /\ l <= Len(s) /\ \A j \in 1 .. l : s[j] = ss[1][j]
      BY <1>9, <2>2
    <3>2. l \in Nat
      BY <1>1
    <3> HIDE DEF s, t, l
    <3>3. Len(s) \in Nat /\ Len(t) \in Nat /\ Len(s \o t) = Len(s) + Len(t) /\ \A j \in 1 .. Len(s) : (s \o t)[j] = s[j]
      BY <3>1
    <3>4. l <= Len(s \o t) /\ \A j \in 1 .. l : j \in 1 .. Len(s)
      BY <3>1, <3>2, <3>3
    <3>5. \A j \in 1 .. l : (s \o t)[j] = ss[1][j]
      BY <3>1, <3>3, <3>4
    <3> QED BY <2>1, <3>4, <3>5 DEF s, t, l
  <2> HIDE DEF All
  <2> QED BY <1>9, <2>0, <2>4, <2>6, <2>7
<1> HIDE DEF B, All
<1>10. n \in B
  <2>1. \A k \in 1 .. n : k \in B
    BY <1>1, <1>8, <1>9, UpTo
  <2> QED BY <2>1
<1> QED BY <1>6, <1>10 DEF B, All

Queues == [HartIds -> Seq(Tasks)]

Rings == {vs \in Seq(HartIds) : vs # <<>> /\ IsInjective(vs)}

\* The entries of some queues: one for each task in one of them, in their order.
LEMMA EntriesMean ==
    ASSUME NEW qs \in Queues, \A h \in HartIds : IsInjective(qs[h]), NEW vs \in Rings
    PROVE  /\ Entries(qs, vs) \in Seq(Entry) /\ IsInjective(Entries(qs, vs))
           /\ ToSet(Entries(qs, vs)) = {e \in Entry : e[1] \in ToSet(vs) /\ e[2] \in ToSet(qs[e[1]])}
           /\ vs[1] \in HartIds /\ Len(qs[vs[1]]) <= Len(Entries(qs, vs))
           /\ \A k \in 1 .. Len(qs[vs[1]]) : Entries(qs, vs)[k] = <<vs[1], qs[vs[1]][k]>>
<1> DEFINE n == Len(vs)
           Of(v) == [k \in DOMAIN qs[v] |-> <<v, qs[v][k]>>]
           ss == [i \in 1 .. n |-> Of(vs[i])]
<1>1. /\ vs \in Seq(HartIds) /\ n \in Nat /\ n >= 1 /\ DOMAIN vs = 1 .. n
      /\ \A i \in 1 .. n : vs[i] \in HartIds
  BY EmptySeq DEF Rings
<1>2. Entries(qs, vs) = FlattenSeq(ss)
  BY <1>1 DEF Entries
<1>3. ASSUME NEW v \in HartIds
      PROVE  /\ Of(v) \in Seq(Entry) /\ IsInjective(Of(v)) /\ Len(Of(v)) = Len(qs[v])
             /\ ToSet(Of(v)) = {e \in Entry : e[1] = v /\ e[2] \in ToSet(qs[v])}
  <2>1. /\ qs[v] \in Seq(Tasks) /\ Len(qs[v]) \in Nat /\ DOMAIN qs[v] = 1 .. Len(qs[v]) /\ IsInjective(qs[v])
        /\ \A k \in 1 .. Len(qs[v]) : qs[v][k] \in Tasks
    BY DEF Queues
  <2>2. \A k \in 1 .. Len(qs[v]) : <<v, qs[v][k]>> \in Entry
    BY <2>1 DEF Entry
  <2> DEFINE l == Len(qs[v])
             o == Of(v)
  <2>3. o = [k \in 1 .. l |-> <<v, qs[v][k]>>]
    BY <2>1
  <2>3a. l \in Nat
    BY <2>1
  <2> HIDE DEF o, l
  <2>4. o \in Seq(Entry) /\ Len(o) = l /\ DOMAIN o = 1 .. l
    BY <2>2, <2>3, <2>3a DEF l
  <2>5. \A k \in 1 .. l : o[k] = <<v, qs[v][k]>>
    BY <2>3
  <2>6. IsInjective(o)
    <3>1. ASSUME NEW i \in DOMAIN o, NEW j \in DOMAIN o, o[i] = o[j] PROVE i = j
      <4>1. qs[v][i] = qs[v][j]
        BY <3>1, <2>4, <2>5
      <4> QED BY <4>1, <2>1, <2>4 DEF IsInjective, l
    <3> QED BY <3>1 DEF IsInjective
  <2>7. ToSet(o) = {e \in Entry : e[1] = v /\ e[2] \in ToSet(qs[v])}
    <3>1. ASSUME NEW k \in 1 .. l PROVE o[k] \in Entry /\ o[k][1] = v /\ o[k][2] \in ToSet(qs[v])
      <4>1. qs[v][k] \in ToSet(qs[v])
        BY <2>1 DEF ToSet, l
      <4> DEFINE x == qs[v][k]
      <4>2. o[k] = <<v, x>> /\ x \in ToSet(qs[v]) /\ <<v, x>> \in Entry
        BY <4>1, <2>2, <2>5 DEF l
      <4> HIDE DEF x
      <4> QED BY <4>2
    <3>2. ASSUME NEW e \in Entry, e[1] = v, e[2] \in ToSet(qs[v]) PROVE e \in ToSet(o)
      <4>1. PICK k \in 1 .. l : qs[v][k] = e[2]
        BY <3>2, <2>1 DEF ToSet, l
      <4>2. o[k] = e
        BY <4>1, <3>2, <2>5 DEF Entry
      <4> QED BY <4>2, <2>4 DEF ToSet
    <3>3. \A e \in ToSet(o) : e \in Entry /\ e[1] = v /\ e[2] \in ToSet(qs[v])
      BY <3>1, <2>4 DEF ToSet
    <3> QED BY <3>2, <3>3
  <2> QED BY <2>4, <2>6, <2>7 DEF o, l
<1>4. /\ ss \in [1 .. n -> Seq(Entry)] /\ \A i \in 1 .. n : ss[i] = Of(vs[i])
  <2> HIDE DEF Of
  <2> QED BY <1>1, <1>3
<1>5. \A i \in 1 .. n : IsInjective(ss[i]) /\ ToSet(ss[i]) = {e \in Entry : e[1] = vs[i] /\ e[2] \in ToSet(qs[vs[i]])}
  <2> HIDE DEF Of, ss
  <2> QED BY <1>1, <1>3, <1>4
<1>6. \A i, j \in 1 .. n : i # j => ToSet(ss[i]) \cap ToSet(ss[j]) = {}
  <2> HIDE DEF ss
  <2>1. \A i, j \in 1 .. n : i # j => vs[i] # vs[j]
    BY <1>1 DEF Rings, IsInjective
  <2> QED BY <1>5, <2>1
<1> HIDE DEF ss
<1>7. /\ FlattenSeq(ss) \in Seq(Entry) /\ IsInjective(FlattenSeq(ss))
      /\ ToSet(FlattenSeq(ss)) = UNION {ToSet(ss[i]) : i \in 1 .. n}
      /\ Len(ss[1]) <= Len(FlattenSeq(ss))
      /\ \A k \in 1 .. Len(ss[1]) : FlattenSeq(ss)[k] = ss[1][k]
  <2>1. n \in Nat /\ n >= 1
    BY <1>1
  <2>2. ss \in [1 .. n -> Seq(Entry)]
    BY <1>4
  <2>3. \A i \in 1 .. n : IsInjective(ss[i])
    BY <1>5
  <2> HIDE DEF n
  <2> QED BY <2>1, <2>2, <2>3, <1>6, FlattenMeans
<1>8. ToSet(FlattenSeq(ss)) = {e \in Entry : e[1] \in ToSet(vs) /\ e[2] \in ToSet(qs[e[1]])}
  <2>1. ToSet(vs) = {vs[i] : i \in 1 .. n}
    BY <1>1 DEF ToSet
  <2> QED BY <1>5, <1>7, <2>1
<1>9. /\ Len(ss[1]) = Len(qs[vs[1]])
      /\ \A k \in 1 .. Len(qs[vs[1]]) : ss[1][k] = <<vs[1], qs[vs[1]][k]>>
  <2>1. vs[1] \in HartIds /\ ss[1] = Of(vs[1])
    BY <1>1, <1>4
  <2>2. qs[vs[1]] \in Seq(Tasks)
    BY <2>1 DEF Queues
  <2> QED BY <1>3, <2>1, <2>2
<1> QED BY <1>1, <1>2, <1>7, <1>8, <1>9

----------------------------------------------------------------------------
(* The first pass *)

Accs == [best : {<<>>} \cup Entry, stash : Seq(Entry), back : Seq(Entry)]

Held(acc) == ToSet(acc.stash) \cup ToSet(acc.back)

Neat(acc) == /\ IsInjective(acc.stash) /\ IsInjective(acc.back)
             /\ ToSet(acc.stash) \cap ToSet(acc.back) = {}

LEMMA EntryIs == \A e \in Entry : e # <<>> /\ e = <<e[1], e[2]>> /\ e[1] \in HartIds /\ e[2] \in Tasks
<1>1. ASSUME NEW a, NEW b PROVE <<a, b>> # <<>>
  OBVIOUS
<1> QED BY <1>1 DEF Entry

\* park!: an entry that is put aside is kept, in one of the two places.
LEMMA ParkMeans ==
    ASSUME NEW acc \in Accs, Neat(acc), NEW e \in Entry, e \notin Held(acc)
    PROVE  /\ Park(acc, e) \in Accs /\ Neat(Park(acc, e)) /\ Park(acc, e).best = acc.best
           /\ Held(Park(acc, e)) = Held(acc) \cup {e}
<1> DEFINE r == Park(acc, e)
           s == acc.stash
           b == acc.back
<1>1. s \in Seq(Entry) /\ b \in Seq(Entry) /\ acc.best \in {<<>>} \cup Entry
  BY DEF Accs
<1>2. /\ Append(s, e) \in Seq(Entry) /\ ToSet(Append(s, e)) = ToSet(s) \cup {e}
      /\ IsInjective(Append(s, e))
  <2>1. e \notin ToSet(s) /\ IsInjective(s)
    BY DEF Held, Neat
  <2> HIDE DEF s
  <2> QED BY <1>1, <2>1, OneMore
<1>3. /\ Append(b, e) \in Seq(Entry) /\ ToSet(Append(b, e)) = ToSet(b) \cup {e}
      /\ IsInjective(Append(b, e))
  <2>1. e \notin ToSet(b) /\ IsInjective(b)
    BY DEF Held, Neat
  <2> HIDE DEF b
  <2> QED BY <1>1, <2>1, OneMore
<1>4. CASE Len(s) < StashCap
  <2>1. r = [acc EXCEPT !.stash = Append(s, e)]
    BY <1>4 DEF Park
  <2>2. r.stash = Append(s, e) /\ r.back = b /\ r.best = acc.best /\ r \in Accs
    BY <2>1, <1>1, <1>2 DEF Accs
  <2> HIDE DEF r
  <2> QED BY <2>2, <1>2 DEF Held, Neat, r
<1>5. CASE ~(Len(s) < StashCap)
  <2>1. r = [acc EXCEPT !.back = Append(b, e)]
    BY <1>5 DEF Park
  <2>2. r.back = Append(b, e) /\ r.stash = s /\ r.best = acc.best /\ r \in Accs
    BY <2>1, <1>1, <1>3 DEF Accs
  <2> HIDE DEF r
  <2> QED BY <2>2, <1>3 DEF Held, Neat, r
<1> QED BY <1>4, <1>5

Chosen(acc, e) == [acc EXCEPT !.best = e]

LEMMA ChosenMeans ==
    ASSUME NEW acc \in Accs, NEW e \in Entry
    PROVE  /\ Chosen(acc, e) \in Accs /\ Chosen(acc, e).best = e
           /\ Held(Chosen(acc, e)) = Held(acc) /\ Neat(Chosen(acc, e)) = Neat(acc)
<1> DEFINE r == Chosen(acc, e)
<1>1. r \in Accs /\ r.best = e /\ r.stash = acc.stash /\ r.back = acc.back
  BY DEF Accs, Chosen
<1> HIDE DEF r
<1>2. Held(r) = Held(acc) /\ Neat(r) = Neat(acc)
  BY <1>1 DEF Held, Neat
<1> QED BY <1>1, <1>2 DEF r

Over(e) == OverQuota(GroupOf[e[2]])

\* What the scan does with an entry that is not stale.
LEMMA ConsiderMeans ==
    ASSUME NEW h, NEW acc \in Accs, Neat(acc), NEW e \in Entry, e \notin Held(acc), e # acc.best,
           acc.best \notin Held(acc), Alive(h, e[2])
    PROVE  /\ Consider(h, acc, e) \in Accs /\ Neat(Consider(h, acc, e))
           /\ Over(e) =>
                Consider(h, acc, e).best = acc.best /\ Held(Consider(h, acc, e)) = Held(acc) \cup {e}
           /\ ~Over(e) /\ acc.best = <<>> =>
                Consider(h, acc, e).best = e /\ Held(Consider(h, acc, e)) = Held(acc)
           /\ ~Over(e) /\ acc.best # <<>> /\ Beats(e[2], acc.best[2]) =>
                Consider(h, acc, e).best = e /\ Held(Consider(h, acc, e)) = Held(acc) \cup {acc.best}
           /\ ~Over(e) /\ acc.best # <<>> /\ ~Beats(e[2], acc.best[2]) =>
                Consider(h, acc, e).best = acc.best /\ Held(Consider(h, acc, e)) = Held(acc) \cup {e}
<1> DEFINE r == Consider(h, acc, e)
<1>1. acc.best \in {<<>>} \cup Entry
  BY DEF Accs
<1>2. /\ Park(acc, e) \in Accs /\ Neat(Park(acc, e)) /\ Park(acc, e).best = acc.best
      /\ Held(Park(acc, e)) = Held(acc) \cup {e}
  BY ParkMeans
<1>3. CASE Over(e)
  <2>1. r = Park(acc, e)
    BY <1>3 DEF Consider, Over
  <2> HIDE DEF r
  <2> QED BY <2>1, <1>2, <1>3 DEF r
<1>4. CASE ~Over(e) /\ acc.best = <<>>
  <2>1. r = Chosen(acc, e)
    BY <1>4 DEF Consider, Over, Chosen
  <2> HIDE DEF r
  <2> QED BY <2>1, <1>4, ChosenMeans DEF r
<1>5. CASE ~Over(e) /\ acc.best # <<>> /\ Beats(e[2], acc.best[2])
  <2> DEFINE b == acc.best
             k == Park(acc, b)
  <2>1. r = Chosen(k, e)
    BY <1>5 DEF Consider, Over, Chosen
  <2>2. b \in Entry /\ b \notin Held(acc)
    BY <1>1, <1>5
  <2> HIDE DEF r, b
  <2>3. k \in Accs /\ Neat(k) /\ Held(k) = Held(acc) \cup {b}
    BY <2>2, ParkMeans
  <2> HIDE DEF k
  <2>4. r \in Accs /\ r.best = e /\ Held(r) = Held(k) /\ Neat(r) = Neat(k)
    BY <2>1, <2>3, ChosenMeans
  <2> QED BY <2>3, <2>4, <1>5 DEF r, b
<1>6. CASE ~Over(e) /\ acc.best # <<>> /\ ~Beats(e[2], acc.best[2])
  <2>1. r = Park(acc, e)
    BY <1>6 DEF Consider, Over
  <2> HIDE DEF r
  <2> QED BY <2>1, <1>2, <1>6 DEF r
<1> QED BY <1>3, <1>4, <1>5, <1>6

Cost(e) == Vruntime(GroupOf[e[2]])

\* es[j] used least for its weight of the first i entries within quota, and
\* came before those that used as little.
Leads(es, i, j) ==
    /\ ~Over(es[j])
    /\ \A k \in 1 .. i : ~Over(es[k]) /\ k # j =>
          Cost(es[j]) < Cost(es[k]) \/ (Cost(es[j]) = Cost(es[k]) /\ j < k)

Seen(es, i) == {es[k] : k \in 1 .. i}

\* What holds of the scan after i entries: none of them is lost or doubled,
\* and the best is the leader of those within quota.
Scanned(es, i, acc) ==
    /\ acc \in Accs /\ Neat(acc)
    /\ acc.best \notin Held(acc)
    /\ Held(acc) \cup ({acc.best} \ {<<>>}) = Seen(es, i)
    /\ acc.best = <<>> => \A k \in 1 .. i : Over(es[k])
    /\ acc.best # <<>> => \E j \in 1 .. i : es[j] = acc.best /\ Leads(es, i, j)

LEMMA ScannedStep ==
    ASSUME NEW h, NEW es \in Seq(Entry), IsInjective(es),
           \A k \in 1 .. Len(es) : Alive(h, es[k][2]),
           \A k \in 1 .. Len(es) : Cost(es[k]) \in Int,
           NEW i \in Nat, i < Len(es), NEW acc, Scanned(es, i, acc)
    PROVE  Scanned(es, i + 1, Consider(h, acc, es[i + 1]))
<1> DEFINE m == i + 1
           e == es[m]
           r == Consider(h, acc, e)
           b == acc.best
<1>0. Len(es) \in Nat /\ DOMAIN es = 1 .. Len(es)
  OBVIOUS
<1>1. m \in 1 .. Len(es) /\ \A k \in 1 .. i : k \in 1 .. Len(es) /\ k # m /\ k < m /\ k \in 1 .. m
  BY <1>0
<1>2. e \in Entry /\ e # <<>> /\ Alive(h, e[2])
  BY <1>1, EntryIs
<1>3. \A k \in 1 .. m : k \in 1 .. i \/ k = m
  OBVIOUS
<1>4. e \notin Seen(es, i) /\ Seen(es, m) = Seen(es, i) \cup {e}
  <2>1. e \notin Seen(es, i)
    BY <1>0, <1>1 DEF Seen, IsInjective
  <2>2. \A x \in Seen(es, m) : x \in Seen(es, i) \cup {e}
    BY <1>3 DEF Seen
  <2>3. \A x \in Seen(es, i) : x \in Seen(es, m)
    BY <1>1 DEF Seen
  <2>4. e \in Seen(es, m)
    BY DEF Seen
  <2> QED BY <2>1, <2>2, <2>3, <2>4
<1>5. acc \in Accs /\ Neat(acc) /\ e \notin Held(acc) /\ e # b /\ b \notin Held(acc)
  BY <1>2, <1>4 DEF Scanned
<1>6. /\ r \in Accs /\ Neat(r)
      /\ Over(e) => r.best = b /\ Held(r) = Held(acc) \cup {e}
      /\ ~Over(e) /\ b = <<>> => r.best = e /\ Held(r) = Held(acc)
      /\ ~Over(e) /\ b # <<>> /\ Beats(e[2], b[2]) => r.best = e /\ Held(r) = Held(acc) \cup {b}
      /\ ~Over(e) /\ b # <<>> /\ ~Beats(e[2], b[2]) => r.best = b /\ Held(r) = Held(acc) \cup {e}
  <2> HIDE DEF e
  <2> QED BY <1>2, <1>5, ConsiderMeans
<1>7. Beats(e[2], b[2]) <=> Cost(e) < Cost(b)
  BY DEF Beats, Cost
<1>8. Held(acc) \cup ({b} \ {<<>>}) = Seen(es, i)
  BY DEF Scanned
<1>9. i \in Nat /\ m \in Nat /\ i < m
  OBVIOUS
<1> HIDE DEF r, b
<1>10. CASE Over(e)
  <2>1. r.best = b /\ Held(r) = Held(acc) \cup {e}
    BY <1>6, <1>10
  <2>2. r.best \notin Held(r) /\ Held(r) \cup ({r.best} \ {<<>>}) = Seen(es, m)
    BY <2>1, <1>4, <1>5, <1>8
  <2>3. r.best = <<>> => \A k \in 1 .. m : Over(es[k])
    BY <2>1, <1>3, <1>10 DEF Scanned, b
  <2>4. r.best # <<>> => \E j \in 1 .. m : es[j] = r.best /\ Leads(es, m, j)
    <3> SUFFICES ASSUME r.best # <<>> PROVE \E j \in 1 .. m : es[j] = r.best /\ Leads(es, m, j)
      OBVIOUS
    <3>1. PICK j \in 1 .. i : es[j] = b /\ Leads(es, i, j)
      BY <2>1 DEF Scanned, b
    <3>2. Leads(es, m, j)
      <4> HIDE DEF m
      <4> QED BY <3>1, <1>3, <1>10 DEF Leads, e
    <3> QED BY <3>1, <3>2, <2>1, <1>1
  <2> QED BY <1>6, <2>2, <2>3, <2>4 DEF Scanned, r
<1>11. CASE ~Over(e) /\ b = <<>>
  <2>1. r.best = e /\ Held(r) = Held(acc)
    BY <1>6, <1>11
  <2>2. r.best \notin Held(r) /\ Held(r) \cup ({r.best} \ {<<>>}) = Seen(es, m)
    BY <2>1, <1>2, <1>4, <1>5, <1>8, <1>11
  <2>3. \A k \in 1 .. i : Over(es[k])
    BY <1>11 DEF Scanned, b
  <2>4. Leads(es, m, m)
    <3> HIDE DEF m
    <3> QED BY <2>3, <1>3, <1>11 DEF Leads, e
  <2> QED BY <1>2, <1>6, <2>1, <2>2, <2>4 DEF Scanned, r
<1>12. CASE ~Over(e) /\ b # <<>>
  <2>1. PICK j \in 1 .. i : es[j] = b /\ Leads(es, i, j)
    BY <1>12 DEF Scanned, b
  <2>2. j \in 1 .. Len(es) /\ j \in 1 .. m /\ j < m /\ j # m
    BY <1>1
  <2>3. b \in Entry /\ b # <<>> /\ b \in Seen(es, i)
    BY <1>12, <2>1, <2>2 DEF Seen
  <2>4. Cost(e) \in Int /\ Cost(b) \in Int /\ \A k \in 1 .. i : Cost(es[k]) \in Int
    BY <1>1, <2>1, <2>2
  <2>5. CASE Cost(e) < Cost(b)
    <3>1. r.best = e /\ Held(r) = Held(acc) \cup {b}
      BY <1>6, <1>7, <1>12, <2>5
    <3>2. r.best \notin Held(r) /\ Held(r) \cup ({r.best} \ {<<>>}) = Seen(es, m)
      BY <3>1, <1>2, <1>4, <1>5, <1>8, <2>3
    <3>3. ASSUME NEW k \in 1 .. m, ~Over(es[k]), k # m
          PROVE  Cost(e) < Cost(es[k])
      <4>1. k \in 1 .. i
        BY <1>3, <3>3
      <4>2. k = j \/ Cost(b) < Cost(es[k]) \/ Cost(b) = Cost(es[k])
        <5> HIDE DEF m
        <5> QED BY <2>1, <3>3, <4>1 DEF Leads
      <4>3. Cost(es[k]) \in Int
        BY <2>4, <4>1
      <4>4. k = j => Cost(es[k]) = Cost(b)
        BY <2>1
      <4> QED BY <2>4, <2>5, <4>2, <4>3, <4>4
    <3>4. Leads(es, m, m)
      <4> HIDE DEF m
      <4> QED BY <3>3, <1>12 DEF Leads, e
    <3> QED BY <1>2, <1>6, <3>1, <3>2, <3>4 DEF Scanned, r
  <2>6. CASE ~(Cost(e) < Cost(b))
    <3>1. r.best = b /\ Held(r) = Held(acc) \cup {e}
      BY <1>6, <1>7, <1>12, <2>6
    <3>2. r.best \notin Held(r) /\ Held(r) \cup ({r.best} \ {<<>>}) = Seen(es, m)
      BY <3>1, <1>4, <1>5, <1>8, <2>3
    <3>3. Cost(b) < Cost(e) \/ Cost(b) = Cost(e)
      BY <2>4, <2>6
    <3>4. Leads(es, m, j)
      <4> HIDE DEF m
      <4> QED BY <2>1, <2>2, <3>3, <1>3 DEF Leads, e
    <3> QED BY <1>6, <2>1, <2>2, <2>3, <3>1, <3>2, <3>4 DEF Scanned, r
  <2> QED BY <2>5, <2>6
<1> QED BY <1>10, <1>11, <1>12

NothingHeld == [best |-> <<>>, stash |-> <<>>, back |-> <<>>]

\* The scan of the first pass, as ScanQuota has it.
QuotaScan(h, es) ==
    LET acc[i \in 0 .. Len(es)] == IF i = 0 THEN NothingHeld ELSE Consider(h, acc[i - 1], es[i])
    IN acc[Len(es)]

LEMMA ConsiderTyped ==
    ASSUME NEW h, NEW acc \in Accs, NEW e \in Entry PROVE Consider(h, acc, e) \in Accs
<1>1. ASSUME NEW x \in Entry PROVE Park(acc, x) \in Accs
  <2>1. acc.stash \in Seq(Entry) /\ acc.back \in Seq(Entry)
    BY DEF Accs
  <2>2. Append(acc.stash, x) \in Seq(Entry) /\ Append(acc.back, x) \in Seq(Entry)
    BY <2>1
  <2> QED BY <2>1, <2>2 DEF Accs, Park
<1>2. CASE acc.best = <<>>
  <2>1. Chosen(acc, e) \in Accs
    BY ChosenMeans
  <2> QED BY <1>1, <1>2, <2>1 DEF Consider, Chosen
<1>3. CASE acc.best # <<>>
  <2>1. acc.best \in Entry
    BY <1>3 DEF Accs
  <2>2. Park(acc, acc.best) \in Accs /\ Park(acc, e) \in Accs
    BY <1>1, <2>1
  <2>3. Chosen(Park(acc, acc.best), e) \in Accs
    <3> DEFINE k == Park(acc, acc.best)
    <3>1. k \in Accs
      BY <2>2
    <3> HIDE DEF k
    <3> QED BY <3>1, ChosenMeans DEF k
  <2> QED BY <1>3, <2>2, <2>3 DEF Consider, Chosen
<1> QED BY <1>2, <1>3

LEMMA QuotaScanMeans ==
    ASSUME NEW h, NEW es \in Seq(Entry), IsInjective(es),
           \A k \in 1 .. Len(es) : Alive(h, es[k][2]),
           \A k \in 1 .. Len(es) : Cost(es[k]) \in Int
    PROVE  Scanned(es, Len(es), QuotaScan(h, es))
<1> DEFINE n == Len(es)
           Goes(f, i) == IF i = 0 THEN NothingHeld ELSE Consider(h, f[i - 1], es[i])
           W == CHOOSE f : f = [i \in 0 .. n |-> Goes(f, i)]
           step == [i \in 0 + 1 .. n |-> [s \in Accs |-> Consider(h, s, es[i])]]
<1>1. n \in Nat /\ \A i \in 1 .. n : es[i] \in Entry
  OBVIOUS
<1>2. step \in Steps(0, n, Accs)
  <2>1. ASSUME NEW i \in 0 + 1 .. n, NEW s \in Accs PROVE Consider(h, s, es[i]) \in Accs
    <3>1. es[i] \in Entry
      BY <1>1
    <3> QED BY <3>1, ConsiderTyped
  <2> QED BY <2>1 DEF Steps
<1>3. NothingHeld \in Accs /\ Neat(NothingHeld) /\ Held(NothingHeld) = {} /\ NothingHeld.best = <<>>
  BY EmptyIs DEF NothingHeld, Accs, Neat, Held
<1>4. PICK f \in [0 .. n -> Accs] :
         f[0] = NothingHeld /\ \A i \in 0 + 1 .. n : f[i] = step[i][f[i - 1]]
  <2> HIDE DEF step, n
  <2>1. 0 \in Nat /\ 0 <= n
    BY <1>1
  <2>2. \E f : Follows(f, 0, n, Accs, NothingHeld, step)
    BY <1>1, <1>2, <1>3, <2>1, Iterates
  <2> QED BY <2>2 DEF Follows
<1>5. f = [i \in 0 .. n |-> Goes(f, i)]
  <2>1. ASSUME NEW i \in 0 .. n PROVE f[i] = Goes(f, i)
    <3>1. CASE i = 0
      BY <1>4, <3>1
    <3>2. CASE i # 0
      <4>1. i \in 0 + 1 .. n /\ i - 1 \in 0 .. n
        BY <1>1, <3>2
      <4>2. f[i] = step[i][f[i - 1]] /\ f[i - 1] \in Accs
        BY <1>4, <4>1
      <4> QED BY <3>2, <4>1, <4>2
    <3> QED BY <3>1, <3>2
  <2> HIDE DEF Goes
  <2> QED BY <2>1
<1>6. W = [i \in 0 .. n |-> Goes(W, i)]
  <2> HIDE DEF Goes
  <2> QED BY <1>5
<1>7. QuotaScan(h, es) = W[n]
  BY DEF QuotaScan
<1>8. \A i \in 0 .. n : W[i] = Goes(W, i)
  BY <1>6
<1> HIDE DEF W, step
<1> DEFINE B == {i \in 0 .. n : Scanned(es, i, W[i])}
<1>9. 0 \in B
  <2>1. W[0] = NothingHeld /\ 0 \in 0 .. n
    BY <1>1, <1>8
  <2>2. Seen(es, 0) = {}
    BY DEF Seen
  <2>3. Scanned(es, 0, NothingHeld)
    BY <1>3, <2>2 DEF Scanned
  <2> QED BY <2>1, <2>3
<1>10. ASSUME NEW i \in 0 .. n, i \in B, i < n PROVE i + 1 \in B
  <2>1. i + 1 \in 0 .. n /\ (i + 1) - 1 = i /\ i + 1 # 0 /\ i \in Nat
    BY <1>1, <1>10
  <2>2. W[i + 1] = Consider(h, W[i], es[i + 1])
    BY <1>8, <2>1
  <2>3. Scanned(es, i + 1, Consider(h, W[i], es[i + 1]))
    <3> DEFINE acc == W[i]
    <3>1. Scanned(es, i, acc)
      BY <1>10
    <3> HIDE DEF acc
    <3>2. i < Len(es)
      BY <1>10
    <3>3. Scanned(es, i + 1, Consider(h, acc, es[i + 1]))
      BY <3>1, <3>2, <2>1, ScannedStep
    <3> QED BY <3>3 DEF acc
  <2> QED BY <2>1, <2>2, <2>3
<1> HIDE DEF B
<1>11. n \in B
  <2>1. \A k \in 0 .. n : k \in B
    BY <1>1, <1>9, <1>10, UpTo
  <2> QED BY <1>1, <2>1
<1> QED BY <1>7, <1>11 DEF B

\* Queues whose entries are all different.
Apart(qs) ==
    /\ qs \in Queues
    /\ \A h \in HartIds : IsInjective(qs[h])
    /\ \A h, g \in HartIds : h # g => ToSet(qs[h]) \cap ToSet(qs[g]) = {}

\* What a scan leaves of the queues it scanned.
Restored(qs, vs, put) ==
    [v \in HartIds |-> IF v \in ToSet(vs) THEN TasksOf(v, put) ELSE qs[v]]

\* A pick takes one task or none, and no other entry is lost or doubled.
Takes(qs, r) ==
    /\ Apart(r.queues)
    /\ r.got = NoTask => \A v \in HartIds : ToSet(r.queues[v]) = ToSet(qs[v])
    /\ r.got # NoTask =>
          /\ \E v \in HartIds : r.got \in ToSet(qs[v])
          /\ \A v \in HartIds : ToSet(r.queues[v]) = ToSet(qs[v]) \ {r.got}

LEMMA QueueSet ==
    ASSUME NEW qs \in Queues, NEW v \in HartIds PROVE ToSet(qs[v]) \subseteq Tasks
<1>1. qs[v] \in Seq(Tasks) /\ DOMAIN qs[v] = 1 .. Len(qs[v])
  BY DEF Queues
<1> QED BY <1>1 DEF ToSet

LEMMA PutBack ==
    ASSUME NEW qs, Apart(qs), NEW vs \in Rings, NEW put \in Seq(Entry), IsInjective(put),
           ToSet(put) \subseteq ToSet(Entries(qs, vs))
    PROVE  /\ Apart(Restored(qs, vs, put))
           /\ \A v \in HartIds : v \in ToSet(vs) =>
                ToSet(Restored(qs, vs, put)[v]) = {t \in Tasks : <<v, t>> \in ToSet(put)}
           /\ \A v \in HartIds : v \notin ToSet(vs) => Restored(qs, vs, put)[v] = qs[v]
<1> DEFINE r == Restored(qs, vs, put)
<1>1. qs \in Queues /\ \A h \in HartIds : IsInjective(qs[h]) /\ qs[h] \in Seq(Tasks)
  BY DEF Apart, Queues
<1>2. ToSet(Entries(qs, vs)) = {e \in Entry : e[1] \in ToSet(vs) /\ e[2] \in ToSet(qs[e[1]])}
  BY <1>1, EntriesMean
<1>3. \A v \in HartIds : r[v] = IF v \in ToSet(vs) THEN TasksOf(v, put) ELSE qs[v]
  BY DEF Restored
<1>4. \A v \in HartIds : /\ TasksOf(v, put) \in Seq(Tasks) /\ IsInjective(TasksOf(v, put))
                         /\ ToSet(TasksOf(v, put)) = {t \in Tasks : <<v, t>> \in ToSet(put)}
  BY TasksOfMeans
<1>5. r \in Queues
  BY <1>1, <1>4 DEF Restored, Queues
<1> HIDE DEF r
<1>6. \A v \in HartIds : IsInjective(r[v])
  BY <1>1, <1>3, <1>4
<1>7. ASSUME NEW v \in HartIds PROVE ToSet(r[v]) \subseteq ToSet(qs[v])
  <2>1. CASE v \in ToSet(vs)
    <3>1. ASSUME NEW t \in ToSet(r[v]) PROVE t \in ToSet(qs[v])
      <4>1. t \in Tasks /\ <<v, t>> \in ToSet(put)
        BY <1>3, <1>4, <2>1, <3>1
      <4>2. <<v, t>>[2] \in ToSet(qs[<<v, t>>[1]])
        BY <1>2, <4>1
      <4> QED BY <4>2
    <3> QED BY <3>1
  <2>2. CASE v \notin ToSet(vs)
    BY <1>3, <2>2
  <2> QED BY <2>1, <2>2
<1>8. \A h, g \in HartIds : h # g => ToSet(r[h]) \cap ToSet(r[g]) = {}
  BY <1>7 DEF Apart
<1> QED BY <1>3, <1>4, <1>5, <1>6, <1>8 DEF Apart, r

\* Every queued task can be picked by hart h.
AllAlive(h, qs) == \A v \in HartIds : \A t \in ToSet(qs[v]) : Alive(h, t)

Weighed == \A p \in Tasks : Vruntime(GroupOf[p]) \in Int

\* p leads queue s: it is within quota, and used less for its weight than every
\* other task there within quota, or as little and came first.
LeadsQueue(p, s) == \E j \in 1 .. Len(s) :
    /\ s[j] = p
    /\ \A k \in 1 .. Len(s) : ~OverQuota(GroupOf[s[k]]) /\ k # j =>
          \/ Vruntime(GroupOf[p]) < Vruntime(GroupOf[s[k]])
          \/ Vruntime(GroupOf[p]) = Vruntime(GroupOf[s[k]]) /\ j < k

LEMMA EntriesAlive ==
    ASSUME NEW qs, Apart(qs), NEW vs \in Rings, NEW h, AllAlive(h, qs)
    PROVE  \A k \in 1 .. Len(Entries(qs, vs)) :
              /\ Entries(qs, vs)[k] \in Entry /\ Entries(qs, vs)[k] \in ToSet(Entries(qs, vs))
              /\ Alive(h, Entries(qs, vs)[k][2])
<1> DEFINE es == Entries(qs, vs)
<1>1. /\ es \in Seq(Entry)
      /\ ToSet(es) = {e \in Entry : e[1] \in ToSet(vs) /\ e[2] \in ToSet(qs[e[1]])}
  BY EntriesMean DEF Apart
<1> HIDE DEF es
<1> SUFFICES ASSUME NEW k \in 1 .. Len(es)
             PROVE  es[k] \in Entry /\ es[k] \in ToSet(es) /\ Alive(h, es[k][2])
  BY DEF es
<1>2. es[k] \in Entry /\ es[k] \in ToSet(es)
  BY <1>1 DEF ToSet
<1>3. es[k][1] \in HartIds /\ es[k][2] \in ToSet(qs[es[k][1]])
  BY <1>1, <1>2, EntryIs
<1> QED BY <1>2, <1>3 DEF AllAlive

\* A scan that puts every entry back but that of one task takes that task.
LEMMA TakesOne ==
    ASSUME NEW qs, Apart(qs), NEW vs \in Rings, NEW put \in Seq(Entry), IsInjective(put), NEW b \in Entry,
           b \notin ToSet(put), ToSet(put) \cup {b} = ToSet(Entries(qs, vs)), NoTask \notin Tasks
    PROVE  /\ b[2] \in Tasks /\ b[1] \in ToSet(vs) /\ b[2] \in ToSet(qs[b[1]])
           /\ Takes(qs, [got |-> b[2], queues |-> Restored(qs, vs, put)])
<1> DEFINE es == Entries(qs, vs)
           rest == Restored(qs, vs, put)
           p == b[2]
           w == b[1]
<1>1. /\ qs \in Queues
      /\ ToSet(es) = {e \in Entry : e[1] \in ToSet(vs) /\ e[2] \in ToSet(qs[e[1]])}
  BY EntriesMean DEF Apart
<1> HIDE DEF es
<1>2. /\ Apart(rest)
      /\ \A v \in HartIds : v \in ToSet(vs) => ToSet(rest[v]) = {t \in Tasks : <<v, t>> \in ToSet(put)}
      /\ \A v \in HartIds : v \notin ToSet(vs) => rest[v] = qs[v]
  <2>1. ToSet(put) \subseteq ToSet(Entries(qs, vs))
    OBVIOUS
  <2> QED BY <2>1, PutBack
<1> HIDE DEF rest
<1>3. ToSet(put) \cup {b} = ToSet(es)
  BY DEF es
<1>4. ASSUME NEW v \in HartIds, v \in ToSet(vs), NEW t \in Tasks
      PROVE  t \in ToSet(qs[v]) <=> <<v, t>> \in ToSet(es)
  <2>1. <<v, t>> \in Entry /\ <<v, t>>[1] = v /\ <<v, t>>[2] = t
    BY DEF Entry
  <2> QED BY <1>1, <1>4, <2>1
<1>5. \A v \in HartIds : ToSet(qs[v]) \subseteq Tasks /\ ToSet(rest[v]) \subseteq Tasks
  BY <1>1, <1>2, QueueSet DEF Apart
<1>6. p \in Tasks /\ w \in HartIds /\ b = <<w, p>> /\ w \in ToSet(vs) /\ p \in ToSet(qs[w])
  BY <1>1, <1>3, EntryIs
<1> HIDE DEF p, w
<1>7. ASSUME NEW v \in HartIds PROVE ToSet(rest[v]) = ToSet(qs[v]) \ {p}
  <2>1. CASE v = w
    <3>1. \A t \in Tasks : <<v, t>> \in ToSet(put) <=> (<<v, t>> \in ToSet(es) /\ t # p)
      <4>1. b = <<v, p>>
        BY <1>6, <2>1
      <4>2. \A t : <<v, t>> = <<v, p>> <=> t = p
        OBVIOUS
      <4> QED BY <1>3, <4>1, <4>2
    <3>2. v \in ToSet(vs)
      BY <1>6, <2>1
    <3> QED BY <1>2, <1>4, <1>5, <3>1, <3>2
  <2>2. CASE v # w
    <3>1. p \notin ToSet(qs[v])
      BY <1>6, <2>2 DEF Apart
    <3>2. CASE v \in ToSet(vs)
      <4>1. \A t \in Tasks : <<v, t>> # b
        BY <2>2, <1>6
      <4>2. \A t \in Tasks : <<v, t>> \in ToSet(put) <=> <<v, t>> \in ToSet(es)
        BY <1>3, <4>1
      <4> QED BY <1>2, <1>4, <1>5, <3>1, <3>2, <4>2
    <3>3. CASE v \notin ToSet(vs)
      BY <1>2, <3>1, <3>3
    <3> QED BY <3>2, <3>3
  <2> QED BY <2>1, <2>2
<1>8. Takes(qs, [got |-> p, queues |-> rest])
  <2> DEFINE r == [got |-> p, queues |-> rest]
  <2>1. r.got = p /\ r.queues = rest
    OBVIOUS
  <2> HIDE DEF r
  <2>2. Takes(qs, r)
    BY <2>1, <1>2, <1>6, <1>7 DEF Takes
  <2> QED BY <2>2 DEF r
<1> QED BY <1>6, <1>8 DEF p, w, rest

\* The first pass takes the leader of those within quota, or finds none.
LEMMA ScanQuotaMeans ==
    ASSUME RunQueueAssumption, NEW qs, Apart(qs), NEW vs \in Rings, NEW h, AllAlive(h, qs), Weighed
    PROVE  /\ Takes(qs, ScanQuota(h, qs, vs))
           /\ ScanQuota(h, qs, vs).got \in Tasks \cup {NoTask}
           /\ ScanQuota(h, qs, vs).got = NoTask =>
                \A v \in ToSet(vs) : \A t \in ToSet(qs[v]) : OverQuota(GroupOf[t])
           /\ ScanQuota(h, qs, vs).got # NoTask =>
                /\ ~OverQuota(GroupOf[ScanQuota(h, qs, vs).got])
                /\ \E v \in ToSet(vs) : ScanQuota(h, qs, vs).got \in ToSet(qs[v])
           /\ ScanQuota(h, qs, vs).got \in ToSet(qs[vs[1]]) =>
                LeadsQueue(ScanQuota(h, qs, vs).got, qs[vs[1]])
<1> DEFINE es == Entries(qs, vs)
           end == QuotaScan(h, es)
           put == end.back \o end.stash
           r == ScanQuota(h, qs, vs)
           got == IF end.best = <<>> THEN NoTask ELSE end.best[2]
           rest == Restored(qs, vs, put)
<1>0. qs \in Queues /\ \A v \in HartIds : IsInjective(qs[v])
  BY DEF Apart
<1>1. /\ es \in Seq(Entry) /\ IsInjective(es)
      /\ ToSet(es) = {e \in Entry : e[1] \in ToSet(vs) /\ e[2] \in ToSet(qs[e[1]])}
      /\ vs[1] \in HartIds /\ Len(qs[vs[1]]) <= Len(es)
      /\ \A k \in 1 .. Len(qs[vs[1]]) : es[k] = <<vs[1], qs[vs[1]][k]>>
  BY <1>0, EntriesMean
<1>2. \A k \in 1 .. Len(es) : es[k] \in Entry /\ es[k] \in ToSet(es) /\ Alive(h, es[k][2])
  BY EntriesAlive
<1>3. r = [got |-> got, queues |-> rest]
  BY DEF ScanQuota, QuotaScan, NothingHeld, Restored
<1>4. r.got = got /\ r.queues = rest
  <2> HIDE DEF r, got, rest
  <2> QED BY <1>3
<1> HIDE DEF es, r
<1>5. Scanned(es, Len(es), end)
  <2>1. \A k \in 1 .. Len(es) : Cost(es[k]) \in Int
    <3>1. \A k \in 1 .. Len(es) : es[k][2] \in Tasks
      BY <1>2, EntryIs
    <3> QED BY <3>1 DEF Cost, Weighed
  <2>2. \A k \in 1 .. Len(es) : Alive(h, es[k][2])
    BY <1>2
  <2> QED BY <1>1, <2>1, <2>2, QuotaScanMeans
<1>6. Seen(es, Len(es)) = ToSet(es)
  <2>1. DOMAIN es = 1 .. Len(es)
    BY <1>1
  <2> QED BY <2>1 DEF Seen, ToSet
<1> HIDE DEF end
<1>7. /\ end \in Accs /\ Neat(end) /\ end.best \notin Held(end)
      /\ Held(end) \cup ({end.best} \ {<<>>}) = ToSet(es)
  BY <1>5, <1>6 DEF Scanned
<1>8. put \in Seq(Entry) /\ IsInjective(put) /\ ToSet(put) = Held(end)
  <2> DEFINE s == end.stash
             b == end.back
  <2>1. /\ s \in Seq(Entry) /\ b \in Seq(Entry) /\ IsInjective(s) /\ IsInjective(b)
        /\ ToSet(b) \cap ToSet(s) = {} /\ Held(end) = ToSet(b) \cup ToSet(s)
    BY <1>7 DEF Accs, Neat, Held
  <2> HIDE DEF s, b
  <2>2. b \o s \in Seq(Entry) /\ IsInjective(b \o s) /\ ToSet(b \o s) = ToSet(b) \cup ToSet(s)
    BY <2>1, Joined
  <2> QED BY <2>1, <2>2 DEF s, b
<1> HIDE DEF put
<1>9. /\ Apart(rest)
      /\ \A v \in HartIds : v \in ToSet(vs) => ToSet(rest[v]) = {t \in Tasks : <<v, t>> \in ToSet(put)}
      /\ \A v \in HartIds : v \notin ToSet(vs) => rest[v] = qs[v]
  <2>1. ToSet(put) \subseteq ToSet(Entries(qs, vs))
    BY <1>7, <1>8 DEF es
  <2> QED BY <1>8, <2>1, PutBack
<1> HIDE DEF rest
<1>10. \A v \in ToSet(vs) : v \in HartIds
  <2>1. vs \in Seq(HartIds) /\ DOMAIN vs = 1 .. Len(vs)
    BY DEF Rings
  <2> QED BY <2>1 DEF ToSet
<1>11. ASSUME NEW v \in HartIds, v \in ToSet(vs), NEW t \in Tasks
       PROVE  t \in ToSet(qs[v]) <=> <<v, t>> \in ToSet(es)
  <2>1. <<v, t>> \in Entry /\ <<v, t>>[1] = v /\ <<v, t>>[2] = t
    BY DEF Entry
  <2> QED BY <1>1, <1>11, <2>1
<1>12. \A v \in HartIds : ToSet(qs[v]) \subseteq Tasks /\ ToSet(rest[v]) \subseteq Tasks
  BY <1>0, <1>9, QueueSet DEF Apart
<1>13. CASE end.best = <<>>
  <2>1. got = NoTask /\ ToSet(put) = ToSet(es)
    BY <1>7, <1>8, <1>13
  <2>2. \A v \in HartIds : ToSet(rest[v]) = ToSet(qs[v])
    <3>1. ASSUME NEW v \in HartIds, v \in ToSet(vs) PROVE ToSet(rest[v]) = ToSet(qs[v])
      BY <1>9, <1>11, <1>12, <2>1, <3>1
    <3> QED BY <3>1, <1>9
  <2>3. \A k \in 1 .. Len(es) : Over(es[k])
    BY <1>5, <1>13 DEF Scanned
  <2>4. ASSUME NEW v \in ToSet(vs), NEW t \in ToSet(qs[v]) PROVE OverQuota(GroupOf[t])
    <3>1. v \in HartIds /\ t \in Tasks
      BY <1>10, <1>12
    <3>2. <<v, t>> \in ToSet(es)
      BY <1>11, <3>1
    <3>3. PICK k \in 1 .. Len(es) : es[k] = <<v, t>>
      BY <3>2, <1>1 DEF ToSet
    <3>4. es[k][2] = t
      BY <3>3
    <3> QED BY <2>3, <3>3, <3>4 DEF Over
  <2>5. NoTask \notin Tasks
    BY DEF RunQueueAssumption
  <2>6. NoTask \notin ToSet(qs[vs[1]])
    BY <1>1, <1>12, <2>5
  <2> QED BY <1>4, <1>9, <2>1, <2>2, <2>4, <2>6 DEF Takes, r
<1>14. CASE end.best # <<>>
  <2> DEFINE b == end.best
             p == b[2]
  <2>1. b \in Entry /\ b # <<>> /\ b \notin ToSet(put) /\ ToSet(put) \cup {b} = ToSet(es)
    BY <1>7, <1>8, <1>14 DEF Accs
  <2>2. PICK j \in 1 .. Len(es) : es[j] = b /\ Leads(es, Len(es), j)
    BY <1>5, <1>14 DEF Scanned
  <2>3. got = p
    BY <1>14
  <2> HIDE DEF b, got
  <2>4. /\ p \in Tasks /\ b[1] \in ToSet(vs) /\ p \in ToSet(qs[b[1]])
        /\ Takes(qs, [got |-> p, queues |-> Restored(qs, vs, put)])
    <3>1. NoTask \notin Tasks
      BY DEF RunQueueAssumption
    <3>2. ToSet(put) \cup {b} = ToSet(Entries(qs, vs))
      BY <2>1 DEF es
    <3> QED BY <1>8, <2>1, <3>1, <3>2, TakesOne
  <2>5. NoTask \notin Tasks
    BY DEF RunQueueAssumption
  <2>6. b[1] \in HartIds /\ b = <<b[1], p>>
    BY <2>1, EntryIs
  <2> DEFINE w == b[1]
  <2> HIDE DEF p, w
  <2>7. ~OverQuota(GroupOf[p])
    BY <2>2 DEF Leads, Over, p
  <2>8. ASSUME p \in ToSet(qs[vs[1]]) PROVE LeadsQueue(p, qs[vs[1]])
    <3> DEFINE s == qs[vs[1]]
    <3>0. s \in Seq(Tasks) /\ DOMAIN s = 1 .. Len(s) /\ Len(s) \in Nat /\ Len(es) \in Nat
      BY <1>0, <1>1 DEF Queues
    <3>1. PICK i \in 1 .. Len(s) : s[i] = p
      BY <2>8, <3>0 DEF ToSet
    <3>2. \A k \in 1 .. Len(s) : k \in 1 .. Len(es) /\ es[k][2] = s[k]
      BY <1>1, <3>0
    <3>3. i = j
      <4>1. w = vs[1]
        BY <1>1, <2>4, <2>6, <2>8 DEF Apart, w
      <4>2. es[i] = b
        BY <1>1, <2>6, <3>1, <4>1 DEF w
      <4>3. i \in DOMAIN es /\ j \in DOMAIN es
        BY <1>1, <3>2
      <4> QED BY <1>1, <2>2, <4>2, <4>3 DEF IsInjective
    <3>4. ASSUME NEW k \in 1 .. Len(s), ~OverQuota(GroupOf[s[k]]), k # j
          PROVE  \/ Vruntime(GroupOf[p]) < Vruntime(GroupOf[s[k]])
                 \/ Vruntime(GroupOf[p]) = Vruntime(GroupOf[s[k]]) /\ j < k
      <4>1. k \in 1 .. Len(es) /\ ~Over(es[k])
        BY <3>2, <3>4 DEF Over
      <4>2. Cost(es[k]) = Vruntime(GroupOf[s[k]]) /\ Cost(es[j]) = Vruntime(GroupOf[p])
        BY <3>2, <2>2 DEF Cost, p
      <4> QED BY <2>2, <3>4, <4>1, <4>2 DEF Leads
    <3> HIDE DEF s
    <3>5. LeadsQueue(p, s)
      BY <3>1, <3>3, <3>4 DEF LeadsQueue
    <3> QED BY <3>5 DEF s
  <2>9. got # NoTask /\ got \in Tasks
    BY <2>3, <2>4, <2>5 DEF p
  <2>10. Takes(qs, r)
    BY <1>3, <2>3, <2>4 DEF rest, r
  <2> QED BY <1>4, <2>3, <2>4, <2>7, <2>8, <2>9, <2>10 DEF r, p
<1> QED BY <1>13, <1>14

----------------------------------------------------------------------------
(* The second pass *)

\* The second pass takes the first task there is.
LEMMA ScanAnyMeans ==
    ASSUME RunQueueAssumption, NEW qs, Apart(qs), NEW vs \in Rings, NEW h, AllAlive(h, qs)
    PROVE  /\ Takes(qs, ScanAny(h, qs, vs))
           /\ ScanAny(h, qs, vs).got \in Tasks \cup {NoTask}
           /\ ScanAny(h, qs, vs).got = NoTask => \A v \in ToSet(vs) : ToSet(qs[v]) = {}
           /\ ScanAny(h, qs, vs).got # NoTask => \E v \in ToSet(vs) : ScanAny(h, qs, vs).got \in ToSet(qs[v])
<1> DEFINE es == Entries(qs, vs)
           r == ScanAny(h, qs, vs)
           hits == {i \in DOMAIN es : Alive(h, es[i][2])}
           at == IF hits = {} THEN Len(es) ELSE Min(hits)
           put == SubSeq(es, at + 1, Len(es))
           got == IF hits = {} THEN NoTask ELSE es[at][2]
<1>0. qs \in Queues /\ (\A v \in HartIds : IsInjective(qs[v])) /\ NoTask \notin Tasks
  BY DEF Apart, RunQueueAssumption
<1>1. /\ es \in Seq(Entry) /\ IsInjective(es)
      /\ ToSet(es) = {e \in Entry : e[1] \in ToSet(vs) /\ e[2] \in ToSet(qs[e[1]])}
  BY <1>0, EntriesMean
<1>2. r = [got |-> got, queues |-> Restored(qs, vs, put)]
  BY DEF ScanAny, Restored
<1>3. hits = 1 .. Len(es)
  <2>1. \A k \in 1 .. Len(es) : Alive(h, es[k][2])
    BY EntriesAlive
  <2>2. DOMAIN es = 1 .. Len(es)
    BY <1>1
  <2> HIDE DEF es
  <2> QED BY <2>1, <2>2
<1>4. \A v \in ToSet(vs) : v \in HartIds
  <2>1. vs \in Seq(HartIds) /\ DOMAIN vs = 1 .. Len(vs)
    BY DEF Rings
  <2> QED BY <2>1 DEF ToSet
<1> HIDE DEF es, r, hits
<1>5. CASE es = <<>>
  <2>1. hits = {} /\ at = 0 /\ put = <<>> /\ Len(es) = 0
    <3>1. hits = {} /\ Len(es) = 0
      BY <1>3, <1>5
    <3>2. at = 0 /\ SubSeq(es, 0 + 1, 0) = <<>>
      BY <3>1
    <3> QED BY <3>1, <3>2
  <2>2. r = [got |-> NoTask, queues |-> Restored(qs, vs, <<>>)]
    BY <1>2, <2>1
  <2>3. ToSet(es) = {}
    BY <1>5, EmptyIs
  <2>4. ASSUME NEW v \in ToSet(vs), NEW t \in ToSet(qs[v]) PROVE FALSE
    <3>1. v \in HartIds /\ t \in Tasks
      BY <1>0, <1>4, QueueSet
    <3>2. <<v, t>> \in Entry /\ <<v, t>>[1] = v /\ <<v, t>>[2] = t
      BY <3>1 DEF Entry
    <3> QED BY <1>1, <2>3, <3>2
  <2> DEFINE rest == Restored(qs, vs, <<>>)
  <2>5. /\ Apart(rest)
        /\ \A v \in HartIds : v \in ToSet(vs) => ToSet(rest[v]) = {t \in Tasks : <<v, t>> \in ToSet(<<>>)}
        /\ \A v \in HartIds : v \notin ToSet(vs) => rest[v] = qs[v]
    <3> DEFINE e == <<>>
    <3>1. e \in Seq(Entry) /\ IsInjective(e) /\ ToSet(e) \subseteq ToSet(Entries(qs, vs))
      BY EmptyIs
    <3> HIDE DEF e
    <3>2. /\ Apart(Restored(qs, vs, e))
          /\ \A v \in HartIds : v \in ToSet(vs) =>
                ToSet(Restored(qs, vs, e)[v]) = {t \in Tasks : <<v, t>> \in ToSet(e)}
          /\ \A v \in HartIds : v \notin ToSet(vs) => Restored(qs, vs, e)[v] = qs[v]
      BY <3>1, PutBack
    <3> QED BY <3>2 DEF e
  <2> HIDE DEF rest
  <2>6. \A v \in HartIds : ToSet(rest[v]) = ToSet(qs[v])
    BY <2>4, <2>5, EmptyIs
  <2>7. r.got = NoTask /\ r.queues = rest
    BY <2>2 DEF rest
  <2>8. Takes(qs, r)
    BY <2>5, <2>6, <2>7 DEF Takes
  <2> QED BY <2>4, <2>7, <2>8 DEF r
<1>6. CASE es # <<>>
  <2>1. Len(es) \in Nat /\ Len(es) >= 1
    BY <1>1, <1>6, EmptySeq
  <2>2. hits # {} /\ 1 \in hits /\ \A i \in hits : i \in Int /\ 1 <= i
    BY <1>3, <2>1
  <2>3. at = 1
    <3>1. at = CHOOSE x \in hits : \A y \in hits : x =< y
      BY <2>2 DEF Min
    <3>2. at \in hits /\ at =< 1
      BY <3>1, <2>2
    <3> HIDE DEF at
    <3> QED BY <3>2, <2>2
  <2> DEFINE b == es[1]
             rest == SubSeq(es, 2, Len(es))
  <2>4. /\ b \in Entry /\ rest \in Seq(Entry) /\ IsInjective(rest)
        /\ b \in ToSet(es) /\ ToSet(rest) = ToSet(es) \ {b}
    BY <1>1, <1>6, Without
  <2>5. put = rest /\ got = b[2]
    <3> HIDE DEF at
    <3>1. at + 1 = 2
      BY <2>3
    <3> QED BY <2>2, <2>3, <3>1
  <2> HIDE DEF b, rest, put, got
  <2>6. /\ b[2] \in Tasks /\ b[1] \in ToSet(vs) /\ b[2] \in ToSet(qs[b[1]])
        /\ Takes(qs, [got |-> b[2], queues |-> Restored(qs, vs, rest)])
    <3>1. b \notin ToSet(rest) /\ ToSet(rest) \cup {b} = ToSet(Entries(qs, vs))
      BY <2>4 DEF es
    <3> QED BY <1>0, <2>4, <3>1, TakesOne
  <2>7. r = [got |-> b[2], queues |-> Restored(qs, vs, rest)]
    BY <1>2, <2>5
  <2>8. r.got = b[2]
    BY <2>7
  <2> QED BY <1>0, <2>6, <2>7, <2>8 DEF r
<1> QED BY <1>5, <1>6

----------------------------------------------------------------------------
(* The order in which a hart looks at the queues *)

\* One lap of the harts and no more.
LEMMA Turned ==
    ASSUME NEW n \in Nat, n > 0, NEW x \in Nat, x < 2 * n
    PROVE  x % n = IF x < n THEN x ELSE x - n
<1>1. x % n \in 0 .. n - 1 /\ x \div n \in Int /\ x = n * (x \div n) + (x % n)
  BY Z3
<1> QED BY <1>1, Z3

LEMMA RingIs ==
    ASSUME RunQueueAssumption, NEW h \in HartIds
    PROVE  /\ Ring(h) \in Rings /\ Ring(h)[1] = h /\ ToSet(Ring(h)) = HartIds
           /\ Len(Ring(h)) = NHarts /\ \A i \in 1 .. NHarts : Ring(h)[i] \in HartIds
<1> DEFINE r == Ring(h)
           At(i) == IF h + i - 1 < NHarts THEN h + i - 1 ELSE h + i - 1 - NHarts
<1>1. NHarts \in Nat /\ NHarts > 0 /\ h \in Nat /\ h < NHarts
  BY DEF RunQueueAssumption, HartIds
<1>2. r = [i \in 1 .. NHarts |-> (h + i - 1) % NHarts]
  BY DEF Ring
<1>3. ASSUME NEW i \in 1 .. NHarts PROVE (h + i - 1) % NHarts = At(i) /\ At(i) \in HartIds
  <2> DEFINE x == h + i - 1
  <2>1. x \in Nat /\ x < 2 * NHarts
    BY <1>1
  <2> HIDE DEF x
  <2>2. x % NHarts = IF x < NHarts THEN x ELSE x - NHarts
    BY <1>1, <2>1, Turned
  <2>3. x % NHarts = At(i)
    <3> DEFINE y == x % NHarts
    <3>1. y = IF x < NHarts THEN x ELSE x - NHarts
      BY <2>2
    <3>2. x = h + i - 1
      BY DEF x
    <3> HIDE DEF y
    <3>3. y = At(i)
      BY <1>1, <2>1, <3>1, <3>2
    <3> QED BY <3>3 DEF y
  <2>4. At(i) \in HartIds
    BY <1>1 DEF HartIds
  <2> QED BY <2>3, <2>4 DEF x
<1>4. r = [i \in 1 .. NHarts |-> At(i)] /\ \A i \in 1 .. NHarts : r[i] = At(i) /\ At(i) \in HartIds
  <2> HIDE DEF At
  <2> QED BY <1>2, <1>3
<1> HIDE DEF r
<1>5. r \in Seq(HartIds) /\ Len(r) = NHarts /\ DOMAIN r = 1 .. NHarts
  <2> HIDE DEF At
  <2> QED BY <1>1, <1>4
<1>6. r # <<>>
  BY <1>1, <1>5
<1>7. IsInjective(r)
  <2>1. ASSUME NEW i \in 1 .. NHarts, NEW j \in 1 .. NHarts, At(i) = At(j) PROVE i = j
    BY <1>1, <2>1
  <2> HIDE DEF At
  <2> QED BY <1>4, <1>5, <2>1 DEF IsInjective
<1>8. r[1] = h
  <2>1. 1 \in 1 .. NHarts /\ At(1) = h
    BY <1>1
  <2> HIDE DEF At
  <2> QED BY <1>4, <2>1
<1>9. ToSet(r) = HartIds
  <2>1. ASSUME NEW v \in HartIds PROVE v \in ToSet(r)
    <3> DEFINE i == IF h <= v THEN v - h + 1 ELSE v - h + 1 + NHarts
    <3>1. i \in 1 .. NHarts /\ At(i) = v
      BY <1>1 DEF HartIds
    <3> HIDE DEF i, At
    <3> QED BY <3>1, <1>4, <1>5 DEF ToSet
  <2>2. \A v \in ToSet(r) : v \in HartIds
    <3> HIDE DEF At
    <3> QED BY <1>4, <1>5 DEF ToSet
  <2> QED BY <2>1, <2>2
<1>10. \A i \in 1 .. NHarts : r[i] \in HartIds
  <2> HIDE DEF At
  <2> QED BY <1>4
<1> QED BY <1>5, <1>6, <1>7, <1>8, <1>9, <1>10 DEF Rings, r

LEMMA OneQueue ==
    ASSUME NEW v \in HartIds PROVE <<v>> \in Rings /\ ToSet(<<v>>) = {v} /\ <<v>>[1] = v
<1>1. <<v>> \in Seq(HartIds) /\ <<v>> # <<>> /\ DOMAIN <<v>> = {1} /\ <<v>>[1] = v
  OBVIOUS
<1> DEFINE s == <<v>>
<1> HIDE DEF s
<1>2. s \in Seq(HartIds) /\ s # <<>> /\ DOMAIN s = {1} /\ s[1] = v
  BY <1>1 DEF s
<1>3. ToSet(s) = {v} /\ IsInjective(s)
  BY <1>2 DEF ToSet, IsInjective
<1> QED BY <1>2, <1>3 DEF Rings, s

----------------------------------------------------------------------------
(* pick_pass, pick_locked and find_next *)

Picks(h) == {r \in [got : Tasks \cup {NoTask}, queues : Queues] :
                Apart(r.queues) /\ AllAlive(h, r.queues)}

LEMMA TakesAlive ==
    ASSUME NEW qs, NEW r, NEW h, Takes(qs, r), AllAlive(h, qs)
    PROVE  AllAlive(h, r.queues)
BY DEF Takes, AllAlive

LEMMA TakesTwice ==
    ASSUME NEW qs, NEW one, NEW two, Takes(qs, one), one.got = NoTask, Takes(one.queues, two)
    PROVE  Takes(qs, two)
<1>1. \A v \in HartIds : ToSet(one.queues[v]) = ToSet(qs[v])
  BY DEF Takes
<1>2. Apart(two.queues)
  BY DEF Takes
<1>3. two.got = NoTask => \A v \in HartIds : ToSet(two.queues[v]) = ToSet(qs[v])
  BY <1>1 DEF Takes
<1>4. two.got # NoTask =>
          /\ \E v \in HartIds : two.got \in ToSet(qs[v])
          /\ \A v \in HartIds : ToSet(two.queues[v]) = ToSet(qs[v]) \ {two.got}
  BY <1>1 DEF Takes
<1> QED BY <1>2, <1>3, <1>4 DEF Takes

\* What the scans return is a pick.
LEMMA ScansPick ==
    ASSUME RunQueueAssumption, NEW h, NEW r \in Picks(h), NEW v \in HartIds
    PROVE  /\ Weighed => ScanQuota(h, r.queues, <<v>>) \in Picks(h)
           /\ ScanAny(h, r.queues, <<v>>) \in Picks(h)
<1> DEFINE qs == r.queues
           vs == <<v>>
           s == ScanQuota(h, qs, vs)
           a == ScanAny(h, qs, vs)
<1>1. Apart(qs) /\ AllAlive(h, qs) /\ vs \in Rings
  BY OneQueue DEF Picks
<1> HIDE DEF qs, vs
<1>2. ASSUME NEW x, Takes(qs, x), x.got \in Tasks \cup {NoTask}, x = [got |-> x.got, queues |-> x.queues]
      PROVE  x \in Picks(h)
  <2>1. Apart(x.queues) /\ x.queues \in Queues
    BY <1>2 DEF Takes, Apart
  <2>2. AllAlive(h, x.queues)
    BY <1>1, <1>2, TakesAlive
  <2>3. x \in [got : Tasks \cup {NoTask}, queues : Queues]
    BY <1>2, <2>1
  <2> QED BY <2>1, <2>2, <2>3 DEF Picks
<1>3. Weighed => s \in Picks(h)
  <2> SUFFICES ASSUME Weighed PROVE s \in Picks(h)
    OBVIOUS
  <2>1. Takes(qs, s) /\ s.got \in Tasks \cup {NoTask}
    BY <1>1, ScanQuotaMeans
  <2>2. s = [got |-> s.got, queues |-> s.queues]
    BY DEF ScanQuota
  <2> HIDE DEF s
  <2> QED BY <2>1, <2>2, <1>2
<1>4. a \in Picks(h)
  <2>1. Takes(qs, a) /\ a.got \in Tasks \cup {NoTask}
    BY <1>1, ScanAnyMeans
  <2>2. a = [got |-> a.got, queues |-> a.queues]
    BY DEF ScanAny
  <2> HIDE DEF a
  <2> QED BY <2>1, <2>2, <1>2
<1> QED BY <1>3, <1>4 DEF qs, vs

Start(qs) == [got |-> NoTask, queues |-> qs]

\* The passes of pick_locked, as PickPass has them.
QuotaPass(h, qs) ==
    LET pass[i \in 0 .. NHarts] ==
            IF i = 0 THEN Start(qs)
            ELSE IF pass[i - 1].got # NoTask THEN pass[i - 1]
            ELSE ScanQuota(h, pass[i - 1].queues, <<Ring(h)[i]>>)
    IN pass[NHarts]

AnyPass(h, qs) ==
    LET pass[i \in 0 .. NHarts] ==
            IF i = 0 THEN Start(qs)
            ELSE IF pass[i - 1].got # NoTask THEN pass[i - 1]
            ELSE ScanAny(h, pass[i - 1].queues, <<Ring(h)[i]>>)
    IN pass[NHarts]

LEMMA PassesAre ==
    ASSUME NEW h, NEW qs
    PROVE  PickPass(ScanQuota, h, qs) = QuotaPass(h, qs) /\ PickPass(ScanAny, h, qs) = AnyPass(h, qs)
BY DEF PickPass, QuotaPass, AnyPass, Start

\* Where the first pass stands after i queues.
Passed(h, qs, i, r) ==
    /\ r \in Picks(h) /\ Takes(qs, r)
    /\ i = 0 => r = Start(qs)
    /\ r.got = NoTask => \A k \in 1 .. i : \A t \in ToSet(qs[Ring(h)[k]]) : OverQuota(GroupOf[t])
    /\ r.got # NoTask => ~OverQuota(GroupOf[r.got])
    /\ r.got \in ToSet(qs[h]) => LeadsQueue(r.got, qs[h])

LEMMA StartIs ==
    ASSUME RunQueueAssumption, NEW h \in HartIds, NEW qs, Apart(qs), AllAlive(h, qs)
    PROVE  Start(qs) \in Picks(h) /\ Takes(qs, Start(qs)) /\ NoTask \notin ToSet(qs[h])
<1>1. Start(qs).got = NoTask /\ Start(qs).queues = qs /\ qs \in Queues
  BY DEF Start, Apart
<1>2. Start(qs) \in Picks(h)
  BY <1>1 DEF Start, Picks
<1>3. Takes(qs, Start(qs))
  BY <1>1 DEF Takes
<1>4. NoTask \notin ToSet(qs[h])
  BY <1>1, QueueSet DEF RunQueueAssumption
<1> QED BY <1>2, <1>3, <1>4

LEMMA PassedStep ==
    ASSUME RunQueueAssumption, NEW h \in HartIds, NEW qs, Apart(qs), AllAlive(h, qs), Weighed,
           NEW i \in 1 .. NHarts, NEW r, Passed(h, qs, i - 1, r), r.got = NoTask
    PROVE  Passed(h, qs, i, ScanQuota(h, r.queues, <<Ring(h)[i]>>))
<1> DEFINE v == Ring(h)[i]
           vs == <<v>>
           q == r.queues
           s == ScanQuota(h, q, vs)
<1>1. v \in HartIds /\ vs \in Rings /\ ToSet(vs) = {v} /\ vs[1] = v
  BY RingIs, OneQueue
<1>2. r \in Picks(h) /\ Takes(qs, r) /\ Apart(q) /\ AllAlive(h, q)
  BY DEF Passed, Picks
<1>3. s \in Picks(h)
  BY <1>1, <1>2, ScansPick
<1> HIDE DEF s, vs, v
<1>4. /\ Takes(q, s) /\ s.got \in Tasks \cup {NoTask}
      /\ s.got = NoTask => \A w \in ToSet(vs) : \A t \in ToSet(q[w]) : OverQuota(GroupOf[t])
      /\ s.got # NoTask => /\ ~OverQuota(GroupOf[s.got])
                           /\ \E w \in ToSet(vs) : s.got \in ToSet(q[w])
      /\ s.got \in ToSet(q[vs[1]]) => LeadsQueue(s.got, q[vs[1]])
  <2> HIDE DEF q
  <2> QED BY <1>1, <1>2, ScanQuotaMeans DEF s
<1>5. \A w \in HartIds : ToSet(q[w]) = ToSet(qs[w])
  BY <1>2 DEF Takes
<1>6. Takes(qs, s)
  BY <1>2, <1>4, TakesTwice
<1>7. s.got = NoTask => \A k \in 1 .. i : \A t \in ToSet(qs[Ring(h)[k]]) : OverQuota(GroupOf[t])
  <2> SUFFICES ASSUME s.got = NoTask, NEW k \in 1 .. i, NEW t \in ToSet(qs[Ring(h)[k]])
               PROVE  OverQuota(GroupOf[t])
    OBVIOUS
  <2>1. CASE k \in 1 .. i - 1
    BY <2>1 DEF Passed
  <2>2. CASE k = i
    BY <1>1, <1>4, <1>5, <2>2 DEF v
  <2>3. i \in Int /\ (k \in 1 .. i - 1 \/ k = i)
    OBVIOUS
  <2> QED BY <2>1, <2>2, <2>3
<1>8. s.got \in ToSet(qs[h]) => LeadsQueue(s.got, qs[h])
  <2> SUFFICES ASSUME s.got \in ToSet(qs[h]) PROVE LeadsQueue(s.got, qs[h])
    OBVIOUS
  <2>1. s.got # NoTask
    BY StartIs
  <2>2. s.got \in ToSet(qs[v])
    BY <1>1, <1>4, <1>5, <2>1
  <2>3. v = h
    BY <1>1, <2>2 DEF Apart
  <2>4. i = 1
    <3>1. Ring(h)[1] = h /\ IsInjective(Ring(h)) /\ DOMAIN Ring(h) = 1 .. NHarts
      BY RingIs DEF Rings, Ring
    <3>2. NHarts \in Nat
      BY DEF RunQueueAssumption
    <3> QED BY <2>3, <3>1, <3>2 DEF IsInjective, v
  <2>5. q = qs
    <3>1. i - 1 = 0
      BY <2>4
    <3> QED BY <3>1 DEF Passed, Start
  <2> QED BY <1>1, <1>4, <2>2, <2>3, <2>5
<1>9. i # 0
  OBVIOUS
<1> QED BY <1>3, <1>4, <1>6, <1>7, <1>8, <1>9 DEF Passed, s, vs, v

\* The first pass over all the queues takes a task within quota if there is one.
LEMMA QuotaPassMeans ==
    ASSUME RunQueueAssumption, NEW h \in HartIds, NEW qs, Apart(qs), AllAlive(h, qs), Weighed
    PROVE  /\ QuotaPass(h, qs) \in Picks(h) /\ Takes(qs, QuotaPass(h, qs))
           /\ QuotaPass(h, qs).got = NoTask =>
                \A v \in HartIds : \A t \in ToSet(qs[v]) : OverQuota(GroupOf[t])
           /\ QuotaPass(h, qs).got # NoTask => ~OverQuota(GroupOf[QuotaPass(h, qs).got])
           /\ QuotaPass(h, qs).got \in ToSet(qs[h]) => LeadsQueue(QuotaPass(h, qs).got, qs[h])
<1> DEFINE n == NHarts
           Goes(f, i) == IF i = 0 THEN Start(qs)
                         ELSE IF f[i - 1].got # NoTask THEN f[i - 1]
                         ELSE ScanQuota(h, f[i - 1].queues, <<Ring(h)[i]>>)
           W == CHOOSE f : f = [i \in 0 .. n |-> Goes(f, i)]
           step == [i \in 0 + 1 .. n |-> [r \in Picks(h) |->
                      IF r.got # NoTask THEN r ELSE ScanQuota(h, r.queues, <<Ring(h)[i]>>)]]
<1>1. n \in Nat /\ n > 0
  BY DEF RunQueueAssumption
<1>2. step \in Steps(0, n, Picks(h))
  <2>1. ASSUME NEW i \in 0 + 1 .. n, NEW r \in Picks(h)
        PROVE  ScanQuota(h, r.queues, <<Ring(h)[i]>>) \in Picks(h)
    <3>1. Ring(h)[i] \in HartIds
      BY RingIs
    <3> QED BY <3>1, ScansPick
  <2> QED BY <2>1 DEF Steps
<1>3. Start(qs) \in Picks(h) /\ Takes(qs, Start(qs)) /\ NoTask \notin ToSet(qs[h])
  BY StartIs
<1>4. PICK f \in [0 .. n -> Picks(h)] :
         f[0] = Start(qs) /\ \A i \in 0 + 1 .. n : f[i] = step[i][f[i - 1]]
  <2> DEFINE S == Picks(h)
             c == Start(qs)
  <2> HIDE DEF step, n, S, c
  <2>1. 0 \in Nat /\ 0 <= n
    BY <1>1
  <2>2. step \in Steps(0, n, S) /\ c \in S
    BY <1>2, <1>3 DEF S, c
  <2>3. \E f : Follows(f, 0, n, S, c, step)
    BY <1>1, <2>1, <2>2, Iterates
  <2> QED BY <2>3 DEF Follows, S, c
<1>5. f = [i \in 0 .. n |-> Goes(f, i)]
  <2>1. ASSUME NEW i \in 0 .. n PROVE f[i] = Goes(f, i)
    <3>1. CASE i = 0
      BY <1>4, <3>1
    <3>2. CASE i # 0
      <4>1. i \in 0 + 1 .. n /\ i - 1 \in 0 .. n
        BY <1>1, <3>2
      <4>2. f[i] = step[i][f[i - 1]] /\ f[i - 1] \in Picks(h)
        BY <1>4, <4>1
      <4> QED BY <3>2, <4>1, <4>2
    <3> QED BY <3>1, <3>2
  <2> HIDE DEF Goes
  <2> QED BY <2>1
<1>6. W = [i \in 0 .. n |-> Goes(W, i)]
  <2> HIDE DEF Goes
  <2> QED BY <1>5
<1>7. QuotaPass(h, qs) = W[n]
  BY DEF QuotaPass
<1>8. \A i \in 0 .. n : W[i] = Goes(W, i)
  BY <1>6
<1> HIDE DEF W, step
<1> DEFINE B == {i \in 0 .. n : Passed(h, qs, i, W[i])}
<1>9. 0 \in B
  <2>1. W[0] = Start(qs) /\ 0 \in 0 .. n
    <3>1. 0 \in 0 .. n
      BY <1>1
    <3>2. W[0] = Goes(W, 0)
      <4> HIDE DEF Goes
      <4> QED BY <1>8, <3>1
    <3> QED BY <3>1, <3>2
  <2>2. Start(qs).got = NoTask /\ \A k \in 1 .. 0 : FALSE
    BY DEF Start
  <2>3. Passed(h, qs, 0, Start(qs))
    BY <1>3, <2>2 DEF Passed
  <2> QED BY <2>1, <2>3
<1>10. ASSUME NEW i \in 0 .. n, i \in B, i < n PROVE i + 1 \in B
  <2> DEFINE m == i + 1
             r == W[i]
  <2>1. m \in 0 .. n /\ m \in 1 .. NHarts /\ m - 1 = i /\ m # 0
    BY <1>1, <1>10
  <2>2. W[m] = IF r.got # NoTask THEN r ELSE ScanQuota(h, r.queues, <<Ring(h)[m]>>)
    <3> HIDE DEF m
    <3> QED BY <1>8, <2>1
  <2>3. Passed(h, qs, m - 1, r)
    BY <1>10, <2>1
  <2> HIDE DEF m, r
  <2>4. CASE r.got # NoTask
    <3>1. W[m] = r
      BY <2>2, <2>4
    <3>2. Passed(h, qs, m, r)
      BY <2>1, <2>3, <2>4 DEF Passed
    <3> QED BY <2>1, <3>1, <3>2 DEF m
  <2>5. CASE r.got = NoTask
    <3>1. Passed(h, qs, m, ScanQuota(h, r.queues, <<Ring(h)[m]>>))
      BY <2>1, <2>3, <2>5, PassedStep
    <3> QED BY <2>1, <2>2, <2>5, <3>1 DEF m
  <2> QED BY <2>4, <2>5
<1> HIDE DEF B
<1>11. n \in B
  <2>1. \A k \in 0 .. n : k \in B
    BY <1>1, <1>9, <1>10, UpTo
  <2> QED BY <1>1, <2>1
<1>12. Passed(h, qs, NHarts, QuotaPass(h, qs)) /\ NHarts # 0
  BY <1>1, <1>7, <1>11 DEF B
<1> DEFINE r == QuotaPass(h, qs)
<1> HIDE DEF r
<1>13. r.got = NoTask => \A v \in HartIds : \A t \in ToSet(qs[v]) : OverQuota(GroupOf[t])
  <2> SUFFICES ASSUME r.got = NoTask, NEW v \in HartIds, NEW t \in ToSet(qs[v])
               PROVE  OverQuota(GroupOf[t])
    OBVIOUS
  <2>1. PICK k \in 1 .. NHarts : Ring(h)[k] = v
    <3>1. v \in ToSet(Ring(h))
      BY RingIs
    <3>2. DOMAIN Ring(h) = 1 .. NHarts
      BY DEF Ring
    <3> QED BY <3>1, <3>2 DEF ToSet
  <2>2. \A t2 \in ToSet(qs[Ring(h)[k]]) : OverQuota(GroupOf[t2])
    BY <1>12 DEF Passed, r
  <2> QED BY <2>1, <2>2
<1> QED BY <1>12, <1>13 DEF Passed, r

\* Where the second pass stands after i queues.
PassedAny(h, qs, i, r) ==
    /\ r \in Picks(h) /\ Takes(qs, r)
    /\ r.got = NoTask => \A k \in 1 .. i : ToSet(qs[Ring(h)[k]]) = {}

LEMMA PassedAnyStep ==
    ASSUME RunQueueAssumption, NEW h \in HartIds, NEW qs, Apart(qs), AllAlive(h, qs),
           NEW i \in 1 .. NHarts, NEW r, PassedAny(h, qs, i - 1, r), r.got = NoTask
    PROVE  PassedAny(h, qs, i, ScanAny(h, r.queues, <<Ring(h)[i]>>))
<1> DEFINE v == Ring(h)[i]
           vs == <<v>>
           q == r.queues
           s == ScanAny(h, q, vs)
<1>1. v \in HartIds /\ vs \in Rings /\ ToSet(vs) = {v}
  BY RingIs, OneQueue
<1>2. r \in Picks(h) /\ Takes(qs, r) /\ Apart(q) /\ AllAlive(h, q)
  BY DEF PassedAny, Picks
<1>3. s \in Picks(h)
  BY <1>1, <1>2, ScansPick
<1> HIDE DEF s, vs, v
<1>4. Takes(q, s) /\ (s.got = NoTask => \A w \in ToSet(vs) : ToSet(q[w]) = {})
  <2> HIDE DEF q
  <2> QED BY <1>1, <1>2, ScanAnyMeans DEF s
<1>5. \A w \in HartIds : ToSet(q[w]) = ToSet(qs[w])
  BY <1>2 DEF Takes
<1>6. Takes(qs, s)
  BY <1>2, <1>4, TakesTwice
<1>7. s.got = NoTask => \A k \in 1 .. i : ToSet(qs[Ring(h)[k]]) = {}
  <2> SUFFICES ASSUME s.got = NoTask, NEW k \in 1 .. i PROVE ToSet(qs[Ring(h)[k]]) = {}
    OBVIOUS
  <2>1. CASE k \in 1 .. i - 1
    BY <2>1 DEF PassedAny
  <2>2. CASE k = i
    BY <1>1, <1>4, <1>5, <2>2 DEF v
  <2>3. i \in Int /\ (k \in 1 .. i - 1 \/ k = i)
    OBVIOUS
  <2> QED BY <2>1, <2>2, <2>3
<1> QED BY <1>3, <1>6, <1>7 DEF PassedAny, s, vs, v

\* The second pass over all the queues takes a task if there is one.
LEMMA AnyPassMeans ==
    ASSUME RunQueueAssumption, NEW h \in HartIds, NEW qs, Apart(qs), AllAlive(h, qs)
    PROVE  /\ AnyPass(h, qs) \in Picks(h) /\ Takes(qs, AnyPass(h, qs))
           /\ AnyPass(h, qs).got = NoTask => \A v \in HartIds : ToSet(qs[v]) = {}
<1> DEFINE n == NHarts
           Goes(f, i) == IF i = 0 THEN Start(qs)
                         ELSE IF f[i - 1].got # NoTask THEN f[i - 1]
                         ELSE ScanAny(h, f[i - 1].queues, <<Ring(h)[i]>>)
           W == CHOOSE f : f = [i \in 0 .. n |-> Goes(f, i)]
           step == [i \in 0 + 1 .. n |-> [r \in Picks(h) |->
                      IF r.got # NoTask THEN r ELSE ScanAny(h, r.queues, <<Ring(h)[i]>>)]]
<1>1. n \in Nat /\ n > 0
  BY DEF RunQueueAssumption
<1>2. step \in Steps(0, n, Picks(h))
  <2>1. ASSUME NEW i \in 0 + 1 .. n, NEW r \in Picks(h)
        PROVE  ScanAny(h, r.queues, <<Ring(h)[i]>>) \in Picks(h)
    <3>1. Ring(h)[i] \in HartIds
      BY RingIs
    <3> QED BY <3>1, ScansPick
  <2> QED BY <2>1 DEF Steps
<1>3. Start(qs) \in Picks(h) /\ Takes(qs, Start(qs)) /\ NoTask \notin ToSet(qs[h])
  BY StartIs
<1>4. PICK f \in [0 .. n -> Picks(h)] :
         f[0] = Start(qs) /\ \A i \in 0 + 1 .. n : f[i] = step[i][f[i - 1]]
  <2> DEFINE S == Picks(h)
             c == Start(qs)
  <2> HIDE DEF step, n, S, c
  <2>1. 0 \in Nat /\ 0 <= n
    BY <1>1
  <2>2. step \in Steps(0, n, S) /\ c \in S
    BY <1>2, <1>3 DEF S, c
  <2>3. \E f : Follows(f, 0, n, S, c, step)
    BY <1>1, <2>1, <2>2, Iterates
  <2> QED BY <2>3 DEF Follows, S, c
<1>5. f = [i \in 0 .. n |-> Goes(f, i)]
  <2>1. ASSUME NEW i \in 0 .. n PROVE f[i] = Goes(f, i)
    <3>1. CASE i = 0
      BY <1>4, <3>1
    <3>2. CASE i # 0
      <4>1. i \in 0 + 1 .. n /\ i - 1 \in 0 .. n
        BY <1>1, <3>2
      <4>2. f[i] = step[i][f[i - 1]] /\ f[i - 1] \in Picks(h)
        BY <1>4, <4>1
      <4> QED BY <3>2, <4>1, <4>2
    <3> QED BY <3>1, <3>2
  <2> HIDE DEF Goes
  <2> QED BY <2>1
<1>6. W = [i \in 0 .. n |-> Goes(W, i)]
  <2> HIDE DEF Goes
  <2> QED BY <1>5
<1>7. AnyPass(h, qs) = W[n]
  BY DEF AnyPass
<1>8. \A i \in 0 .. n : W[i] = Goes(W, i)
  BY <1>6
<1> HIDE DEF W, step
<1> DEFINE B == {i \in 0 .. n : PassedAny(h, qs, i, W[i])}
<1>9. 0 \in B
  <2>1. W[0] = Start(qs) /\ 0 \in 0 .. n
    <3>1. 0 \in 0 .. n
      BY <1>1
    <3>2. W[0] = Goes(W, 0)
      <4> HIDE DEF Goes
      <4> QED BY <1>8, <3>1
    <3> QED BY <3>1, <3>2
  <2>2. Start(qs).got = NoTask /\ \A k \in 1 .. 0 : FALSE
    BY DEF Start
  <2>3. PassedAny(h, qs, 0, Start(qs))
    BY <1>3, <2>2 DEF PassedAny
  <2> QED BY <2>1, <2>3
<1>10. ASSUME NEW i \in 0 .. n, i \in B, i < n PROVE i + 1 \in B
  <2> DEFINE m == i + 1
             r == W[i]
  <2>1. m \in 0 .. n /\ m \in 1 .. NHarts /\ m - 1 = i /\ m # 0
    BY <1>1, <1>10
  <2>2. W[m] = IF r.got # NoTask THEN r ELSE ScanAny(h, r.queues, <<Ring(h)[m]>>)
    <3> HIDE DEF m
    <3> QED BY <1>8, <2>1
  <2>3. PassedAny(h, qs, m - 1, r)
    BY <1>10, <2>1
  <2> HIDE DEF m, r
  <2>4. CASE r.got # NoTask
    <3>1. W[m] = r
      BY <2>2, <2>4
    <3>2. PassedAny(h, qs, m, r)
      BY <2>1, <2>3, <2>4 DEF PassedAny
    <3> QED BY <2>1, <3>1, <3>2 DEF m
  <2>5. CASE r.got = NoTask
    <3>1. PassedAny(h, qs, m, ScanAny(h, r.queues, <<Ring(h)[m]>>))
      BY <2>1, <2>3, <2>5, PassedAnyStep
    <3> QED BY <2>1, <2>2, <2>5, <3>1 DEF m
  <2> QED BY <2>4, <2>5
<1> HIDE DEF B
<1>11. n \in B
  <2>1. \A k \in 0 .. n : k \in B
    BY <1>1, <1>9, <1>10, UpTo
  <2> QED BY <1>1, <2>1
<1>12. PassedAny(h, qs, NHarts, AnyPass(h, qs)) /\ NHarts # 0
  BY <1>1, <1>7, <1>11 DEF B
<1> DEFINE r == AnyPass(h, qs)
<1> HIDE DEF r
<1>13. r.got = NoTask => \A v \in HartIds : ToSet(qs[v]) = {}
  <2> SUFFICES ASSUME r.got = NoTask, NEW v \in HartIds PROVE ToSet(qs[v]) = {}
    OBVIOUS
  <2>1. PICK k \in 1 .. NHarts : Ring(h)[k] = v
    <3>1. v \in ToSet(Ring(h))
      BY RingIs
    <3>2. DOMAIN Ring(h) = 1 .. NHarts
      BY DEF Ring
    <3> QED BY <3>1, <3>2 DEF ToSet
  <2>2. ToSet(qs[Ring(h)[k]]) = {}
    BY <1>12 DEF PassedAny, r
  <2> QED BY <2>1, <2>2
<1> QED BY <1>12, <1>13 DEF PassedAny, r

\* What a pick promises, of pick_locked and of find_next.
Good(h, qs, r) ==
    /\ r.got \in Tasks \cup {NoTask} /\ Takes(qs, r)
    /\ r.got = NoTask => \A v \in HartIds : ToSet(qs[v]) = {}
    /\ r.got # NoTask /\ OverQuota(GroupOf[r.got]) =>
          \A v \in HartIds : \A t \in ToSet(qs[v]) : OverQuota(GroupOf[t])
    /\ r.got \in ToSet(qs[h]) /\ ~OverQuota(GroupOf[r.got]) => LeadsQueue(r.got, qs[h])

\* When the first pass finds none, all that wait are over quota, and the second
\* takes any of them.
LEMMA SecondGood ==
    ASSUME NEW h \in HartIds, NEW qs, NEW one, NEW two, Takes(qs, one), one.got = NoTask,
           \A v \in HartIds : \A t \in ToSet(qs[v]) : OverQuota(GroupOf[t]),
           Takes(one.queues, two), two.got \in Tasks \cup {NoTask},
           two.got = NoTask => \A v \in HartIds : ToSet(one.queues[v]) = {}
    PROVE  Good(h, qs, two)
<1>1. Takes(qs, two)
  BY TakesTwice
<1>2. \A v \in HartIds : ToSet(one.queues[v]) = ToSet(qs[v])
  BY DEF Takes
<1>3. two.got \in ToSet(qs[h]) => OverQuota(GroupOf[two.got])
  OBVIOUS
<1> QED BY <1>1, <1>2, <1>3 DEF Good

LEMMA PickLockedGood ==
    ASSUME RunQueueAssumption, NEW h \in HartIds, NEW qs, Apart(qs), AllAlive(h, qs), Weighed
    PROVE  Good(h, qs, PickLocked(h, qs))
<1> DEFINE one == QuotaPass(h, qs)
           two == AnyPass(h, one.queues)
<1>1. PickLocked(h, qs) = IF one.got # NoTask THEN one ELSE two
  BY PassesAre DEF PickLocked
<1>2. /\ one \in Picks(h) /\ Takes(qs, one)
      /\ one.got = NoTask => \A v \in HartIds : \A t \in ToSet(qs[v]) : OverQuota(GroupOf[t])
      /\ one.got # NoTask => ~OverQuota(GroupOf[one.got])
      /\ one.got \in ToSet(qs[h]) => LeadsQueue(one.got, qs[h])
  BY QuotaPassMeans
<1> HIDE DEF one
<1>3. one.got \in Tasks \cup {NoTask} /\ Apart(one.queues) /\ AllAlive(h, one.queues)
  BY <1>2 DEF Picks
<1>4. CASE one.got # NoTask
  <2>1. Good(h, qs, one)
    BY <1>2, <1>3, <1>4 DEF Good
  <2> QED BY <1>1, <1>4, <2>1
<1>5. CASE one.got = NoTask
  <2>1. /\ two \in Picks(h) /\ Takes(one.queues, two)
        /\ two.got = NoTask => \A v \in HartIds : ToSet(one.queues[v]) = {}
    BY <1>3, AnyPassMeans
  <2> HIDE DEF two
  <2>2. two.got \in Tasks \cup {NoTask}
    BY <2>1 DEF Picks
  <2>3. Good(h, qs, two)
    BY <1>2, <1>5, <2>1, <2>2, SecondGood
  <2> QED BY <1>1, <1>5, <2>3
<1> QED BY <1>4, <1>5

LEMMA FindNextGood ==
    ASSUME RunQueueAssumption, NEW h \in HartIds, NEW qs, Apart(qs), AllAlive(h, qs), Weighed
    PROVE  Good(h, qs, FindNext(h, qs))
<1> DEFINE vs == Ring(h)
           one == ScanQuota(h, qs, vs)
           two == ScanAny(h, one.queues, vs)
<1>0. vs \in Rings /\ vs[1] = h /\ ToSet(vs) = HartIds
  BY RingIs
<1>1. FindNext(h, qs) = IF one.got # NoTask THEN one ELSE two
  BY DEF FindNext
<1> HIDE DEF vs
<1>2. /\ Takes(qs, one) /\ one.got \in Tasks \cup {NoTask}
      /\ one.got = NoTask => \A v \in HartIds : \A t \in ToSet(qs[v]) : OverQuota(GroupOf[t])
      /\ one.got # NoTask => ~OverQuota(GroupOf[one.got])
      /\ one.got \in ToSet(qs[h]) => LeadsQueue(one.got, qs[h])
  BY <1>0, ScanQuotaMeans
<1> HIDE DEF one
<1>3. Apart(one.queues) /\ AllAlive(h, one.queues)
  BY <1>2, TakesAlive DEF Takes
<1>4. CASE one.got # NoTask
  <2>1. Good(h, qs, one)
    BY <1>2, <1>4 DEF Good
  <2> QED BY <1>1, <1>4, <2>1
<1>5. CASE one.got = NoTask
  <2>1. /\ Takes(one.queues, two) /\ two.got \in Tasks \cup {NoTask}
        /\ two.got = NoTask => \A v \in HartIds : ToSet(one.queues[v]) = {}
    BY <1>0, <1>3, ScanAnyMeans
  <2> HIDE DEF two
  <2>2. Good(h, qs, two)
    BY <1>2, <1>5, <2>1, SecondGood
  <2> QED BY <1>1, <1>5, <2>2
<1> QED BY <1>4, <1>5

----------------------------------------------------------------------------
(* What holds of the queues, the live tasks and the owners *)

Waits(qs, t) == \E v \in HartIds : t \in ToSet(qs[v])

OneOwner(cur) == \A h, g \in HartIds : cur[h] = cur[g] /\ cur[h] # NoTask => h = g

\* A task waits in a queue exactly when it is live and no hart owns it.
Placed(qs, lv, cur) ==
    /\ Apart(qs) /\ lv \subseteq Tasks /\ cur \in [HartIds -> Tasks \cup {NoTask}] /\ OneOwner(cur)
    /\ \A t \in Tasks : Waits(qs, t) <=> (t \in lv /\ \A g \in HartIds : cur[g] # t)

\* The same while hart h has put its task back and picks another.
Released(qs, lv, cur, h) ==
    /\ Apart(qs) /\ lv \subseteq Tasks /\ cur \in [HartIds -> Tasks \cup {NoTask}] /\ OneOwner(cur)
    /\ \A t \in Tasks : Waits(qs, t) <=> (t \in lv /\ \A g \in HartIds \ {h} : cur[g] # t)

LEMMA ContainsIs ==
    ASSUME NEW T, NEW s \in Seq(T), NEW x PROVE Contains(s, x) <=> x \in ToSet(s)
<1>1. DOMAIN s = 1 .. Len(s)
  OBVIOUS
<1> QED BY <1>1 DEF Contains, ToSet

LEMMA NothingIn ==
    ASSUME NEW T, NEW s \in Seq(T), ToSet(s) = {} PROVE s = <<>>
<1>1. SUFFICES ASSUME s # <<>> PROVE FALSE
  OBVIOUS
<1>2. Len(s) \in Nat /\ Len(s) >= 1 /\ DOMAIN s = 1 .. Len(s)
  BY <1>1, EmptySeq
<1>3. s[1] \in ToSet(s)
  BY <1>2 DEF ToSet
<1> QED BY <1>3

LEMMA WaitsTyped ==
    ASSUME NEW qs, Apart(qs) PROVE \A t : Waits(qs, t) => t \in Tasks
BY QueueSet DEF Waits, Apart

LEMMA PickPlaces ==
    ASSUME RunQueueAssumption, NEW h \in HartIds, NEW qs, NEW lv, NEW cur, NEW new, NEW r,
           Released(qs, lv, cur, h), Good(h, qs, r), new = [cur EXCEPT ![h] = r.got]
    PROVE  Placed(r.queues, lv, new)
<1> DEFINE p == r.got
<1>1. Apart(r.queues) /\ p \in Tasks \cup {NoTask} /\ NoTask \notin Tasks
  BY DEF Good, Takes, RunQueueAssumption
<1>2. /\ new \in [HartIds -> Tasks \cup {NoTask}] /\ new[h] = p
      /\ \A g \in HartIds \ {h} : new[g] = cur[g]
  BY <1>1 DEF Released
<1> HIDE DEF p
<1>3. p # NoTask => Waits(qs, p) /\ p \in Tasks
  BY <1>1 DEF Good, Takes, Waits, p
<1>4. \A t \in Tasks : Waits(r.queues, t) <=> (Waits(qs, t) /\ t # p)
  <2>1. CASE p = NoTask
    <3>1. \A v \in HartIds : ToSet(r.queues[v]) = ToSet(qs[v])
      BY <2>1 DEF Good, Takes, p
    <3> QED BY <3>1, <2>1, <1>1 DEF Waits
  <2>2. CASE p # NoTask
    <3>1. \A v \in HartIds : ToSet(r.queues[v]) = ToSet(qs[v]) \ {p}
      BY <2>2 DEF Good, Takes, p
    <3> QED BY <3>1 DEF Waits
  <2> QED BY <2>1, <2>2
<1>5. p # NoTask => \A g \in HartIds \ {h} : cur[g] # p
  BY <1>3 DEF Released
<1>6. OneOwner(new)
  BY <1>2, <1>5 DEF OneOwner, Released
<1>7. \A t \in Tasks : Waits(r.queues, t) <=> (t \in lv /\ \A g \in HartIds : new[g] # t)
  BY <1>2, <1>4 DEF Released
<1> QED BY <1>1, <1>2, <1>6, <1>7 DEF Placed, Released

LEMMA ReleasedAlive ==
    ASSUME NEW h \in HartIds, NEW qs, NEW lv, lv \subseteq live, Released(qs, lv, current, h)
    PROVE  AllAlive(h, qs)
<1>1. ASSUME NEW v \in HartIds, NEW t \in ToSet(qs[v]) PROVE Alive(h, t)
  <2>1. Waits(qs, t) /\ t \in Tasks
    BY WaitsTyped DEF Waits, Released
  <2> QED BY <2>1 DEF Released, Alive
<1> QED BY <1>1 DEF AllAlive

Pushed(qs, h, p) == [qs EXCEPT ![h] = Append(qs[h], p)]

\* A task that comes to the end of a queue it was in none of.
LEMMA Comes ==
    ASSUME NEW qs, Apart(qs), NEW h \in HartIds, NEW p \in Tasks, ~Waits(qs, p)
    PROVE  /\ Apart(Pushed(qs, h, p))
           /\ \A t \in Tasks : Waits(Pushed(qs, h, p), t) <=> (Waits(qs, t) \/ t = p)
           /\ Pushed(qs, h, p)[h] = Append(qs[h], p)
<1>0. PICK q2 : q2 = Pushed(qs, h, p)
  OBVIOUS
<1>1. /\ qs \in Queues /\ qs[h] \in Seq(Tasks) /\ IsInjective(qs[h]) /\ p \notin ToSet(qs[h])
  BY DEF Apart, Queues, Waits
<1> DEFINE s == qs[h]
           a == Append(s, p)
<1>2. a \in Seq(Tasks) /\ ToSet(a) = ToSet(s) \cup {p} /\ IsInjective(a)
  <2> HIDE DEF s
  <2>1. s \in Seq(Tasks) /\ IsInjective(s) /\ p \notin ToSet(s)
    BY <1>1 DEF s
  <2> QED BY <2>1, OneMore
<1> HIDE DEF a
<1>3. q2 = [qs EXCEPT ![h] = a]
  BY <1>0 DEF a, Pushed
<1>4. q2 \in Queues /\ q2[h] = a /\ \A v \in HartIds \ {h} : q2[v] = qs[v]
  BY <1>1, <1>2, <1>3 DEF Queues
<1>5. \A v \in HartIds : IsInjective(q2[v])
  BY <1>2, <1>4 DEF Apart
<1>6. \A v \in HartIds : v # h => p \notin ToSet(qs[v])
  BY DEF Waits
<1>7. \A v, w \in HartIds : v # w => ToSet(q2[v]) \cap ToSet(q2[w]) = {}
  <2>1. ASSUME NEW w \in HartIds, w # h PROVE ToSet(q2[h]) \cap ToSet(q2[w]) = {}
    <3>1. ToSet(qs[h]) \cap ToSet(qs[w]) = {}
      BY <2>1 DEF Apart
    <3> QED BY <1>2, <1>4, <1>6, <2>1, <3>1
  <2>2. ASSUME NEW v \in HartIds, NEW w \in HartIds, v # h, w # h, v # w
        PROVE  ToSet(q2[v]) \cap ToSet(q2[w]) = {}
    BY <1>4, <2>2 DEF Apart
  <2> QED BY <2>1, <2>2
<1>8. \A t \in Tasks : Waits(q2, t) <=> (Waits(qs, t) \/ t = p)
  BY <1>2, <1>4 DEF Waits
<1>9. q2[h] = Append(qs[h], p)
  BY <1>4 DEF a
<1> QED BY <1>0, <1>4, <1>5, <1>7, <1>8, <1>9 DEF Apart

----------------------------------------------------------------------------
(* The invariant, and the picks of the two actions that pick *)

RInv == TypeOK /\ Placed(queues, live, current)

LEMMA LeastOfTwo ==
    ASSUME NEW a \in Int, NEW b \in Int
    PROVE  Min({a, b}) = IF a <= b THEN a ELSE b
<1> DEFINE m == IF a <= b THEN a ELSE b
           S == {a, b}
<1>1. m \in S /\ \A y \in S : m =< y
  OBVIOUS
<1>2. \A x \in S : (\A y \in S : x =< y) => x = m
  OBVIOUS
<1>3. Min(S) \in S /\ \A y \in S : Min(S) =< y
  <2> HIDE DEF S, m
  <2> QED BY <1>1 DEF Min
<1>4. Min(S) = m
  <2> HIDE DEF m, S
  <2> QED BY <1>2, <1>3
<1> QED BY <1>4

LEMMA Weights ==
    ASSUME RunQueueAssumption, TypeOK PROVE Weighed
<1>1. ASSUME NEW a \in Nat, NEW b \in 1 .. 1000 PROVE (a * 1024) \div b \in Int
  <2> DEFINE c == a * 1024
  <2>1. c \in Int
    OBVIOUS
  <2> HIDE DEF c
  <2>2. c \div b \in Int
    BY <2>1, Z3
  <2> QED BY <2>2 DEF c
<1>2. ASSUME NEW p \in Tasks PROVE Vruntime(GroupOf[p]) \in Int
  <2> DEFINE g == GroupOf[p]
  <2>1. g \in Groups
    BY DEF RunQueueAssumption
  <2> HIDE DEF g
  <2>2. use[g] \in Nat /\ share[g] \in 1 .. 1000
    BY <2>1 DEF TypeOK
  <2>3. (use[g] * 1024) \div share[g] \in Int
    <3> DEFINE u == use[g]
               w == share[g]
    <3>1. u \in Nat /\ w \in 1 .. 1000
      BY <2>2
    <3> HIDE DEF u, w
    <3>2. (u * 1024) \div w \in Int
      BY <1>1, <3>1
    <3> QED BY <3>2 DEF u, w
  <2> QED BY <2>3 DEF Vruntime, g
<1> QED BY <1>2 DEF Weighed

\* Hart h picks, from the queues or from them with its own task at the end.
Picking(h) == \E qs, r :
    /\ Good(h, qs, r)
    /\ queues' = r.queues
    /\ current' = [current EXCEPT ![h] = r.got]
    /\ \/ qs = queues
       \/ /\ current[h] \in Tasks /\ ~Waits(queues, current[h])
          /\ qs = Pushed(queues, h, current[h])

LEMMA ScheduleReleases ==
    ASSUME RunQueueAssumption, RInv, NEW h \in HartIds, NEW p, p = current[h],
           NEW qs, qs = IF p \in live THEN Pushed(queues, h, p) ELSE queues
    PROVE  /\ Released(qs, live, current, h)
           /\ \/ qs = queues
              \/ /\ current[h] \in Tasks /\ ~Waits(queues, current[h])
                 /\ qs = Pushed(queues, h, current[h])
<1>1. /\ Apart(queues) /\ live \subseteq Tasks /\ current \in [HartIds -> Tasks \cup {NoTask}]
      /\ OneOwner(current) /\ NoTask \notin Tasks
      /\ \A t \in Tasks : Waits(queues, t) <=> (t \in live /\ \A g \in HartIds : current[g] # t)
  BY DEF RInv, Placed, RunQueueAssumption
<1>2. CASE p \in live
  <2>1. p \in Tasks /\ ~Waits(queues, p)
    BY <1>1, <1>2
  <2>2. qs = Pushed(queues, h, p)
    BY <1>2
  <2>3. Apart(qs) /\ \A t \in Tasks : Waits(qs, t) <=> (Waits(queues, t) \/ t = p)
    BY <1>1, <2>1, <2>2, Comes
  <2>4. \A g \in HartIds \ {h} : current[g] # p
    BY <1>1, <2>1 DEF OneOwner
  <2>5. \A t \in Tasks : Waits(qs, t) <=> (t \in live /\ \A g \in HartIds \ {h} : current[g] # t)
    BY <1>1, <1>2, <2>3, <2>4
  <2> QED BY <1>1, <2>1, <2>2, <2>3, <2>5 DEF Released
<1>3. CASE p \notin live
  <2>1. qs = queues
    BY <1>3
  <2>2. \A t \in Tasks : Waits(qs, t) <=> (t \in live /\ \A g \in HartIds \ {h} : current[g] # t)
    BY <1>1, <1>3, <2>1
  <2> QED BY <1>1, <2>1, <2>2 DEF Released
<1> QED BY <1>2, <1>3

\* schedule_point and exit pick, and a task waits afterwards exactly when it is
\* live and no hart owns it.
LEMMA SchedulePointPicks ==
    ASSUME RunQueueAssumption, RInv, NEW h \in HartIds, SchedulePoint(h)
    PROVE  Picking(h) /\ Placed(queues, live, current)'
<1> DEFINE p == current[h]
           qs == IF p \in live THEN [queues EXCEPT ![h] = Append(queues[h], p)] ELSE queues
           r == PickLocked(h, qs)
<1>1. queues' = r.queues /\ current' = [current EXCEPT ![h] = r.got] /\ live' = live
  BY DEF SchedulePoint
<1>2. /\ Released(qs, live, current, h)
      /\ \/ qs = queues
         \/ /\ current[h] \in Tasks /\ ~Waits(queues, current[h])
            /\ qs = Pushed(queues, h, current[h])
  <2> DEFINE k == IF p \in live THEN Pushed(queues, h, p) ELSE queues
  <2>1. qs = k
    BY DEF Pushed
  <2> HIDE DEF p, qs
  <2>2. p = current[h] /\ qs = IF p \in live THEN Pushed(queues, h, p) ELSE queues
    BY <2>1 DEF p
  <2> HIDE DEF k
  <2> QED BY <2>2, ScheduleReleases
<1> HIDE DEF qs
<1>3. Good(h, qs, r)
  <2>1. AllAlive(h, qs) /\ Apart(qs)
    BY <1>2, ReleasedAlive DEF Released
  <2> QED BY <2>1, Weights, PickLockedGood DEF RInv
<1> HIDE DEF r, p
<1>4. Placed(r.queues, live, current')
  BY <1>1, <1>2, <1>3, PickPlaces
<1> QED BY <1>1, <1>2, <1>3, <1>4 DEF Picking

LEMMA ExitPicks ==
    ASSUME RunQueueAssumption, RInv, NEW h \in HartIds, Exit(h)
    PROVE  Picking(h) /\ Placed(queues, live, current)'
<1> DEFINE r == FindNext(h, queues)
           p == current[h]
<1>1. /\ queues' = r.queues /\ current' = [current EXCEPT ![h] = r.got] /\ live' = live \ {p}
      /\ p # NoTask
  BY DEF Exit
<1>2. Released(queues, live \ {p}, current, h)
  <2>1. Placed(queues, live, current)
    BY DEF RInv
  <2>2. \A g \in HartIds \ {h} : current[g] # p
    BY <1>1, <2>1 DEF Placed, OneOwner
  <2>3. \A t \in Tasks : Waits(queues, t) <=> (t \in live \ {p} /\ \A g \in HartIds \ {h} : current[g] # t)
    BY <2>1, <2>2 DEF Placed
  <2> QED BY <2>1, <2>3 DEF Placed, Released
<1> HIDE DEF p
<1>3. Good(h, queues, r)
  <2>1. AllAlive(h, queues) /\ Apart(queues)
    BY <1>2, ReleasedAlive DEF Released
  <2> QED BY <2>1, Weights, FindNextGood DEF RInv
<1> HIDE DEF r
<1>4. Placed(r.queues, live \ {p}, current')
  BY <1>1, <1>2, <1>3, PickPlaces
<1> QED BY <1>1, <1>3, <1>4 DEF Picking

----------------------------------------------------------------------------
(* Each step keeps the invariant *)

RestOK ==
    /\ pc \in [HartIds -> Places]
    /\ charge \in [HartIds -> Groups \cup {NoGroup}]
    /\ inTime \in [HartIds -> BOOLEAN]
    /\ now \in 0 .. Window - 1
    /\ fresh \in [Groups -> BOOLEAN]
    /\ use \in [Groups -> 0 .. UseCap]
    /\ cap \in [Groups -> 0 .. 100 \cup {Uncapped}]
    /\ share \in [Groups -> 1 .. 1000]

LEMMA TypeIs == RInv <=> (RestOK /\ Placed(queues, live, current))
BY DEF RInv, TypeOK, RestOK, Placed, Apart, Queues

LEMMA TypeIsNext == RInv' <=> (RestOK' /\ Placed(queues, live, current)')
BY TypeIs, PTL

LEMMA GotoMoves ==
    ASSUME pc \in [HartIds -> Places], NEW h \in HartIds, NEW from, NEW to \in Places, Goto(h, from, to)
    PROVE  pc' \in [HartIds -> Places] /\ pc[h] = from /\ pc'[h] = to
           /\ \A g \in HartIds \ {h} : pc'[g] = pc[g]
BY DEF Goto

LEMMA InitHolds ==
    ASSUME RunQueueAssumption, Init PROVE RInv
<1>1. RestOK
  <2>1. NHarts \in Nat /\ Window \in Nat /\ Window > 0 /\ UseCap \in Nat
    BY DEF RunQueueAssumption
  <2>2. "run" \in Places /\ 0 \in 0 .. Window - 1 /\ 0 \in 0 .. UseCap /\ 1 \in 1 .. 1000
    BY <2>1 DEF Places
  <2> QED BY <2>2 DEF Init, RestOK
<1>2. PICK p \in Tasks : live = {p} /\ queues = [h \in HartIds |-> IF h = 0 THEN <<p>> ELSE <<>>]
  BY DEF Init
<1>3. 0 \in HartIds /\ NoTask \notin Tasks
  BY DEF RunQueueAssumption, HartIds
<1>4. <<p>> \in Seq(Tasks) /\ <<>> \in Seq(Tasks) /\ ToSet(<<p>>) = {p} /\ IsInjective(<<p>>)
  <2> DEFINE s == <<p>>
  <2>1. s \in Seq(Tasks) /\ DOMAIN s = {1} /\ s[1] = p
    OBVIOUS
  <2> HIDE DEF s
  <2>2. ToSet(s) = {p} /\ IsInjective(s)
    BY <2>1 DEF ToSet, IsInjective
  <2> QED BY <2>1, <2>2 DEF s
<1>5. /\ queues[0] = <<p>> /\ \A h \in HartIds : h # 0 => queues[h] = <<>>
      /\ queues \in Queues
  BY <1>2, <1>3, <1>4 DEF Queues
<1> DEFINE e == <<>>
<1>6. ToSet(e) = {} /\ IsInjective(e)
  BY EmptyIs
<1>7. \A h \in HartIds : IsInjective(queues[h]) /\ ToSet(queues[h]) = IF h = 0 THEN {p} ELSE {}
  <2>1. \A h \in HartIds : h # 0 => queues[h] = e
    BY <1>5
  <2> HIDE DEF e
  <2> QED BY <1>4, <1>5, <1>6, <2>1
<1>8. Apart(queues)
  BY <1>5, <1>7 DEF Apart
<1>9. \A t \in Tasks : Waits(queues, t) <=> t = p
  BY <1>3, <1>7 DEF Waits
<1>10. current \in [HartIds -> Tasks \cup {NoTask}] /\ \A h \in HartIds : current[h] = NoTask
  BY DEF Init
<1>11. Placed(queues, live, current)
  BY <1>2, <1>3, <1>8, <1>9, <1>10 DEF Placed, OneOwner
<1> QED BY <1>1, <1>11, TypeIs

\* The steps that leave the tasks alone.
LEMMA TasksAlone ==
    ASSUME RInv, UNCHANGED taskVars PROVE Placed(queues, live, current)'
<1>1. queues' = queues /\ live' = live /\ current' = current
  BY DEF taskVars
<1> QED BY <1>1 DEF RInv

\* The current task blocks; its hart owns it still.
LEMMA BlockPlaces ==
    ASSUME RunQueueAssumption, RInv, NEW h \in HartIds, Block(h)
    PROVE  Placed(queues, live, current)'
<1>1. queues' = queues /\ current' = current /\ live' = live \ {current[h]}
  BY DEF Block
<1>2. Placed(queues, live \ {current[h]}, current)
  BY DEF RInv, Placed
<1> QED BY <1>1, <1>2

\* A task becomes live, and waits unless a hart owns it.
LEMMA EnterPlaces ==
    ASSUME RunQueueAssumption, RInv, NEW h \in HartIds, NEW p \in Tasks, Enter(h, p)
    PROVE  Placed(queues, live, current)'
<1> DEFINE owned == \E g \in HartIds : current[g] = p
<1>1. /\ live' = live \cup {p} /\ current' = current /\ p \notin live
      /\ queues' = IF owned THEN queues ELSE Pushed(queues, h, p)
  BY DEF Enter, Pushed
<1>2. Placed(queues, live, current) /\ ~Waits(queues, p)
  BY <1>1 DEF RInv, Placed
<1>3. CASE owned
  <2>1. Placed(queues, live \cup {p}, current)
    BY <1>2, <1>3 DEF Placed
  <2> QED BY <1>1, <1>3, <2>1
<1>4. CASE ~owned
  <2> DEFINE q == Pushed(queues, h, p)
  <2>1. Apart(q) /\ \A t \in Tasks : Waits(q, t) <=> (Waits(queues, t) \/ t = p)
    BY <1>2, Comes DEF Placed
  <2> HIDE DEF q
  <2>2. Placed(q, live \cup {p}, current)
    BY <1>2, <1>4, <2>1 DEF Placed
  <2> QED BY <1>1, <1>4, <2>2 DEF q
<1> QED BY <1>3, <1>4

LEMMA StepPlaces ==
    ASSUME RunQueueAssumption, RInv, [Next]_vars PROVE Placed(queues, live, current)'
<1>1. CASE UNCHANGED vars
  BY <1>1, TasksAlone DEF vars
<1>2. ASSUME NEW h \in HartIds, Tick(h) \/ SoftIrq(h) PROVE Placed(queues, live, current)'
  BY <1>2, TasksAlone DEF Tick, SoftIrq
<1>3. ASSUME NEW h \in HartIds, TrapStep(h) PROVE Placed(queues, live, current)'
  <2>1. CASE SchedulePoint(h)
    BY <2>1, SchedulePointPicks
  <2>2. CASE LoadCharge(h) \/ OpenWindow(h) \/ ResetUse(h) \/ AddUse(h) \/ CheckPreempt(h) \/ Switch(h)
    BY <2>2, TasksAlone DEF LoadCharge, OpenWindow, ResetUse, AddUse, CheckPreempt, Switch
  <2> QED BY <1>3, <2>1, <2>2 DEF TrapStep
<1>4. ASSUME NEW h \in HartIds, Call(h) PROVE Placed(queues, live, current)'
  <2>1. CASE Yield(h)
    BY <2>1, TasksAlone DEF Yield
  <2>2. CASE Block(h)
    BY <2>2, BlockPlaces
  <2>3. CASE Exit(h)
    BY <2>3, ExitPicks
  <2>4. CASE \E p \in Tasks : Enter(h, p)
    BY <2>4, EnterPlaces
  <2>5. CASE \E g \in Groups, pct \in Caps : SetCpu(h, g, pct)
    BY <2>5, TasksAlone DEF SetCpu
  <2>6. CASE \E g \in Groups, w \in Shares : SetShare(h, g, w)
    BY <2>6, TasksAlone DEF SetShare
  <2> QED BY <1>4, <2>1, <2>2, <2>3, <2>4, <2>5, <2>6 DEF Call
<1> QED BY <1>1, <1>2, <1>3, <1>4 DEF Next

LEMMA TickTyped ==
    ASSUME RunQueueAssumption, RestOK, NEW h \in HartIds, Tick(h) PROVE RestOK'
<1>1. pc' \in [HartIds -> Places]
  <2>1. "ticked" \in Places
    BY DEF Places
  <2> QED BY <2>1, GotoMoves DEF Tick, RestOK
<1>2. now' \in 0 .. Window - 1
  <2> DEFINE m == now + 1
  <2>1. m \in Nat /\ Window \in Nat /\ Window > 0 /\ now' = m % Window
    BY DEF RestOK, RunQueueAssumption, Tick
  <2> HIDE DEF m
  <2>2. m % Window \in 0 .. Window - 1
    BY <2>1, Z3
  <2> QED BY <2>1, <2>2
<1>3. fresh' \in [Groups -> BOOLEAN] /\ inTime' \in [HartIds -> BOOLEAN]
  <2>1. CASE now' = 0
    BY <2>1 DEF Tick
  <2>2. CASE now' # 0
    BY <2>2 DEF Tick, RestOK
  <2> QED BY <2>1, <2>2
<1> QED BY <1>1, <1>2, <1>3 DEF Tick, RestOK, limitVars

LEMMA TrapTyped ==
    ASSUME RunQueueAssumption, RInv, NEW h \in HartIds, TrapStep(h) PROVE RestOK'
<1>0. RestOK /\ current[h] \in Tasks \cup {NoTask} /\ GroupOf \in [Tasks -> Groups]
  BY TypeIs DEF Placed, RunQueueAssumption
<1>1. "add" \in Places /\ "open" \in Places /\ "check" \in Places /\ "reset" \in Places
      /\ "run" \in Places /\ "resched" \in Places
  BY DEF Places
<1>2. CASE LoadCharge(h)
  <2>1. CASE current[h] = NoTask
    <3>1. pc' \in [HartIds -> Places]
      BY <1>0, <1>1, <1>2, <2>1, GotoMoves DEF LoadCharge, RestOK
    <3> QED BY <1>0, <1>2, <2>1, <3>1 DEF LoadCharge, RestOK, acctVars, limitVars
  <2>2. CASE current[h] # NoTask
    <3> DEFINE g == GroupOf[current[h]]
    <3>1. g \in Groups
      BY <1>0, <2>2
    <3>2. /\ Goto(h, "ticked", IF fresh[g] THEN "add" ELSE "open")
          /\ charge' = [charge EXCEPT ![h] = g]
          /\ inTime' = [inTime EXCEPT ![h] = TRUE]
      BY <1>2, <2>2 DEF LoadCharge
    <3> HIDE DEF g
    <3>3. pc' \in [HartIds -> Places]
      <4>1. (IF fresh[g] THEN "add" ELSE "open") \in Places
        BY <1>1
      <4> QED BY <1>0, <3>2, <4>1, GotoMoves DEF RestOK
    <3>4. charge' \in [HartIds -> Groups \cup {NoGroup}] /\ inTime' \in [HartIds -> BOOLEAN]
      BY <1>0, <3>1, <3>2 DEF RestOK
    <3> QED BY <1>0, <1>2, <3>3, <3>4 DEF LoadCharge, RestOK, acctVars, limitVars
  <2> QED BY <2>1, <2>2
<1>3. CASE OpenWindow(h)
  <2>1. pc' \in [HartIds -> Places]
    BY <1>0, <1>1, <1>3, GotoMoves DEF OpenWindow, RestOK
  <2>2. fresh' \in [Groups -> BOOLEAN]
    <3> DEFINE b == inTime[h]
               c == charge[h]
    <3>1. b \in BOOLEAN /\ fresh \in [Groups -> BOOLEAN] /\ fresh' = [fresh EXCEPT ![c] = b]
      BY <1>0, <1>3 DEF OpenWindow, RestOK
    <3> HIDE DEF b, c
    <3> QED BY <3>1
  <2> QED BY <1>0, <1>3, <2>1, <2>2 DEF OpenWindow, RestOK, limitVars
<1>4. ASSUME Charged(h)
      PROVE  charge' \in [HartIds -> Groups \cup {NoGroup}] /\ inTime' \in [HartIds -> BOOLEAN]
  BY <1>0, <1>4 DEF Charged, RestOK
<1>5. CASE ResetUse(h)
  <2>1. pc' \in [HartIds -> Places]
    BY <1>0, <1>1, <1>5, GotoMoves DEF ResetUse, RestOK
  <2>2. use' \in [Groups -> 0 .. UseCap]
    <3>1. 1 \in 0 .. UseCap
      BY DEF RunQueueAssumption
    <3> QED BY <1>0, <1>5, <3>1 DEF ResetUse, RestOK, Opened
  <2> QED BY <1>0, <1>4, <1>5, <2>1, <2>2 DEF ResetUse, RestOK, limitVars
<1>6. CASE AddUse(h)
  <2>1. pc' \in [HartIds -> Places]
    BY <1>0, <1>1, <1>6, GotoMoves DEF AddUse, RestOK
  <2>2. use' \in [Groups -> 0 .. UseCap]
    <3> DEFINE more(k) == Min({use[k] + 1, UseCap})
    <3>1. ASSUME NEW k \in Groups PROVE more(k) \in 0 .. UseCap
      <4>1. use[k] \in 0 .. UseCap /\ UseCap \in Nat
        BY <1>0 DEF RestOK, RunQueueAssumption
      <4>2. more(k) = IF use[k] + 1 <= UseCap THEN use[k] + 1 ELSE UseCap
        BY <4>1, LeastOfTwo
      <4> QED BY <4>1, <4>2
    <3>2. use' = [use EXCEPT ![charge[h]] = more(charge[h])]
      BY <1>6 DEF AddUse
    <3> DEFINE c == charge[h]
               m == more(c)
    <3>3. use' = [use EXCEPT ![c] = m] /\ use \in [Groups -> 0 .. UseCap] /\ (c \in Groups => m \in 0 .. UseCap)
      BY <1>0, <3>1, <3>2 DEF RestOK
    <3> HIDE DEF c, m, more
    <3>4. CASE c \in Groups
      BY <3>3, <3>4
    <3>5. CASE c \notin Groups
      BY <3>3, <3>5
    <3> QED BY <3>4, <3>5
  <2> QED BY <1>0, <1>4, <1>6, <2>1, <2>2 DEF AddUse, RestOK, limitVars
<1>7. CASE CheckPreempt(h)
  <2>1. pc' \in [HartIds -> Places]
    <3>1. (IF Preempts THEN "resched" ELSE "run") \in Places
      BY <1>1
    <3> QED BY <1>0, <1>7, <3>1, GotoMoves DEF CheckPreempt, RestOK
  <2> QED BY <1>0, <1>7, <2>1 DEF CheckPreempt, RestOK, acctVars, limitVars
<1>8. CASE SchedulePoint(h)
  <2>1. pc' \in [HartIds -> Places]
    BY <1>0, <1>1, <1>8, GotoMoves DEF SchedulePoint, RestOK
  <2> QED BY <1>0, <1>8, <2>1 DEF SchedulePoint, RestOK, acctVars, limitVars
<1>9. CASE Switch(h)
  <2>1. pc' \in [HartIds -> Places]
    BY <1>0, <1>1, <1>9, GotoMoves DEF Switch, RestOK
  <2> QED BY <1>0, <1>9, <2>1 DEF Switch, RestOK, acctVars, limitVars
<1> QED BY <1>2, <1>3, <1>5, <1>6, <1>7, <1>8, <1>9 DEF TrapStep

LEMMA CallTyped ==
    ASSUME RunQueueAssumption, RestOK, NEW h \in HartIds, Call(h) \/ SoftIrq(h) PROVE RestOK'
<1>1. "resched" \in Places /\ "switch" \in Places
  BY DEF Places
<1>2. CASE Yield(h) \/ Block(h) \/ Exit(h) \/ SoftIrq(h)
  <2>1. pc' \in [HartIds -> Places]
    BY <1>1, <1>2, GotoMoves DEF Yield, Block, Exit, SoftIrq, RestOK
  <2>2. UNCHANGED <<charge, inTime, now, acctVars, limitVars>>
    BY <1>2 DEF Yield, Block, Exit, SoftIrq
  <2> QED BY <2>1, <2>2 DEF RestOK, acctVars, limitVars
<1>3. CASE \E p \in Tasks : Enter(h, p)
  <2>1. UNCHANGED <<trapVars, now, acctVars, limitVars>>
    BY <1>3 DEF Enter
  <2> QED BY <2>1 DEF RestOK, trapVars, acctVars, limitVars
<1>4. ASSUME NEW g \in Groups, NEW pct \in Caps, SetCpu(h, g, pct) PROVE RestOK'
  <2>1. Percent(pct) \in 0 .. 100
    <3>1. pct \in Nat
      BY DEF RunQueueAssumption
    <3>2. Percent(pct) = IF pct <= 100 THEN pct ELSE 100
      BY <3>1, LeastOfTwo DEF Percent
    <3> QED BY <3>1, <3>2
  <2>2. cap' \in [Groups -> 0 .. 100 \cup {Uncapped}]
    BY <1>4, <2>1 DEF SetCpu, RestOK
  <2> QED BY <1>4, <2>2 DEF SetCpu, RestOK, trapVars, acctVars
<1>5. ASSUME NEW g \in Groups, NEW w \in Shares, SetShare(h, g, w) PROVE RestOK'
  <2>1. share' \in [Groups -> 1 .. 1000]
    BY <1>5 DEF SetShare, RestOK
  <2> QED BY <1>5, <2>1 DEF SetShare, RestOK, trapVars, acctVars
<1> QED BY <1>2, <1>3, <1>4, <1>5 DEF Call

LEMMA StepHolds ==
    ASSUME RunQueueAssumption, RInv, [Next]_vars PROVE RInv'
<1>1. Placed(queues, live, current)'
  BY StepPlaces
<1>2. RestOK
  BY TypeIs
<1>3. RestOK'
  <2>1. CASE UNCHANGED vars
    BY <1>2, <2>1 DEF vars, RestOK, trapVars, acctVars, limitVars
  <2>2. ASSUME NEW h \in HartIds, Tick(h) \/ SoftIrq(h) \/ TrapStep(h) \/ Call(h) PROVE RestOK'
    BY <1>2, <2>2, TickTyped, TrapTyped, CallTyped
  <2> QED BY <2>1, <2>2 DEF Next
<1> QED BY <1>1, <1>3, TypeIsNext

LEMMA RunQueueHolds == Spec => []RInv
<1>1. Init => RInv
  BY InitHolds, RunQueueAssumption
<1>2. RInv /\ [Next]_vars => RInv'
  BY StepHolds, RunQueueAssumption
<1> QED BY <1>1, <1>2, PTL DEF Spec

----------------------------------------------------------------------------
(* What the invariant gives *)

\* Types; a cap is a percentage, whatever cg_set_cpu was asked for.
THEOREM RunQueueTypes == Spec => []TypeOK
<1>1. RInv => TypeOK
  BY DEF RInv
<1> QED BY RunQueueHolds, <1>1, PTL

LEMMA QueuedIs ==
    ASSUME RInv PROVE \A p : Queued(p) <=> Waits(queues, p)
<1>1. \A v \in HartIds : queues[v] \in Seq(Tasks)
  BY DEF RInv, TypeOK
<1>2. \A p : \A v \in HartIds : Contains(queues[v], p) <=> p \in ToSet(queues[v])
  BY <1>1, ContainsIs
<1> QED BY <1>2 DEF Queued, Waits

LEMMA QueuedIsNext == RInv' => \A p : Queued(p)' <=> Waits(queues', p)
<1>1. RInv => \A p : Queued(p) <=> Waits(queues, p)
  BY QueuedIs
<1>2. (RInv => \A p : Queued(p) <=> Waits(queues, p))'
  BY <1>1, PTL
<1> QED BY <1>2

\* A task that is placed is in a queue, once, unless a hart owns it.
LEMMA PlacedIsKept == ASSUME RInv PROVE NoEntryLost
<1>1. Placed(queues, live, current)
  BY DEF RInv
<1>2. \A p \in live : Queued(p) <=> \A h \in HartIds : current[h] # p
  BY <1>1, QueuedIs DEF Placed
<1> QED BY <1>1, <1>2 DEF NoEntryLost, Placed, Apart

\* The comment at pop_valid_locked, "never lost": for any number of harts and
\* any stash, a live task is in one queue, once, unless a hart owns it.
THEOREM EntriesAreKept == Spec => []NoEntryLost
<1>1. RInv => NoEntryLost
  BY PlacedIsKept
<1> QED BY RunQueueHolds, <1>1, PTL

LEMMA OnlyPicksChange ==
    ASSUME RunQueueAssumption, RInv, [Next]_vars
    PROVE  current' = current \/ \E h \in HartIds : Picking(h)
<1>1. CASE UNCHANGED vars
  BY <1>1 DEF vars, taskVars
<1>2. ASSUME NEW h \in HartIds, Tick(h) \/ SoftIrq(h) PROVE current' = current
  BY <1>2 DEF Tick, SoftIrq, taskVars
<1>3. ASSUME NEW h \in HartIds, TrapStep(h) PROVE current' = current \/ Picking(h)
  <2>1. CASE SchedulePoint(h)
    BY <2>1, SchedulePointPicks
  <2>2. CASE LoadCharge(h) \/ OpenWindow(h) \/ ResetUse(h) \/ AddUse(h) \/ CheckPreempt(h) \/ Switch(h)
    BY <2>2 DEF LoadCharge, OpenWindow, ResetUse, AddUse, CheckPreempt, Switch, taskVars
  <2> QED BY <1>3, <2>1, <2>2 DEF TrapStep
<1>4. ASSUME NEW h \in HartIds, Call(h) PROVE current' = current \/ Picking(h)
  <2>1. CASE Exit(h)
    BY <2>1, ExitPicks
  <2>2. CASE Yield(h) \/ Block(h) \/ \E p \in Tasks : Enter(h, p)
    BY <2>2 DEF Yield, Block, Enter, taskVars
  <2>3. CASE \/ \E g \in Groups, pct \in Caps : SetCpu(h, g, pct)
             \/ \E g \in Groups, w \in Shares : SetShare(h, g, w)
    BY <2>3 DEF SetCpu, SetShare, taskVars
  <2> QED BY <1>4, <2>1, <2>2, <2>3 DEF Call
<1> QED BY <1>1, <1>2, <1>3, <1>4 DEF Next

\* A hart whose task changes picked.
LEMMA ChangesPick ==
    ASSUME RunQueueAssumption, RInv, [Next]_vars, NEW h \in HartIds, current'[h] # current[h]
    PROVE  \E qs, r : /\ Good(h, qs, r) /\ queues' = r.queues /\ current'[h] = r.got
                      /\ \/ qs = queues
                         \/ /\ current[h] \in Tasks /\ ~Waits(queues, current[h])
                            /\ qs = Pushed(queues, h, current[h])
<1>1. PICK g \in HartIds : Picking(g)
  BY OnlyPicksChange
<1>2. PICK qs, r : /\ Good(g, qs, r) /\ queues' = r.queues /\ current' = [current EXCEPT ![g] = r.got]
                   /\ \/ qs = queues
                      \/ /\ current[g] \in Tasks /\ ~Waits(queues, current[g])
                         /\ qs = Pushed(queues, g, current[g])
  BY <1>1 DEF Picking
<1>3. current \in [HartIds -> Tasks \cup {NoTask}]
  BY DEF RInv, TypeOK
<1>4. g = h /\ current'[h] = r.got
  BY <1>2, <1>3
<1> QED BY <1>2, <1>4

\* A pick that finds nothing left nothing.
LEMMA IdleStep == ASSUME RunQueueAssumption, RInv, [Next]_vars PROVE IdleOnlyWhenEmpty
<1> SUFFICES ASSUME NEW h \in HartIds, current[h] # NoTask, current'[h] = NoTask, NEW v \in HartIds
             PROVE  queues'[v] = <<>>
  BY DEF IdleOnlyWhenEmpty
<1>1. PICK qs, r : Good(h, qs, r) /\ queues' = r.queues /\ current'[h] = r.got
  BY ChangesPick, RunQueueAssumption
<1>2. r.got = NoTask
  BY <1>1
<1>3. Apart(r.queues) /\ ToSet(r.queues[v]) = ToSet(qs[v]) /\ ToSet(qs[v]) = {}
  BY <1>1, <1>2 DEF Good, Takes
<1>4. r.queues[v] \in Seq(Tasks) /\ ToSet(r.queues[v]) = {}
  BY <1>3 DEF Apart, Queues
<1>5. r.queues[v] = <<>>
  BY <1>4, NothingIn
<1> QED BY <1>1, <1>5

\* "Idleness is worse than over-quota execution": a hart goes idle only when
\* every queue is empty.
THEOREM IdlesOnlyWithoutWork == Spec => IdleMeansNoWork
<1>1. RInv /\ [Next]_vars => [IdleOnlyWhenEmpty]_vars
  BY IdleStep, RunQueueAssumption
<1> QED BY RunQueueHolds, <1>1, PTL DEF Spec, IdleMeansNoWork

\* What a pick leaves was there when it scanned.
LEMMA CapsStep == ASSUME RunQueueAssumption, RInv, [Next]_vars PROVE CapsRespected
<1> SUFFICES ASSUME NEW h \in HartIds, NEW p \in Tasks, Picked(h, p), OverQuota(GroupOf[p]),
                    NEW q \in Tasks, Queued(q)'
             PROVE  OverQuota(GroupOf[q])
  BY DEF CapsRespected
<1>1. current'[h] = p /\ p # NoTask /\ current'[h] # current[h]
  BY DEF Picked
<1>2. PICK qs, r : Good(h, qs, r) /\ queues' = r.queues /\ current'[h] = r.got
  BY <1>1, ChangesPick, RunQueueAssumption
<1>3. RInv'
  BY StepHolds, RunQueueAssumption
<1>4. Waits(queues', q)
  BY <1>3, QueuedIsNext
<1>5. PICK v \in HartIds : q \in ToSet(r.queues[v])
  BY <1>2, <1>4 DEF Waits
<1>6. q \in ToSet(qs[v])
  BY <1>2, <1>5 DEF Good, Takes
<1> QED BY <1>1, <1>2, <1>6 DEF Good

\* A task over its quota runs only when all that wait are over theirs, on
\* every queue the hart could steal from.
THEOREM CapsAreRespected == Spec => CapsComeFirst
<1>1. RInv /\ [Next]_vars => [CapsRespected]_vars
  BY CapsStep, RunQueueAssumption
<1> QED BY RunQueueHolds, <1>1, PTL DEF Spec, CapsComeFirst

LEMMA LeaderIsFirst ==
    ASSUME NEW s \in Seq(Tasks), NEW l, l = s \/ (\E c \in Tasks : l = Append(s, c)),
           IsInjective(l), NEW p \in Tasks, NEW q \in Tasks, p # q, LeadsQueue(p, l), Contains(s, p),
           Contains(s, q), ~OverQuota(GroupOf[q])
    PROVE  \/ Vruntime(GroupOf[p]) < Vruntime(GroupOf[q])
           \/ /\ Vruntime(GroupOf[p]) = Vruntime(GroupOf[q])
              /\ \E i, k \in DOMAIN s : i < k /\ s[i] = p /\ s[k] = q
<1>1. /\ l \in Seq(Tasks) /\ Len(s) \in Nat /\ Len(l) \in Nat /\ Len(s) <= Len(l)
      /\ \A i \in 1 .. Len(s) : l[i] = s[i]
  OBVIOUS
<1>2. DOMAIN s = 1 .. Len(s) /\ DOMAIN l = 1 .. Len(l)
  BY <1>1
<1>3. \A i \in 1 .. Len(s) : i \in 1 .. Len(l)
  BY <1>1
<1>4. PICK i \in 1 .. Len(s) : s[i] = p
  BY DEF Contains
<1>5. PICK k \in 1 .. Len(s) : s[k] = q
  BY DEF Contains
<1>6. PICK j \in 1 .. Len(l) : /\ l[j] = p
                               /\ \A m \in 1 .. Len(l) : ~OverQuota(GroupOf[l[m]]) /\ m # j =>
                                     \/ Vruntime(GroupOf[p]) < Vruntime(GroupOf[l[m]])
                                     \/ Vruntime(GroupOf[p]) = Vruntime(GroupOf[l[m]]) /\ j < m
  BY DEF LeadsQueue
<1>7. i = j
  BY <1>1, <1>2, <1>3, <1>4, <1>6 DEF IsInjective
<1>8. l[k] = q /\ k \in 1 .. Len(l) /\ k # j
  BY <1>1, <1>3, <1>5, <1>6
<1>9. \/ Vruntime(GroupOf[p]) < Vruntime(GroupOf[q])
      \/ Vruntime(GroupOf[p]) = Vruntime(GroupOf[q]) /\ j < k
  BY <1>6, <1>8
<1> QED BY <1>2, <1>4, <1>5, <1>7, <1>9

\* The queue a pick scanned holds at most the task it pushed back more.
LEMMA LeastStep == ASSUME RunQueueAssumption, RInv, [Next]_vars PROVE LeastTaken
<1> SUFFICES ASSUME NEW h \in HartIds, NEW p \in Tasks, NEW q \in Tasks,
                    Picked(h, p), Contains(queues[h], p), ~OverQuota(GroupOf[p]),
                    Contains(queues[h], q), q # p, ~OverQuota(GroupOf[q])
             PROVE  \/ Vruntime(GroupOf[p]) < Vruntime(GroupOf[q])
                    \/ Vruntime(GroupOf[p]) = Vruntime(GroupOf[q]) /\ Ahead(h, p, q)
  BY DEF LeastTaken
<1>1. current'[h] = p /\ current'[h] # current[h]
  BY DEF Picked
<1>2. PICK qs, r : /\ Good(h, qs, r) /\ current'[h] = r.got
                   /\ \/ qs = queues
                      \/ /\ current[h] \in Tasks /\ ~Waits(queues, current[h])
                         /\ qs = Pushed(queues, h, current[h])
  BY <1>1, ChangesPick, RunQueueAssumption
<1> DEFINE s == queues[h]
           l == qs[h]
<1>3. Apart(queues) /\ s \in Seq(Tasks) /\ IsInjective(s)
  BY DEF RInv, Placed, Apart, Queues
<1>4. IsInjective(l) /\ (l = s \/ \E c \in Tasks : l = Append(s, c))
  <2>1. CASE qs = queues
    BY <1>3, <2>1
  <2>2. CASE /\ current[h] \in Tasks /\ ~Waits(queues, current[h])
             /\ qs = Pushed(queues, h, current[h])
    <3> DEFINE c == current[h]
    <3>1. c \in Tasks /\ ~Waits(queues, c) /\ qs = Pushed(queues, h, c)
      BY <2>2
    <3> HIDE DEF c
    <3>2. Apart(qs) /\ qs[h] = Append(queues[h], c)
      BY <1>3, <3>1, Comes
    <3> QED BY <3>1, <3>2 DEF Apart
  <2> QED BY <1>2, <2>1, <2>2
<1>5. LeadsQueue(p, l)
  <2>1. p \in ToSet(s)
    BY <1>3, ContainsIs
  <2>2. p \in ToSet(l)
    <3>1. CASE l = s
      BY <2>1, <3>1
    <3>2. CASE \E c \in Tasks : l = Append(s, c)
      <4> HIDE DEF s
      <4> QED BY <1>3, <2>1, <3>2, OneMore
    <3> QED BY <1>4, <3>1, <3>2
  <2> QED BY <1>1, <1>2, <2>2 DEF Good
<1> HIDE DEF l
<1>6. \/ Vruntime(GroupOf[p]) < Vruntime(GroupOf[q])
      \/ /\ Vruntime(GroupOf[p]) = Vruntime(GroupOf[q])
         /\ \E i, k \in DOMAIN s : i < k /\ s[i] = p /\ s[k] = q
  <2>1. Contains(s, p) /\ Contains(s, q) /\ p # q
    OBVIOUS
  <2> HIDE DEF s
  <2> QED BY <1>3, <1>4, <1>5, <2>1, LeaderIsFirst
<1> QED BY <1>6 DEF Ahead

\* Shares: the task a hart takes from its own queue has used least for its
\* weight among those within quota, and ties keep their order of arrival.
THEOREM LeastGoesFirst == Spec => LeastUsedFirst
<1>1. RInv /\ [Next]_vars => [LeastTaken]_vars
  BY LeastStep, RunQueueAssumption
<1> QED BY RunQueueHolds, <1>1, PTL DEF Spec, LeastUsedFirst

----------------------------------------------------------------------------
(* The accounting of one hart *)

WithinNow(S) == \A g \in S : fresh[g] => use[g] <= now

WithinElapsed == \A g \in Groups : fresh[g] => use[g] <= now + 1

\* From its tick to the charge for it, hart h has charged no group more ticks
\* than the window had before.
UInv(h) ==
    /\ pc[h] \in {"ticked", "open", "add"} => WithinNow(Groups)
    /\ pc[h] = "reset" => WithinNow(Groups \ {charge[h]})
    /\ pc[h] \in {"run", "check", "resched", "switch"} => WithinElapsed

LEMMA UNow ==
    ASSUME RestOK, WithinNow(Groups) PROVE WithinElapsed
<1>1. now \in Int /\ \A g \in Groups : use[g] \in Int
  BY DEF RestOK
<1> QED BY <1>1 DEF WithinNow, WithinElapsed

LEMMA UTick ==
    ASSUME RunQueueAssumption, RestOK, NEW h \in HartIds, UInv(h), Tick(h) PROVE UInv(h)'
<1>1. pc[h] = "run" /\ pc'[h] = "ticked"
  BY DEF Tick, Goto, RestOK
<1>2. WithinElapsed
  BY <1>1 DEF UInv
<1>3. WithinNow(Groups)'
  <2> SUFFICES ASSUME NEW g \in Groups, fresh'[g] PROVE use'[g] <= now'
    BY DEF WithinNow
  <2>1. now' # 0
    BY DEF Tick
  <2>2. fresh' = fresh /\ use' = use
    BY <2>1 DEF Tick
  <2>3. now' = now + 1
    <3> DEFINE m == now + 1
    <3>1. m \in Nat /\ m <= Window /\ Window \in Nat /\ Window > 0 /\ now' = m % Window
      BY DEF RestOK, RunQueueAssumption, Tick
    <3> HIDE DEF m
    <3>2. m < 2 * Window
      BY <3>1
    <3>3. now' = IF m < Window THEN m ELSE m - Window
      BY <3>1, <3>2, Turned
    <3>4. m < Window
      BY <2>1, <3>1, <3>3
    <3> QED BY <3>3, <3>4 DEF m
  <2> QED BY <1>2, <2>2, <2>3 DEF WithinElapsed
<1> QED BY <1>1, <1>3 DEF UInv

LEMMA UTrap ==
    ASSUME RunQueueAssumption, RestOK, NEW h \in HartIds, UInv(h), TrapStep(h) PROVE UInv(h)'
<1>0. now \in Nat /\ \A g \in Groups : use[g] \in Int
  BY DEF RestOK
<1>1. CASE LoadCharge(h)
  <2>1. pc[h] = "ticked" /\ pc'[h] \in {"check", "add", "open"}
    BY <1>1 DEF LoadCharge, Goto, RestOK
  <2>2. now' = now /\ fresh' = fresh /\ use' = use
    BY <1>1 DEF LoadCharge, acctVars
  <2>3. WithinNow(Groups) /\ WithinElapsed
    BY <2>1, UNow DEF UInv
  <2>4. WithinNow(Groups)' /\ WithinElapsed'
    BY <2>2, <2>3 DEF WithinNow, WithinElapsed
  <2> QED BY <2>1, <2>4 DEF UInv
<1>2. CASE OpenWindow(h)
  <2>1. pc[h] = "open" /\ pc'[h] = "reset"
    BY <1>2 DEF OpenWindow, Goto, RestOK
  <2>2. /\ now' = now /\ use' = use /\ charge' = charge
        /\ \A g \in Groups : g # charge[h] => fresh'[g] = fresh[g]
    BY <1>2 DEF OpenWindow, RestOK
  <2>3. WithinNow(Groups \ {charge[h]})'
    BY <2>1, <2>2 DEF UInv, WithinNow
  <2> QED BY <2>1, <2>2, <2>3 DEF UInv
<1>3. CASE ResetUse(h)
  <2>1. pc[h] = "reset" /\ pc'[h] = "check"
    BY <1>3 DEF ResetUse, Goto, RestOK
  <2>2. /\ now' = now /\ fresh' = fresh
        /\ \A g \in Groups : use'[g] = IF g = charge[h] THEN 1 ELSE use[g]
    BY <1>3 DEF ResetUse, RestOK, Opened
  <2>3. WithinElapsed'
    <3> SUFFICES ASSUME NEW g \in Groups, fresh[g] PROVE use'[g] <= now + 1
      BY <2>2 DEF WithinElapsed
    <3>1. CASE g = charge[h]
      BY <1>0, <2>2, <3>1
    <3>2. CASE g # charge[h]
      <4>1. use[g] <= now
        BY <2>1, <3>2 DEF UInv, WithinNow
      <4> QED BY <1>0, <2>2, <3>2, <4>1
    <3> QED BY <3>1, <3>2
  <2> QED BY <2>1, <2>3 DEF UInv
<1>4. CASE AddUse(h)
  <2> DEFINE more(k) == Min({use[k] + 1, UseCap})
  <2>1. pc[h] = "add" /\ pc'[h] = "check"
    BY <1>4 DEF AddUse, Goto, RestOK
  <2>2. /\ now' = now /\ fresh' = fresh
        /\ \A g \in Groups : use'[g] = IF g = charge[h] THEN more(g) ELSE use[g]
    <3> DEFINE c == charge[h]
               m == more(c)
    <3>1. /\ now' = now /\ fresh' = fresh /\ use' = [use EXCEPT ![c] = m]
          /\ use \in [Groups -> 0 .. UseCap]
      BY <1>4 DEF AddUse, RestOK
    <3> HIDE DEF c, m
    <3>2. \A g \in Groups : use'[g] = IF g = c THEN m ELSE use[g]
      BY <3>1
    <3> QED BY <3>1, <3>2 DEF c, m
  <2>3. ASSUME NEW g \in Groups PROVE more(g) <= use[g] + 1 /\ more(g) \in Int
    <3>1. UseCap \in Int
      BY DEF RunQueueAssumption
    <3>2. more(g) = IF use[g] + 1 <= UseCap THEN use[g] + 1 ELSE UseCap
      BY <1>0, <3>1, LeastOfTwo
    <3> QED BY <1>0, <3>1, <3>2
  <2> HIDE DEF more
  <2>4. WithinElapsed'
    <3> SUFFICES ASSUME NEW g \in Groups, fresh[g] PROVE use'[g] <= now + 1
      BY <2>2 DEF WithinElapsed
    <3>1. use[g] <= now
      BY <2>1 DEF UInv, WithinNow
    <3> QED BY <1>0, <2>2, <2>3, <3>1
  <2> QED BY <2>1, <2>4 DEF UInv
<1>5. CASE CheckPreempt(h) \/ SchedulePoint(h) \/ Switch(h)
  <2>1. pc[h] \in {"check", "resched", "switch"} /\ pc'[h] \in {"run", "resched"}
    BY <1>5 DEF CheckPreempt, SchedulePoint, Switch, Goto, RestOK
  <2>2. now' = now /\ fresh' = fresh /\ use' = use
    BY <1>5 DEF CheckPreempt, SchedulePoint, Switch, acctVars
  <2>3. WithinElapsed'
    BY <2>1, <2>2 DEF UInv, WithinElapsed
  <2> QED BY <2>1, <2>3 DEF UInv
<1> QED BY <1>1, <1>2, <1>3, <1>4, <1>5 DEF TrapStep

LEMMA UCall ==
    ASSUME RestOK, NEW h \in HartIds, UInv(h), Call(h) \/ SoftIrq(h) PROVE UInv(h)'
<1>1. now' = now /\ fresh' = fresh /\ use' = use /\ charge' = charge
  BY DEF Call, SoftIrq, Yield, Block, Exit, Enter, SetCpu, SetShare, acctVars, trapVars
<1>2. pc'[h] = pc[h] \/ (pc[h] = "run" /\ pc'[h] \in {"resched", "switch"})
  BY DEF Call, SoftIrq, Yield, Block, Exit, Enter, SetCpu, SetShare, trapVars, Goto, RestOK
<1> QED BY <1>1, <1>2 DEF UInv, WithinNow, WithinElapsed

\* The accounting of one hart holds at the start, is kept, and is enough.
LEMMA UInit == ASSUME NHarts = 1, Init PROVE UInv(0)
<1>1. pc[0] = "run" /\ now = 0 /\ \A g \in Groups : use[g] = 0
  BY DEF Init, HartIds
<1>2. WithinElapsed
  BY <1>1 DEF WithinElapsed
<1> QED BY <1>1, <1>2 DEF UInv

LEMMA UStep ==
    ASSUME NHarts = 1, RunQueueAssumption, RInv, UInv(0), [Next]_vars PROVE UInv(0)'
<1>0. HartIds = {0} /\ RestOK
  BY TypeIs DEF HartIds
<1>1. CASE UNCHANGED vars
  BY <1>1 DEF vars, trapVars, acctVars, UInv, WithinNow, WithinElapsed
<1>2. CASE Next
  <2>1. Tick(0) \/ SoftIrq(0) \/ TrapStep(0) \/ Call(0)
    BY <1>2, <1>0 DEF Next
  <2>2. 0 \in HartIds
    BY <1>0
  <2> QED BY <1>0, <2>1, <2>2, UTick, UTrap, UCall
<1> QED BY <1>1, <1>2

LEMMA UEnough == ASSUME NHarts = 1, RInv, UInv(0) PROVE UseWithinElapsed
<1>0. HartIds = {0} /\ RestOK
  BY TypeIs DEF HartIds
<1> SUFFICES ASSUME \A h \in HartIds : pc[h] # "reset" PROVE WithinElapsed
  BY DEF UseWithinElapsed, WithinElapsed
<1>1. pc[0] \in {"ticked", "open", "add", "run", "check", "resched", "switch"}
  BY <1>0 DEF RestOK, Places
<1> QED BY <1>0, <1>1, UNow DEF UInv

\* On one hart no race can make a group look busier than the window is old:
\* no group is charged more ticks than have elapsed in the window.
THEOREM UseIsWithinElapsed ==
    ASSUME NHarts = 1 PROVE Spec => []UseWithinElapsed
<1> DEFINE U == RInv /\ UInv(0)
<1>1. Init => U
  BY InitHolds, UInit, RunQueueAssumption
<1>2. U /\ [Next]_vars => U'
  BY StepHolds, UStep, RunQueueAssumption
<1>3. U => UseWithinElapsed
  BY UEnough
<1> QED BY <1>1, <1>2, <1>3, PTL DEF Spec
============================================================================
