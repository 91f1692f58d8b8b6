--------------------------- MODULE MachineProofs ---------------------------
(***************************************************************************)
(* Boot for any number of harts, none of which reaches _start when .bss    *)
(* was cleared: no hart joins early, the self-test passes only when every  *)
(* interrupt was taken.  Console for any number of harts, lines, rings and *)
(* characters: lines are not torn, and on one hart no byte is lost and no  *)
(* typed character overtaken.  The run queue of one hart, for any tasks,   *)
(* groups, caps and shares, runs beside the two in MCMachine.              *)
(***************************************************************************)
EXTENDS MCMachine, RunQueueProofs, FiniteSetTheorems, SequenceTheorems, TLAPS

----------------------------------------------------------------------------
(* Boot *)

Winning == {"clear", "init", "release", "hsm", "send", "wait", "run"}

BootPlaces == Winning \cup {"reset", "stopped", "parked", "starting", "ap", "up"}

BootTypeOK ==
    /\ bootPc \in [Harts -> BootPlaces]
    /\ {taken, done, inited, early} \subseteq BOOLEAN
    /\ {ipi, acked} \subseteq SUBSET Harts
    /\ asked \in [Harts -> SUBSET Harts] /\ started \in [Harts -> SUBSET Harts]
    /\ unsent \in [Harts -> SUBSET Harts]
    /\ verdict \in [Harts -> {"none", "FAIL", "PASS"}]

\* Nobody is on its way to _start once .bss is cleared, so one hart wins, and it clears .bss
\* while the others wait.
OneInFront ==
    /\ \A g, h \in Harts : bootPc[g] \in Winning /\ bootPc[h] \in Winning => g = h
    /\ \A g, h \in Harts :
         bootPc[g] = "reset" => bootPc[h] \in {"reset", "stopped", "parked", "clear"}
    /\ \A g, h \in Harts :
         bootPc[g] = "reset" /\ ~taken => bootPc[h] \in {"reset", "stopped"}
    /\ \A g, h \in Harts :
         bootPc[g] = "clear" /\ g # h => bootPc[h] \in {"reset", "stopped", "parked"}
    /\ \A h \in Harts : bootPc[h] \in {"clear", "init"} => \A g \in Harts : started[g] = {}
    /\ done => \A h \in Harts : bootPc[h] \notin {"reset", "clear", "init"}

\* Whoever may let a hart join has initialised what is shared.
LetsJoinAfterInit ==
    /\ done => inited
    /\ \A h \in Harts : bootPc[h] \in {"release", "hsm", "send", "wait", "run", "starting"} => inited

\* A hart that was started is no longer where it cannot take an interrupt.
StartedIsUnderWay ==
    \A h \in Harts : \A g \in started[h] : bootPc[g] \in {"starting", "ap", "up"}

\* Once all were asked nobody is left to be started: the verdict stands.
AskedForAll ==
    \A h \in Harts :
      /\ bootPc[h] \in {"send", "wait", "run"} => Harts \ {h} \subseteq asked[h]
      /\ verdict[h] # "none" => bootPc[h] = "run"
      /\ verdict[h] = "PASS" => started[h] \subseteq acked

BootInv ==
    /\ BootTypeOK /\ OneInFront /\ LetsJoinAfterInit /\ StartedIsUnderWay /\ AskedForAll
    /\ SentIsDelivered /\ JoinsAfterInit

LEMMA BootInitFits == BootInit => BootInv
<1> SUFFICES ASSUME BootInit PROVE BootInv
  OBVIOUS
<1> USE DEF BootInit
<1>1. \A h \in Harts : started[h] = {} /\ unsent[h] = {} /\ verdict[h] = "none"
  BY DEF NoneYet
<1>2. BootTypeOK
  BY DEF BootTypeOK, BootPlaces, Winning, NoneYet
<1>3. OneInFront /\ LetsJoinAfterInit
  BY <1>1 DEF OneInFront, LetsJoinAfterInit, Winning
<1>4. StartedIsUnderWay /\ AskedForAll /\ SentIsDelivered /\ JoinsAfterInit
  BY <1>1 DEF StartedIsUnderWay, AskedForAll, SentIsDelivered, JoinsAfterInit
<1>5. QED
  BY <1>2, <1>3, <1>4 DEF BootInv

\* The race for the boot hart, and its clearing of what it finds.
LEMMA BootRaceKeeps ==
    ASSUME ~Late, BootInv, NEW h \in Harts, AtStart(h) \/ ClearBss(h)
    PROVE  BootInv'
<1> USE DEF BootInv, BootTypeOK, Reach
<1>1. CASE AtStart(h)
  <2>1. /\ UNCHANGED <<done, inited, asked, started, unsent, ipi, acked, verdict, early>>
        /\ bootPc' = [bootPc EXCEPT ![h] = IF taken THEN "parked" ELSE "clear"] /\ taken' = TRUE
        /\ bootPc[h] = "reset"
    BY <1>1 DEF AtStart, Taken
  <2>2. BootTypeOK'
    BY <2>1 DEF BootPlaces, Winning
  <2>3. \A g \in Harts : g # h => bootPc'[g] = bootPc[g]
    BY <2>1
  <2>4. OneInFront'
    <3>1. CASE taken
      <4>1. bootPc'[h] = "parked"
        BY <2>1, <3>1
      <4>2. QED
        BY <2>1, <2>3, <3>1, <4>1 DEF OneInFront, Winning
    <3>2. CASE ~taken
      <4>1. bootPc'[h] = "clear" /\ \A g \in Harts : g # h => bootPc'[g] \in {"reset", "stopped"}
        BY <2>1, <2>3, <3>2 DEF OneInFront
      <4>2. ~done /\ \A k \in Harts : started[k] = {}
        BY <2>1, <3>2 DEF OneInFront, StartedIsUnderWay
      <4>3. QED
        BY <2>1, <4>1, <4>2 DEF OneInFront, Winning
    <3>3. QED
      BY <3>1, <3>2
  <2>5. QED
    BY <2>1, <2>2, <2>4 DEF LetsJoinAfterInit, StartedIsUnderWay, AskedForAll, SentIsDelivered,
                            JoinsAfterInit
<1>2. CASE ClearBss(h)
  <2>1. /\ UNCHANGED <<asked, started, unsent, ipi, verdict, early>>
        /\ bootPc' = [bootPc EXCEPT ![h] = "init"] /\ bootPc[h] = "clear"
        /\ taken' = FALSE /\ done' = FALSE /\ inited' = FALSE /\ acked' = {}
        /\ \A g \in Harts : bootPc[g] # "reset"
    BY <1>2 DEF ClearBss
  <2>2. (\A k \in Harts : started[k] = {}) /\ \A g \in Harts : g # h => bootPc[g] \in {"stopped", "parked"}
    BY <2>1 DEF OneInFront
  <2>3. bootPc'[h] = "init" /\ \A g \in Harts : g # h => bootPc'[g] \in {"stopped", "parked"}
    BY <2>1, <2>2
  <2>4. \A k \in Harts : started'[k] = {} /\ verdict'[k] = "none"
    BY <2>1, <2>2 DEF AskedForAll
  <2>5. BootTypeOK'
    BY <2>1 DEF BootPlaces, Winning
  <2>6. OneInFront'
    BY <2>1, <2>2, <2>3 DEF OneInFront, Winning
  <2>7. LetsJoinAfterInit' /\ AskedForAll'
    BY <2>1, <2>3, <2>4 DEF LetsJoinAfterInit, AskedForAll
  <2>8. QED
    BY <2>1, <2>4, <2>5, <2>6, <2>7 DEF StartedIsUnderWay, SentIsDelivered, JoinsAfterInit
<1>3. QED
  BY <1>1, <1>2

\* The steps that touch only where a hart is and what is set up before any interrupt.
LEMMA BootStartKeeps ==
    ASSUME BootInv, NEW h \in Harts,
           SharedInit(h) \/ Release(h) \/ AllAsked(h) \/ SendOver(h)
    PROVE  BootInv'
<1> USE DEF BootInv, BootTypeOK, Reach
<1>1. /\ UNCHANGED <<taken, asked, started, unsent, ipi, acked, verdict, early>>
      /\ \E to \in {"release", "hsm", "send", "wait"} : bootPc' = [bootPc EXCEPT ![h] = to]
      /\ bootPc[h] \in {"init", "release", "hsm", "send"}
  BY DEF SharedInit, Release, AllAsked, SendOver
<1>2. BootTypeOK'
  BY <1>1 DEF SharedInit, Release, AllAsked, SendOver, BootPlaces, Winning
<1>3. LetsJoinAfterInit'
  BY <1>1 DEF LetsJoinAfterInit, SharedInit, Release, AllAsked, SendOver
<1>4. StartedIsUnderWay' /\ SentIsDelivered' /\ JoinsAfterInit'
  BY <1>1 DEF StartedIsUnderWay, SentIsDelivered, JoinsAfterInit
<1>5. AskedForAll'
  BY <1>1 DEF AskedForAll, SharedInit, Release, AllAsked, SendOver
<1>6. OneInFront'
  <2>1. /\ bootPc'[h] \in {"release", "hsm", "send", "wait"}
        /\ \A g \in Harts : g # h => bootPc'[g] = bootPc[g] /\ bootPc[g] \notin Winning \cup {"reset"}
    BY <1>1 DEF OneInFront, Winning
  <2>2. QED
    BY <1>1, <2>1 DEF OneInFront, Winning
<1>7. QED
  BY <1>2, <1>3, <1>4, <1>5, <1>6

\* hart_start(): a hart that is asked late runs already, and does not count as started.
LEMMA HartStartKeeps ==
    ASSUME BootInv, NEW h \in Harts, NEW g \in Harts, HartStart(h, g)
    PROVE  BootInv'
<1> USE DEF BootInv, BootTypeOK
<1>1. /\ inited /\ bootPc[h] = "hsm" /\ g # h
      /\ UNCHANGED <<taken, done, inited, ipi, acked, verdict, early>>
      /\ asked' = [asked EXCEPT ![h] = @ \cup {g}]
  BY DEF LetsJoinAfterInit, HartStart
<1>2. CASE bootPc[g] # "stopped"
  <2>1. UNCHANGED <<bootPc, started, unsent>>
    BY <1>2 DEF HartStart, Starts
  <2>2. BootTypeOK' /\ OneInFront' /\ LetsJoinAfterInit' /\ StartedIsUnderWay'
    BY <1>1, <2>1 DEF OneInFront, LetsJoinAfterInit, StartedIsUnderWay
  <2>3. SentIsDelivered' /\ JoinsAfterInit' /\ AskedForAll'
    BY <1>1, <2>1 DEF AskedForAll, SentIsDelivered, JoinsAfterInit
  <2>4. QED
    BY <2>2, <2>3
<1>3. CASE bootPc[g] = "stopped"
  <2>1. /\ started' = [started EXCEPT ![h] = @ \cup {g}]
        /\ unsent' = [unsent EXCEPT ![h] = @ \cup {g}]
        /\ bootPc' = [bootPc EXCEPT ![g] = "starting"]
    BY <1>3 DEF HartStart, Starts
  <2>2. BootTypeOK'
    BY <1>1, <2>1 DEF BootPlaces, Winning
  <2>3. /\ bootPc'[g] = "starting" /\ \A k \in Harts : k # g => bootPc'[k] = bootPc[k]
        /\ \A k \in Harts : bootPc[k] \notin {"reset", "clear", "init", "send", "wait", "run"}
    BY <1>1, <2>1 DEF OneInFront, Winning
  <2>4. OneInFront'
    BY <1>1, <1>3, <2>3 DEF OneInFront, Winning
  <2>5. LetsJoinAfterInit' /\ JoinsAfterInit'
    BY <1>1, <2>3 DEF LetsJoinAfterInit, JoinsAfterInit
  <2>6. StartedIsUnderWay'
    BY <2>1, <2>3 DEF StartedIsUnderWay
  <2>7. SentIsDelivered'
    BY <1>1, <2>1 DEF SentIsDelivered
  <2>8. AskedForAll'
    BY <1>1, <2>1, <2>3 DEF AskedForAll
  <2>9. QED
    BY <2>2, <2>4, <2>5, <2>6, <2>7, <2>8
<1>4. QED
  BY <1>2, <1>3

\* The interrupts, the verdict, and the harts that join.
LEMMA BootJoinKeeps ==
    ASSUME BootInv, NEW h \in Harts,
           \/ WaitOver(h) \/ Join(h) \/ Schedulable(h) \/ TakeIpi(h)
           \/ \E g \in Harts : SendIpi(h, g)
    PROVE  BootInv'
<1> USE DEF BootInv, BootTypeOK, Reach
<1>1. CASE WaitOver(h)
  <2>1. OneInFront'
    <3>1. bootPc'[h] = "run" /\ bootPc[h] = "wait" /\ \A g \in Harts : g # h => bootPc'[g] = bootPc[g]
      BY <1>1 DEF WaitOver
    <3>2. QED
      BY <1>1, <3>1 DEF WaitOver, OneInFront, Winning
  <2>2. AskedForAll'
    BY <1>1 DEF WaitOver, Missing, AskedForAll
  <2>3. QED
    BY <1>1, <2>1, <2>2 DEF WaitOver, Missing, LetsJoinAfterInit, StartedIsUnderWay,
                            SentIsDelivered, JoinsAfterInit, BootPlaces, Winning
<1>2. CASE Join(h)
  <2>1. inited
    BY <1>2 DEF Join, MayJoin, LetsJoinAfterInit
  <2>2. /\ bootPc'[h] = "ap" /\ \A g \in Harts : g # h => bootPc'[g] = bootPc[g]
        /\ bootPc[h] \in {"parked", "starting"} /\ (done \/ bootPc[h] = "starting")
    BY <1>2 DEF Join, MayJoin
  <2>3. \A g \in Harts : bootPc[g] # "reset" /\ bootPc[g] # "clear"
    BY <2>2 DEF OneInFront
  <2>4. OneInFront'
    BY <1>2, <2>2, <2>3 DEF Join, OneInFront, Winning
  <2>5. QED
    BY <1>2, <2>1, <2>4 DEF Join, LetsJoinAfterInit, StartedIsUnderWay, AskedForAll, SentIsDelivered,
                      JoinsAfterInit, BootPlaces, Winning
<1>3. CASE Schedulable(h)
  <2>1. OneInFront'
    BY <1>3 DEF Schedulable, OneInFront, Winning
  <2>2. QED
    BY <1>3, <2>1 DEF Schedulable, LetsJoinAfterInit, StartedIsUnderWay, AskedForAll, SentIsDelivered,
              JoinsAfterInit, BootPlaces, Winning
<1>4. CASE TakeIpi(h)
  BY <1>4 DEF TakeIpi, LetsJoinAfterInit, StartedIsUnderWay, AskedForAll, SentIsDelivered,
              JoinsAfterInit, OneInFront
<1>5. ASSUME NEW g \in Harts, SendIpi(h, g) PROVE BootInv'
  BY <1>5 DEF SendIpi, StillUnsent, LetsJoinAfterInit, StartedIsUnderWay, AskedForAll,
              SentIsDelivered, JoinsAfterInit, OneInFront
<1>6. QED
  BY <1>1, <1>2, <1>3, <1>4, <1>5

LEMMA BootStepKeeps == ~Late /\ BootInv /\ [BootNext]_bootVars => BootInv'
<1>1. ~Late /\ BootInv /\ BootNext => BootInv'
  BY BootRaceKeeps, BootStartKeeps, HartStartKeeps, BootJoinKeeps DEF BootNext
<1>2. BootInv /\ UNCHANGED bootVars => BootInv'
  BY DEF bootVars, BootInv, BootTypeOK, LetsJoinAfterInit, StartedIsUnderWay, AskedForAll,
         SentIsDelivered, JoinsAfterInit, OneInFront
<1>3. QED
  BY <1>1, <1>2

LEMMA BootInvIsEnough == BootInv => VerdictMeansDelivered /\ SentIsDelivered /\ JoinsAfterInit
BY DEF BootInv, BootTypeOK, AskedForAll, StartedIsUnderWay, VerdictMeansDelivered

\* For any number of harts that are all in _start before .bss is cleared (a cold boot), or
\* stopped: no hart joins the scheduler before the shared initialisation is done.
THEOREM NobodyJoinsEarly == ASSUME ~Late PROVE BootSpec => []JoinsAfterInit
<1>1. BootInv /\ [BootNext]_bootVars => BootInv'
  BY BootStepKeeps
<1>2. QED
  BY <1>1, BootInitFits, BootInvIsEnough, PTL DEF BootSpec

\* On the same boots: the self-test of the interrupts passes only if every hart that was
\* started took its own, and a hart whose send was counted has the interrupt.
THEOREM VerdictIsTrue == ASSUME ~Late PROVE BootSpec => [](VerdictMeansDelivered /\ SentIsDelivered)
<1>1. BootInv /\ [BootNext]_bootVars => BootInv'
  BY BootStepKeeps
<1>2. QED
  BY <1>1, BootInitFits, BootInvIsEnough, PTL DEF BootSpec

----------------------------------------------------------------------------
(* Console, on any number of harts *)

Bytes    == Nat \X Nat
Isr      == {"isr", "rx", "txpop", "txwrite", "disarm"}
Writing  == {"put", "poll"}
ConPlaces == {"user"} \cup Writing \cup Isr

CarryTypeOK ==
    /\ carry \in [Cpus -> Seq(Bytes) \cup Seq(Nat)]
    /\ \A h \in Cpus : /\ at[h] = "txwrite" => carry[h] \in Seq(Bytes) /\ Len(carry[h]) = 1
                       /\ at[h] = "rx" => carry[h] \in Seq(Nat) /\ Len(carry[h]) = 1

ConTypeOK ==
    /\ online \subseteq Cpus
    /\ at \in [Cpus -> ConPlaces]
    /\ line \in [Cpus -> [id : Nat, next : 1 .. LineLen]]
    /\ owner \in Cpus \cup {NoCpu} /\ claimed \in Cpus \cup {NoCpu}
    /\ {txRing, thr, put, wire} \subseteq Seq(Bytes) /\ Len(thr) <= 1
    /\ {rxRing, rbr, unread, typed, given} \subseteq Seq(Nat) /\ Len(rbr) <= 1
    /\ lines \in Nat
    /\ CarryTypeOK

\* The lock of the console is with the hart that writes a line, the interrupt with the hart
\* that handles it; a hart that does not run does neither.
LocksAreHeld ==
    \A h \in Cpus :
      /\ at[h] \in Writing <=> owner = h
      /\ at[h] \in Isr <=> claimed = h
      /\ h \notin online => at[h] = "user"

\* The byte before the next one of a line was the last one handed over.
LineGoesOn ==
    \A h \in Cpus : at[h] \in Writing /\ line[h].next > 1 =>
      Len(put) > 0 /\ put[Len(put)] = <<line[h].id, line[h].next - 1>>

AnyCpus == ConTypeOK /\ LocksAreHeld /\ LinesWhole /\ LineGoesOn

LEMMA CpusAreNumbers == Cpus \subseteq Nat \ {0} /\ NoCpu \notin Cpus /\ LineLen \in Nat \ {0}
<1>1. Cardinality(Cpus) \in Nat
  BY ConsoleAssumption, FS_CardinalityType
<1>2. QED
  BY <1>1, ConsoleAssumption DEF NoCpu

LEMMA ConInitFits == ConInit => AnyCpus
<1> SUFFICES ASSUME ConInit PROVE AnyCpus
  OBVIOUS
<1> USE DEF ConInit, NoByte
<1>1. online \subseteq Cpus
  <2>1. PICK n \in Cpus : online = 1 .. n
    OBVIOUS
  <2>2. Cardinality(Cpus) \in Nat
    BY ConsoleAssumption, FS_CardinalityType
  <2>3. n \in 1 .. Cardinality(Cpus)
    BY ConsoleAssumption
  <2>4. 1 .. n \subseteq 1 .. Cardinality(Cpus)
    BY <2>2, <2>3
  <2>5. QED
    BY <2>1, <2>4, ConsoleAssumption
<1>2. unread \in Seq(Nat)
  <2>1. DOMAIN Typed = 1 .. Len(Typed) /\ Len(Typed) \in Nat
    BY ConsoleAssumption
  <2>2. QED
    BY <2>1
<1>3. ConTypeOK
  BY <1>1, <1>2, CpusAreNumbers DEF ConTypeOK, CarryTypeOK, ConPlaces, Bytes
<1>4. LocksAreHeld /\ LinesWhole /\ LineGoesOn
  BY CpusAreNumbers DEF LocksAreHeld, LinesWhole, LineGoesOn, Writing, Isr
<1>5. QED
  BY <1>3, <1>4 DEF AnyCpus

\* Handing over a byte, and going on to the next or giving up the lock.
LEMMA EndByteKeeps ==
    ASSUME AnyCpus, NEW h \in Cpus, at[h] \in Writing, EndByte(h), UNCHANGED <<online, claimed>>
    PROVE  /\ at' \in [Cpus -> ConPlaces] /\ line' \in [Cpus -> [id : Nat, next : 1 .. LineLen]]
           /\ owner' \in Cpus \cup {NoCpu} /\ put' \in Seq(Bytes) /\ Byte(h) \in Bytes
           /\ \A k \in Cpus : at'[k] # at[k] => k = h /\ at'[k] \in {"user", "put"}
           /\ at'[h] \in {"user", "put"}
           /\ LocksAreHeld' /\ LinesWhole' /\ LineGoesOn'
<1> USE DEF AnyCpus, ConTypeOK
<1>1. /\ line[h].id \in Nat /\ line[h].next \in 1 .. LineLen /\ LineLen \in Nat
      /\ owner = h
  BY CpusAreNumbers DEF LocksAreHeld
<1>2. Byte(h) \in Bytes /\ Byte(h)[1] = line[h].id /\ Byte(h)[2] = line[h].next
  BY <1>1 DEF Byte, Bytes
<1>3. put' = Append(put, Byte(h)) /\ put' \in Seq(Bytes) /\ Len(put') = Len(put) + 1
      /\ put'[Len(put) + 1] = Byte(h) /\ \A i \in 1 .. Len(put) : put'[i] = put[i]
  BY <1>2 DEF EndByte
<1>4. LinesWhole'
  <2>0. Len(put) \in Nat /\ DOMAIN put = 1 .. Len(put) /\ DOMAIN put' = 1 .. Len(put) + 1
        /\ LinesWhole /\ LineGoesOn
    BY <1>3
  <2> HIDE DEF AnyCpus, ConTypeOK
  <2> SUFFICES ASSUME NEW i \in 1 .. Len(put) + 1, put'[i][2] > 1
               PROVE  i > 1 /\ put'[i - 1] = <<put'[i][1], put'[i][2] - 1>>
    BY <2>0 DEF LinesWhole
  <2>1. CASE i <= Len(put)
    <3>1. i \in DOMAIN put /\ put'[i] = put[i]
      BY <1>3, <2>0, <2>1
    <3>2. i > 1 /\ put[i - 1] = <<put[i][1], put[i][2] - 1>>
      BY <2>0, <3>1 DEF LinesWhole
    <3>3. i - 1 \in 1 .. Len(put)
      BY <2>0, <2>1, <3>2
    <3>4. put'[i - 1] = put[i - 1]
      BY <1>3, <3>3
    <3>5. QED
      BY <3>1, <3>2, <3>4
  <2>2. CASE i = Len(put) + 1
    <3>1. put'[i] = Byte(h) /\ line[h].next > 1
      BY <1>2, <1>3, <2>2
    <3>2. Len(put) > 0 /\ put[Len(put)] = <<line[h].id, line[h].next - 1>>
      BY <2>0, <3>1 DEF LineGoesOn
    <3>3. put'[Len(put)] = put[Len(put)]
      <4>1. Len(put) \in 1 .. Len(put)
        BY <2>0, <3>2
      <4>2. QED
        BY <1>3, <4>1
    <3>4. i - 1 = Len(put) /\ i > 1
      BY <2>0, <2>2, <3>2
    <3>5. QED
      BY <1>2, <3>1, <3>2, <3>3, <3>4
  <2>3. QED
    BY <2>0, <2>1, <2>2
<1>5. CASE line[h].next = LineLen
  <2>1. at' = [at EXCEPT ![h] = "user"] /\ owner' = NoCpu /\ line' = line
    <3>1. line' = [line EXCEPT ![h].next = line[h].next]
      BY <1>5 DEF EndByte
    <3>2. QED
      BY <1>5, <3>1 DEF EndByte
  <2>2. \A k \in Cpus : at'[k] \notin Writing
    BY <1>1, <2>1 DEF LocksAreHeld, Writing
  <2>3. LineGoesOn'
    BY <2>2 DEF LineGoesOn
  <2>4. LocksAreHeld'
    BY <1>1, <2>1, <2>2, CpusAreNumbers DEF LocksAreHeld, Writing, Isr
  <2>5. QED
    BY <1>2, <1>3, <1>4, <2>1, <2>3, <2>4 DEF ConPlaces
<1>6. CASE line[h].next # LineLen
  <2>1. at' = [at EXCEPT ![h] = "put"] /\ owner' = owner
        /\ line' = [line EXCEPT ![h].next = line[h].next + 1]
    BY <1>6 DEF EndByte
  <2>2. line[h].next + 1 \in 1 .. LineLen
    BY SMTT(20), <1>1, <1>6
  <2>3. line' \in [Cpus -> [id : Nat, next : 1 .. LineLen]]
    BY <2>1, <2>2
  <2>4. \A k \in Cpus : at'[k] \in Writing <=> k = h
    BY <1>1, <2>1 DEF LocksAreHeld, Writing
  <2>5. line'[h].id = line[h].id /\ line'[h].next - 1 = line[h].next
    BY <1>1, <2>1
  <2>6. LineGoesOn'
    <3>1. put'[Len(put')] = <<line'[h].id, line'[h].next - 1>> /\ Len(put') > 0
      BY SMTT(20), <1>3, <2>5 DEF Byte
    <3>2. QED
      BY <2>4, <3>1 DEF LineGoesOn
  <2>7. LocksAreHeld'
    BY <1>1, <2>1, <2>4 DEF LocksAreHeld, Writing, Isr
  <2>8. QED
    BY <1>2, <1>3, <1>4, <2>1, <2>3, <2>6, <2>7 DEF ConPlaces, Writing
<1>7. QED
  BY <1>5, <1>6

\* A hart goes on inside the interrupt, or into it or out of it, and touches no line.
LEMMA IsrKeeps ==
    ASSUME AnyCpus, NEW h \in online, NEW to \in {"user"} \cup Isr, at[h] \in {"user"} \cup Isr,
           at' = [at EXCEPT ![h] = to],
           claimed' = IF to = "user" THEN NoCpu ELSE h,
           at[h] = "user" => claimed = NoCpu,
           UNCHANGED <<online, line, owner, put>>
    PROVE  LocksAreHeld' /\ LinesWhole' /\ LineGoesOn' /\ at' \in [Cpus -> ConPlaces]
<1> USE DEF AnyCpus, ConTypeOK
<1>1. h \in Cpus /\ h # NoCpu /\ at'[h] = to /\ \A k \in Cpus : k # h => at'[k] = at[k]
  BY CpusAreNumbers
<1>2. \A k \in Cpus : at'[k] \in Writing <=> at[k] \in Writing
  BY <1>1 DEF Writing, Isr
<1>3. \A k \in Cpus : k # h => at[k] \notin Isr
  BY <1>1, CpusAreNumbers DEF LocksAreHeld
<1>4. LocksAreHeld'
  BY <1>1, <1>2, <1>3, CpusAreNumbers DEF LocksAreHeld, Isr
<1>5. LinesWhole' /\ LineGoesOn'
  BY <1>2 DEF LinesWhole, LineGoesOn
<1>6. QED
  BY <1>4, <1>5 DEF ConPlaces

\* The device, and the reader: neither a lock nor a line is touched.
LEMMA ApartKeeps ==
    ASSUME AnyCpus, UNCHANGED <<online, at, line, owner, claimed, put>>
    PROVE  LocksAreHeld' /\ LinesWhole' /\ LineGoesOn' /\ at' \in [Cpus -> ConPlaces]
BY DEF AnyCpus, ConTypeOK, LocksAreHeld, LinesWhole, LineGoesOn

\* The first byte of a queue and the rest; a queue with one more.
LEMMA QueueType ==
    ASSUME NEW S, NEW q \in Seq(S), NEW e \in S
    PROVE  /\ Append(q, e) \in Seq(S) /\ Append(q, e) # <<>>
           /\ Head(Append(q, e)) \in S /\ Tail(Append(q, e)) \in Seq(S)
           /\ q # <<>> => Head(q) \in S /\ Tail(q) \in Seq(S) /\ Len(q) >= 1 /\ q[1] \in S
           /\ <<e>> \in Seq(S) /\ Len(<<e>>) = 1 /\ <<e>>[1] = e /\ <<>> \in Seq(S)
BY HeadTailProperties, AppendProperties

LEMMA ShortQueue ==
    ASSUME NEW S, NEW q \in Seq(S), Len(q) <= 1
    PROVE  q = <<>> \/ Len(q) = 1
<1>1. \A n \in Nat \ {0} : n <= 1 => n = 1
  OBVIOUS
<1>2. q # <<>> => Len(q) \in Nat \ {0}
  BY EmptySeq
<1>3. QED
  BY <1>1, <1>2

LEMMA WriterKeeps ==
    ASSUME AnyCpus, NEW h \in online, StartLine(h) \/ PutChar(h) \/ PollEmpty(h) \/ PollWrite(h)
    PROVE  AnyCpus'
<1>0. h \in Cpus /\ h # NoCpu /\ 1 \in 1 .. LineLen
  BY CpusAreNumbers DEF AnyCpus, ConTypeOK
<1>1. CASE StartLine(h)
  <2> USE <1>0, <1>1 DEF AnyCpus, ConTypeOK, StartLine, Goes, MayWrite
  <2>1. ConTypeOK'
    BY SMTT(20) DEF CarryTypeOK, ConPlaces, Writing
  <2>2. LocksAreHeld'
    BY CpusAreNumbers DEF LocksAreHeld, Writing, Isr
  <2>3. LinesWhole'
    BY DEF LinesWhole
  <2>4. LineGoesOn'
    <3>1. \A k \in Cpus : k # h => at[k] \notin Writing
      BY CpusAreNumbers DEF LocksAreHeld
    <3>2. QED
      BY <3>1 DEF LineGoesOn
  <2>5. QED
    BY <2>1, <2>2, <2>3, <2>4
<1>2. CASE PutChar(h)
  <2>1. at[h] \in Writing /\ EndByte(h) /\ UNCHANGED <<online, claimed>>
    BY <1>2 DEF PutChar, Writing
  <2>2. /\ at' \in [Cpus -> ConPlaces] /\ line' \in [Cpus -> [id : Nat, next : 1 .. LineLen]]
        /\ owner' \in Cpus \cup {NoCpu} /\ put' \in Seq(Bytes) /\ Byte(h) \in Bytes
        /\ \A k \in Cpus : at'[k] # at[k] => k = h /\ at'[k] \in {"user", "put"}
        /\ at'[h] \in {"user", "put"}
        /\ LocksAreHeld' /\ LinesWhole' /\ LineGoesOn'
    BY <1>0, <2>1, EndByteKeeps
  <2>3. txRing' \in Seq(Bytes) /\ thr' \in Seq(Bytes) /\ Len(thr') <= 1
    <3>1. txRing \in Seq(Bytes) /\ thr \in Seq(Bytes) /\ Len(thr) <= 1
      BY DEF AnyCpus, ConTypeOK
    <3>2. \/ thr' = <<Head(Append(txRing, Byte(h)))>> /\ txRing' = Tail(Append(txRing, Byte(h)))
          \/ thr' = thr /\ txRing' = Append(txRing, Byte(h))
      BY <1>2 DEF PutChar
    <3>3. CASE thr' = <<Head(Append(txRing, Byte(h)))>> /\ txRing' = Tail(Append(txRing, Byte(h)))
      <4>1. Head(Append(txRing, Byte(h))) \in Bytes /\ Tail(Append(txRing, Byte(h))) \in Seq(Bytes)
        BY <2>2, <3>1, QueueType
      <4>2. QED
        BY <3>3, <4>1
    <3>4. CASE thr' = thr /\ txRing' = Append(txRing, Byte(h))
      BY <2>2, <3>1, <3>4
    <3>5. QED
      BY <3>2, <3>3, <3>4
  <2>4. ConTypeOK'
    <3>1. UNCHANGED <<online, carry, claimed, rxRing, rbr, lines, wire, unread, typed, given>>
      BY <1>2 DEF PutChar
    <3>2. CarryTypeOK'
      BY <1>0, <2>2, <3>1 DEF AnyCpus, ConTypeOK, CarryTypeOK
    <3>3. QED
      BY <2>2, <2>3, <3>1, <3>2 DEF AnyCpus, ConTypeOK
  <2>5. QED
    BY <2>2, <2>4 DEF AnyCpus
<1>3. CASE PollEmpty(h)
  <2> USE <1>0, <1>3 DEF AnyCpus, ConTypeOK, PollEmpty, Goes
  <2>1. ConTypeOK'
    BY DEF CarryTypeOK, ConPlaces, Writing
  <2>2. LocksAreHeld'
    BY DEF LocksAreHeld, Writing, Isr
  <2>3. LinesWhole' /\ LineGoesOn'
    BY DEF LinesWhole, LineGoesOn, Writing
  <2>4. QED
    BY <2>1, <2>2, <2>3
<1>4. CASE PollWrite(h)
  <2>1. at[h] \in Writing /\ EndByte(h) /\ UNCHANGED <<online, claimed>>
    BY <1>4 DEF PollWrite, Writing
  <2>2. /\ at' \in [Cpus -> ConPlaces] /\ line' \in [Cpus -> [id : Nat, next : 1 .. LineLen]]
        /\ owner' \in Cpus \cup {NoCpu} /\ put' \in Seq(Bytes) /\ Byte(h) \in Bytes
        /\ \A k \in Cpus : at'[k] # at[k] => k = h /\ at'[k] \in {"user", "put"}
        /\ at'[h] \in {"user", "put"}
        /\ LocksAreHeld' /\ LinesWhole' /\ LineGoesOn'
    BY <1>0, <2>1, EndByteKeeps
  <2>3. thr' \in Seq(Bytes) /\ Len(thr') <= 1
    BY <1>4, <2>2 DEF PollWrite
  <2>4. ConTypeOK'
    <3>1. UNCHANGED <<online, txRing, carry, claimed, rxRing, rbr, lines, wire, unread, typed, given>>
      BY <1>4 DEF PollWrite
    <3>2. CarryTypeOK'
      BY <1>0, <2>2, <3>1 DEF AnyCpus, ConTypeOK, CarryTypeOK
    <3>3. QED
      BY <2>2, <2>3, <3>1, <3>2 DEF AnyCpus, ConTypeOK
  <2>5. QED
    BY <2>2, <2>4 DEF AnyCpus
<1>5. QED
  BY <1>1, <1>2, <1>3, <1>4

LEMMA HandlerKeeps ==
    ASSUME AnyCpus, NEW h \in online,
           \/ Claim(h) \/ RxRead(h) \/ RxPush(h) \/ TxLook(h) \/ TxPop(h) \/ TxWrite(h)
           \/ Disarm(h) \/ Complete(h)
    PROVE  AnyCpus'
<1>0. h \in Cpus
  BY DEF AnyCpus, ConTypeOK
<1>1. /\ UNCHANGED <<online, line, owner, put>>
      /\ \E to \in {"user"} \cup Isr :
           /\ at' = [at EXCEPT ![h] = to] /\ at[h] \in {"user"} \cup Isr
           /\ claimed' = IF to = "user" THEN NoCpu ELSE h
           /\ at[h] = "user" => claimed = NoCpu
  <2>1. at[h] \in Isr => claimed = h
    BY <1>0 DEF AnyCpus, LocksAreHeld
  <2>2. QED
    BY <2>1 DEF Claim, RxRead, RxPush, TxLook, TxPop, TxWrite, Disarm, Complete, Goes, Claimable, Isr
<1>2. LocksAreHeld' /\ LinesWhole' /\ LineGoesOn' /\ at' \in [Cpus -> ConPlaces]
  BY <1>1, IsrKeeps
<1>3. /\ txRing' \in Seq(Bytes) /\ thr' \in Seq(Bytes) /\ Len(thr') <= 1
      /\ rxRing' \in Seq(Nat) /\ rbr' \in Seq(Nat) /\ Len(rbr') <= 1
      /\ CarryTypeOK'
  <2>0. /\ txRing \in Seq(Bytes) /\ thr \in Seq(Bytes) /\ Len(thr) <= 1
        /\ rxRing \in Seq(Nat) /\ rbr \in Seq(Nat) /\ Len(rbr) <= 1
        /\ CarryTypeOK /\ at \in [Cpus -> ConPlaces]
    BY DEF AnyCpus, ConTypeOK
  <2>1. CASE UNCHANGED <<txRing, thr, rxRing, rbr, carry>> /\ at'[h] \notin {"rx", "txwrite"}
    BY <1>0, <1>1, <2>0, <2>1 DEF CarryTypeOK
  <2>2. CASE RxRead(h)
    <3>1. Len(rbr) = 1
      <4>1. rbr # <<>>
        BY <2>2 DEF RxRead, NoByte
      <4>2. QED
        BY <2>0, <4>1, ShortQueue
    <3>2. CarryTypeOK'
      BY <1>0, <2>0, <2>2, <3>1 DEF CarryTypeOK, RxRead, Goes
    <3>3. QED
      BY <2>0, <2>2, <3>2 DEF RxRead, NoByte
  <2>3. CASE RxPush(h)
    <3>1. carry[h] \in Seq(Nat) /\ Len(carry[h]) = 1
      BY <1>0, <2>0, <2>3 DEF RxPush, CarryTypeOK, Goes
    <3>2. carry[h][1] \in Nat
      BY <3>1
    <3>3. rxRing' = rxRing \/ rxRing' = Append(rxRing, carry[h][1])
      BY <2>3 DEF RxPush
    <3>4. CarryTypeOK'
      BY <1>0, <2>0, <2>3 DEF CarryTypeOK, RxPush, Goes, NoByte
    <3>5. QED
      BY <2>0, <2>3, <3>2, <3>3, <3>4 DEF RxPush
  <2>4. CASE TxPop(h) /\ txRing # <<>>
    <3>1. Head(txRing) \in Bytes /\ Tail(txRing) \in Seq(Bytes)
      BY <2>0, <2>4, QueueType
    <3>2. <<Head(txRing)>> \in Seq(Bytes) /\ Len(<<Head(txRing)>>) = 1
      BY <3>1
    <3>3. CarryTypeOK'
      BY <1>0, <2>0, <2>4, <3>2 DEF CarryTypeOK, TxPop, RunDry
    <3>4. QED
      BY <2>0, <2>4, <3>1, <3>3 DEF TxPop, RunDry
  <2>5. CASE TxWrite(h)
    <3>1. carry[h] \in Seq(Bytes) /\ Len(carry[h]) = 1
      BY <1>0, <2>0, <2>5 DEF TxWrite, CarryTypeOK, Goes
    <3>2. CarryTypeOK'
      BY <1>0, <2>0, <2>5 DEF CarryTypeOK, TxWrite, Goes, NoByte
    <3>3. QED
      BY <2>0, <2>5, <3>1, <3>2 DEF TxWrite, AfterWrite
  <2>6. QED
    BY <1>0, <2>0, <2>1, <2>2, <2>3, <2>4, <2>5
       DEF Claim, TxLook, TxPop, RunDry, Disarm, Complete, Goes
<1>4. ConTypeOK'
  <2>1. UNCHANGED <<wire, unread, typed, given, lines>> /\ claimed' \in Cpus \cup {NoCpu}
    BY <1>0, <1>1 DEF Claim, RxRead, RxPush, TxLook, TxPop, TxWrite, Disarm, Complete
  <2>2. QED
    BY <1>1, <1>2, <1>3, <2>1 DEF AnyCpus, ConTypeOK
<1>5. QED
  BY <1>2, <1>4 DEF AnyCpus

LEMMA DeviceKeeps ==
    ASSUME AnyCpus, Send \/ Arrive \/ \E h \in online : GetFromRing(h) \/ GetFromDevice(h)
    PROVE  AnyCpus'
<1>1. LocksAreHeld' /\ LinesWhole' /\ LineGoesOn' /\ at' \in [Cpus -> ConPlaces]
  BY ApartKeeps DEF Send, Arrive, GetFromRing, GetFromDevice
<1>2. /\ wire' \in Seq(Bytes) /\ thr' \in Seq(Bytes) /\ Len(thr') <= 1
      /\ {rxRing', rbr', unread', typed', given'} \subseteq Seq(Nat) /\ Len(rbr') <= 1
  <2>0. /\ wire \in Seq(Bytes) /\ thr \in Seq(Bytes) /\ Len(thr) <= 1
        /\ {rxRing, rbr, unread, typed, given} \subseteq Seq(Nat) /\ Len(rbr) <= 1
    BY DEF AnyCpus, ConTypeOK
  <2>1. CASE Send
    <3>1. thr[1] \in Bytes
      BY <2>0, <2>1, QueueType DEF Send, NoByte
    <3>2. QED
      BY <2>0, <2>1, <3>1 DEF Send, NoByte
  <2>2. CASE Arrive
    <3>1. Head(unread) \in Nat /\ Tail(unread) \in Seq(Nat)
      BY <2>0, <2>2, QueueType DEF Arrive
    <3>2. QED
      BY <2>0, <2>2, <3>1 DEF Arrive
  <2>3. ASSUME NEW h \in online, GetFromRing(h)
        PROVE  {given', rxRing'} \subseteq Seq(Nat) /\ UNCHANGED <<wire, thr, rbr, unread, typed>>
    <3>1. Head(rxRing) \in Nat /\ Tail(rxRing) \in Seq(Nat)
      BY <2>0, <2>3, QueueType DEF GetFromRing
    <3>2. given' = Append(given, Head(rxRing)) /\ rxRing' = Tail(rxRing)
      BY <2>3 DEF GetFromRing, NextChar
    <3>3. QED
      BY SMTT(20), <2>0, <2>3, <3>1, <3>2 DEF GetFromRing
  <2>4. ASSUME NEW h \in online, GetFromDevice(h)
        PROVE  {given', rbr'} \subseteq Seq(Nat) /\ Len(rbr') <= 1 /\ UNCHANGED <<wire, thr, rxRing, unread, typed>>
    <3>1. rbr[1] \in Nat
      BY <2>0, <2>4, QueueType DEF GetFromDevice, NoByte
    <3>2. QED
      BY <2>0, <2>4, <3>1 DEF GetFromDevice, NoByte
  <2>5. QED
    BY <2>0, <2>1, <2>2, <2>3, <2>4 DEF NoByte
<1>3. ConTypeOK'
  <2>1. UNCHANGED <<online, line, owner, claimed, txRing, put, lines, carry, at>>
    BY DEF Send, Arrive, GetFromRing, GetFromDevice
  <2>2. QED
    BY <1>2, <2>1 DEF AnyCpus, ConTypeOK, CarryTypeOK
<1>4. QED
  BY <1>1, <1>3 DEF AnyCpus

LEMMA ConStepKeeps == AnyCpus /\ [ConNext]_conVars => AnyCpus'
<1>1. AnyCpus /\ ConNext => AnyCpus'
  BY WriterKeeps, HandlerKeeps, DeviceKeeps DEF ConNext
<1>2. AnyCpus /\ UNCHANGED conVars => AnyCpus'
  BY DEF conVars, AnyCpus, ConTypeOK, CarryTypeOK, LocksAreHeld, LinesWhole, LineGoesOn
<1>3. QED
  BY <1>1, <1>2

LEMMA HandlerIsAlone == AnyCpus => OneHandler
<1> SUFFICES ASSUME AnyCpus PROVE OneHandler
  OBVIOUS
<1> DEFINE H == {h \in Cpus : at[h] \in {"isr", "rx", "txpop", "txwrite", "disarm"}}
<1>1. H \subseteq {claimed}
  BY DEF AnyCpus, LocksAreHeld, Isr
<1>2. Cardinality(H) <= Cardinality({claimed}) /\ Cardinality({claimed}) = 1
      /\ Cardinality(H) \in Nat
  BY <1>1, FS_Singleton, FS_Subset, FS_CardinalityType
<1>3. QED
  BY <1>2 DEF OneHandler

\* On any number of harts that write and handle the interrupt: no line is torn by another.
THEOREM LinesAreWhole == ConSpec => []LinesWhole
<1>1. AnyCpus => LinesWhole
  BY DEF AnyCpus
<1>2. QED
  BY <1>1, ConInitFits, ConStepKeeps, PTL DEF ConSpec

\* One hart at a time handles the interrupt of the UART.
THEOREM HandlersAreAlone == ConSpec => []OneHandler
BY ConInitFits, ConStepKeeps, HandlerIsAlone, PTL DEF ConSpec

----------------------------------------------------------------------------
(* Console, on one hart: what is sent *)

Elems(q) == {q[k] : k \in DOMAIN q}

LEMMA ElemsOfAppend ==
    ASSUME NEW S, NEW q \in Seq(S), NEW e \in S
    PROVE  Elems(Append(q, e)) = Elems(q) \cup {e} /\ Len(Append(q, e)) = Len(q) + 1
<1> DEFINE a == Append(q, e)
<1>1. /\ Len(q) \in Nat /\ DOMAIN q = 1 .. Len(q) /\ DOMAIN a = 1 .. Len(q) + 1
      /\ a[Len(q) + 1] = e /\ \A i \in 1 .. Len(q) : a[i] = q[i]
      /\ Len(a) = Len(q) + 1
  OBVIOUS
<1> HIDE DEF a
<1>2. ASSUME NEW x \in Elems(a) PROVE x \in Elems(q) \cup {e}
  BY <1>1 DEF Elems
<1>3. ASSUME NEW x \in Elems(q) PROVE x \in Elems(a)
  <2>1. PICK i \in 1 .. Len(q) : x = q[i]
    BY <1>1 DEF Elems
  <2>2. i \in DOMAIN a /\ a[i] = x
    BY <1>1, <2>1
  <2>3. QED
    BY <2>2 DEF Elems
<1>4. e \in Elems(a)
  BY <1>1 DEF Elems
<1>5. QED
  BY <1>1, <1>2, <1>3, <1>4 DEF a

LEMMA ElemsOfQueue ==
    ASSUME NEW S, NEW q \in Seq(S), NEW e \in S
    PROVE  /\ Elems(Append(q, e)) = Elems(q) \cup {e} /\ Len(Append(q, e)) = Len(q) + 1
           /\ Elems(<<e>>) = {e} /\ Len(<<e>>) = 1 /\ <<e>> \in Seq(S)
           /\ Elems(<<>>) = {} /\ Len(<<>>) = 0 /\ Len(q) \in Nat
<1>1. Elems(Append(q, e)) = Elems(q) \cup {e} /\ Len(Append(q, e)) = Len(q) + 1
  BY ElemsOfAppend
<1>2. Elems(<<e>>) = {e} /\ Elems(<<>>) = {} /\ Len(<<>>) = 0
  BY DEF Elems
<1>3. Len(q) \in Nat /\ <<e>> \in Seq(S) /\ Len(<<e>>) = 1
  OBVIOUS
<1>4. QED
  BY <1>1, <1>2, <1>3

LEMMA ElemsOfTail ==
    ASSUME NEW S, NEW q \in Seq(S), q # <<>>
    PROVE  /\ Elems(q) = {Head(q)} \cup Elems(Tail(q)) /\ Len(Tail(q)) = Len(q) - 1
           /\ Head(q) \in S /\ Tail(q) \in Seq(S) /\ Head(q) = q[1] /\ Len(q) \in Nat \ {0}
<1>1. /\ Len(q) \in Nat \ {0} /\ Head(q) = q[1] /\ Len(Tail(q)) = Len(q) - 1
      /\ Head(q) \in S /\ Tail(q) \in Seq(S) /\ DOMAIN q = 1 .. Len(q)
      /\ DOMAIN Tail(q) = 1 .. Len(q) - 1 /\ \A i \in 1 .. Len(q) - 1 : Tail(q)[i] = q[i + 1]
  BY HeadTailProperties, EmptySeq
<1>2. ASSUME NEW x \in Elems(q) PROVE x \in {Head(q)} \cup Elems(Tail(q))
  <2>1. PICK i \in 1 .. Len(q) : x = q[i]
    BY <1>1 DEF Elems
  <2>2. CASE i = 1
    BY <1>1, <2>1, <2>2
  <2>3. CASE i # 1
    <3>1. i - 1 \in 1 .. Len(q) - 1 /\ Tail(q)[i - 1] = x
      BY <1>1, <2>1, <2>3
    <3>2. QED
      BY <1>1, <3>1 DEF Elems
  <2>4. QED
    BY <2>2, <2>3
<1>3. ASSUME NEW x \in Elems(Tail(q)) PROVE x \in Elems(q)
  <2>1. PICK i \in 1 .. Len(q) - 1 : x = Tail(q)[i]
    BY <1>1 DEF Elems
  <2>2. i + 1 \in DOMAIN q /\ q[i + 1] = x
    BY <1>1, <2>1
  <2>3. QED
    BY <2>2 DEF Elems
<1>4. Head(q) \in Elems(q)
  BY <1>1 DEF Elems
<1>5. QED
  BY <1>1, <1>2, <1>3, <1>4

Moving == IF at[1] = "txwrite" THEN 1 ELSE 0

\* The handler, between its look at the transmitter and its write, has it to itself, and so
\* has putchar() when it writes past the ring.  What was put is somewhere.
OneSends ==
    online = {1} =>
      /\ at[1] \in {"poll", "txpop", "txwrite"} => thr = NoByte
      /\ Len(wire) + Len(thr) + Len(txRing) + Moving = Len(put)
      /\ \A b \in Elems(put) :
           \/ b \in Elems(wire) \cup Elems(thr) \cup Elems(txRing)
           \/ at[1] = "txwrite" /\ b = carry[1][1]

\* With one hart, 1 is that hart.
LEMMA TheHart ==
    ASSUME AnyCpus, online = {1}
    PROVE  /\ 1 \in Cpus /\ {txRing, thr, put, wire} \subseteq Seq(Bytes) /\ Len(thr) <= 1
           /\ at[1] = "txwrite" => carry[1] \in Seq(Bytes) /\ Len(carry[1]) = 1
           /\ at \in [Cpus -> ConPlaces]
           /\ \A h \in Cpus : h # 1 => at[h] = "user"
           /\ thr = NoByte \/ Len(thr) = 1
<1>1. 1 \in Cpus /\ {txRing, thr, put, wire} \subseteq Seq(Bytes) /\ Len(thr) <= 1
      /\ at \in [Cpus -> ConPlaces] /\ CarryTypeOK
  BY DEF AnyCpus, ConTypeOK
<1>2. \A h \in Cpus : h # 1 => at[h] = "user"
  BY DEF AnyCpus, LocksAreHeld
<1>3. thr = NoByte \/ Len(thr) = 1
  BY <1>1, ShortQueue DEF NoByte
<1>4. QED
  BY <1>1, <1>2, <1>3 DEF CarryTypeOK

\* A byte leaves putchar().
LEMMA PutSends ==
    ASSUME AnyCpus, OneSends, PutChar(1) \/ PollWrite(1), online = {1}, online' = online
    PROVE  OneSends'
<1>1. 1 \in Cpus /\ {txRing, thr, put, wire} \subseteq Seq(Bytes) /\ at[1] \in Writing /\ EndByte(1)
      /\ at \in [Cpus -> ConPlaces]
  BY TheHart DEF PutChar, PollWrite, Writing
<1> DEFINE b == Byte(1)
<1> HIDE DEF b
<1>2. b \in Bytes
  BY <1>1, EndByteKeeps DEF PutChar, PollWrite, b
<1>0. txRing \in Seq(Bytes) /\ thr \in Seq(Bytes) /\ put \in Seq(Bytes) /\ wire \in Seq(Bytes)
  BY <1>1
<1>3. put' = Append(put, b) /\ at'[1] \in {"user", "put"} /\ wire' = wire
  BY <1>1 DEF EndByte, PutChar, PollWrite, b
<1>4. Moving = 0 /\ Moving' = 0
  BY <1>1, <1>3 DEF Moving, Writing
<1>5. /\ Elems(thr') \cup Elems(txRing') = Elems(thr) \cup Elems(txRing) \cup {b}
      /\ Len(thr') + Len(txRing') = Len(thr) + Len(txRing) + 1
      /\ Len(thr') \in Nat /\ Len(txRing') \in Nat
  <2> DEFINE q == Append(txRing, b)
  <2>1. /\ q \in Seq(Bytes) /\ q # <<>> /\ Elems(q) = Elems(txRing) \cup {b}
        /\ Len(q) = Len(txRing) + 1 /\ Len(txRing) \in Nat /\ Len(thr) \in Nat
    <3>1. Elems(q) = Elems(txRing) \cup {b} /\ Len(q) = Len(txRing) + 1
      BY <1>2, <1>0, ElemsOfAppend
    <3>2. q \in Seq(Bytes) /\ q # <<>> /\ Len(txRing) \in Nat /\ Len(thr) \in Nat
      BY <1>2, <1>0, QueueType
    <3>3. QED
      BY <3>1, <3>2
  <2>2. /\ Head(q) \in Bytes /\ Elems(q) = {Head(q)} \cup Elems(Tail(q)) /\ Len(Tail(q)) = Len(q) - 1
    BY <2>1, ElemsOfTail
  <2>3. /\ Elems(<<Head(q)>>) = {Head(q)} /\ Len(<<Head(q)>>) = 1
        /\ Elems(<<b>>) = {b} /\ Len(<<b>>) = 1
        /\ Elems(<<>>) = {} /\ Len(<<>>) = 0
    BY <1>1, <1>2, <2>1, <2>2, ElemsOfQueue
  <2>4. CASE PutChar(1) /\ thr = NoByte
    <3>1. thr' = <<Head(q)>> /\ txRing' = Tail(q)
      BY <2>4 DEF PutChar, b
    <3> HIDE DEF q
    <3>2. QED
      BY <2>1, <2>2, <2>3, <2>4, <3>1 DEF NoByte
  <2>5. CASE PutChar(1) /\ thr # NoByte
    <3>1. thr' = thr /\ txRing' = q
      BY <2>5 DEF PutChar, b
    <3> HIDE DEF q
    <3>2. QED
      BY <2>1, <2>2, <2>3, <2>5, <3>1 DEF NoByte
  <2>6. CASE PollWrite(1)
    <3>1. thr = <<>> /\ thr' = <<b>> /\ txRing' = txRing
      BY <2>6 DEF PollWrite, OneSends, NoByte, b
    <3> HIDE DEF q
    <3>2. QED
      BY <2>1, <2>3, <3>1
  <2>7. QED
    BY <2>4, <2>5, <2>6
<1>6. /\ Elems(put') = Elems(put) \cup {b} /\ Len(put') = Len(put) + 1 /\ Len(put) \in Nat
      /\ Len(wire) \in Nat /\ Len(thr) \in Nat /\ Len(txRing) \in Nat
  <2>1. Elems(put') = Elems(put) \cup {b} /\ Len(put') = Len(put) + 1
    BY <1>2, <1>3, <1>0, ElemsOfAppend
  <2>2. Len(put) \in Nat /\ Len(wire) \in Nat /\ Len(thr) \in Nat /\ Len(txRing) \in Nat
    BY <1>1
  <2>3. QED
    BY <2>1, <2>2
<1>7. at[1] # "txwrite"
  BY <1>1 DEF Writing
<1>8. /\ Len(wire) + Len(thr) + Len(txRing) = Len(put)
      /\ \A x \in Elems(put) : x \in Elems(wire) \cup Elems(thr) \cup Elems(txRing)
  BY <1>4, <1>6, <1>7 DEF OneSends
<1>9. Len(wire') + Len(thr') + Len(txRing') + Moving' = Len(put')
  BY SMTT(20), <1>3, <1>4, <1>5, <1>6, <1>8
<1>10. \A x \in Elems(put') : x \in Elems(wire') \cup Elems(thr') \cup Elems(txRing')
  BY <1>3, <1>5, <1>6, <1>8
<1>11. QED
  BY <1>3, <1>9, <1>10 DEF OneSends

\* A byte moves on: out of the ring, into the transmitter, onto the wire.
LEMMA MoveSends ==
    ASSUME AnyCpus, OneSends, online = {1}, online' = online,
           Send \/ (TxPop(1) /\ ~RunDry) \/ TxWrite(1)
    PROVE  OneSends'
<1>1. /\ 1 \in Cpus /\ {txRing, thr, put, wire} \subseteq Seq(Bytes)
      /\ at \in [Cpus -> ConPlaces]
      /\ at[1] = "txwrite" => carry[1] \in Seq(Bytes) /\ Len(carry[1]) = 1
      /\ carry \in [Cpus -> Seq(Bytes) \cup Seq(Nat)]
  BY TheHart DEF AnyCpus, ConTypeOK, CarryTypeOK
<1>2. Len(wire) \in Nat /\ Len(thr) \in Nat /\ Len(txRing) \in Nat /\ Len(put) \in Nat
  BY <1>1
<1>3. put' = put
  BY DEF Send, TxPop, TxWrite
<1>4. CASE Send
  <2>1. thr # <<>> /\ thr' = <<>> /\ wire' = Append(wire, thr[1]) /\ UNCHANGED <<at, txRing, carry>>
    BY <1>4 DEF Send, NoByte
  <2>2. thr[1] \in Bytes /\ thr = <<thr[1]>>
    BY <1>1, <2>1, TheHart, EmptySeq DEF NoByte
  <2>3. /\ Elems(wire') = Elems(wire) \cup {thr[1]} /\ Len(wire') = Len(wire) + 1
        /\ Elems(<<>>) = {} /\ Len(<<>>) = 0 /\ Elems(thr) = {thr[1]} /\ Len(thr) = 1
    BY <1>1, <2>1, <2>2, ElemsOfQueue
  <2>4. Moving' = Moving /\ at[1] \notin {"poll", "txpop", "txwrite"}
    BY <2>1 DEF Moving, OneSends, NoByte
  <2>5. Len(wire') + Len(thr') + Len(txRing') + Moving' = Len(put')
    BY <1>2, <1>3, <2>1, <2>3, <2>4 DEF OneSends, Moving
  <2>6. QED
    BY <1>3, <2>1, <2>3, <2>4, <2>5 DEF OneSends
<1>5. CASE TxPop(1) /\ ~RunDry
  <2>1. /\ txRing # <<>> /\ at[1] = "txpop" /\ at' = [at EXCEPT ![1] = "txwrite"]
        /\ carry' = [carry EXCEPT ![1] = <<Head(txRing)>>] /\ txRing' = Tail(txRing)
        /\ UNCHANGED <<thr, wire>>
    BY <1>5 DEF TxPop, RunDry
  <2>2. at'[1] = "txwrite" /\ carry'[1] = <<Head(txRing)>> /\ carry'[1][1] = Head(txRing)
    BY <1>1, <2>1
  <2>3. Elems(txRing) = {Head(txRing)} \cup Elems(Tail(txRing)) /\ Len(Tail(txRing)) = Len(txRing) - 1
    BY <1>1, <2>1, ElemsOfTail
  <2>4. Moving = 0 /\ Moving' = 1 /\ thr = NoByte
    BY <2>1, <2>2 DEF Moving, OneSends
  <2>5. Len(wire') + Len(thr') + Len(txRing') + Moving' = Len(put')
    BY <1>2, <1>3, <2>1, <2>3, <2>4 DEF OneSends
  <2>6. QED
    BY <1>3, <2>1, <2>2, <2>3, <2>4, <2>5 DEF OneSends
<1>6. CASE TxWrite(1)
  <2>1. /\ at[1] = "txwrite" /\ at' = [at EXCEPT ![1] = "isr"] /\ thr' = carry[1]
        /\ UNCHANGED <<txRing, wire>>
    BY <1>6 DEF TxWrite, AfterWrite, Goes
  <2>2. at'[1] = "isr"
    BY <1>1, <2>1
  <2>3. thr = <<>> /\ Moving = 1 /\ Moving' = 0
    BY <2>1, <2>2 DEF Moving, OneSends, NoByte
  <2>4. carry[1][1] \in Bytes /\ carry[1] = <<carry[1][1]>>
    BY <1>1, <2>1
  <2>5. /\ Elems(thr') = {carry[1][1]} /\ Len(thr') = 1
        /\ Elems(<<>>) = {} /\ Len(<<>>) = 0
    BY <1>1, <2>1, <2>4, ElemsOfQueue
  <2>6. Len(wire') + Len(thr') + Len(txRing') + Moving' = Len(put')
    BY <1>2, <1>3, <2>1, <2>3, <2>5 DEF OneSends
  <2>7. QED
    BY <1>3, <2>1, <2>2, <2>3, <2>5, <2>6 DEF OneSends
<1>7. QED
  BY <1>4, <1>5, <1>6

\* The other steps move no byte, and none of them comes between look and write.
LEMMA RestSends ==
    ASSUME AnyCpus, OneSends, online = {1}, online' = online,
           \/ StartLine(1) \/ PollEmpty(1) \/ Claim(1) \/ RxRead(1) \/ RxPush(1) \/ TxLook(1)
           \/ (TxPop(1) /\ RunDry) \/ Disarm(1) \/ Complete(1)
           \/ Arrive \/ GetFromRing(1) \/ GetFromDevice(1)
    PROVE  OneSends'
<1>1. 1 \in Cpus /\ at \in [Cpus -> ConPlaces]
  BY TheHart
<1>2. UNCHANGED <<txRing, thr, wire, put>>
  BY DEF StartLine, PollEmpty, Claim, RxRead, RxPush, TxLook, TxPop, RunDry, Disarm, Complete,
         Arrive, GetFromRing, GetFromDevice
<1>3. \/ at'[1] = at[1] /\ carry' = carry
      \/ at[1] # "txwrite" /\ at'[1] # "txwrite"
  BY <1>1 DEF StartLine, PollEmpty, Claim, RxRead, RxPush, TxLook, TxPop, RunDry, Disarm, Complete,
         Arrive, GetFromRing, GetFromDevice, Goes
<1>4. at'[1] \in {"poll", "txpop", "txwrite"} => thr = NoByte
  BY <1>1 DEF StartLine, PollEmpty, Claim, RxRead, RxPush, TxLook, TxPop, RunDry, Disarm, Complete,
         Arrive, GetFromRing, GetFromDevice, Goes, OneSends
<1>5. Moving' = Moving
  BY <1>3 DEF Moving
<1>6. QED
  BY <1>2, <1>3, <1>4, <1>5 DEF OneSends

LEMMA SendsKeeps == AnyCpus /\ OneSends /\ [ConNext]_conVars => OneSends'
<1> SUFFICES ASSUME AnyCpus, OneSends, [ConNext]_conVars, online' = {1} PROVE OneSends'
  BY DEF OneSends
<1>1. online' = online
  BY DEF ConNext, conVars, Send, Arrive, StartLine, PutChar, PollEmpty, PollWrite, Claim, RxRead, RxPush,
         TxLook, TxPop, TxWrite, Disarm, Complete, GetFromRing, GetFromDevice
<1>2. CASE ConNext
  BY <1>1, <1>2, PutSends, MoveSends, RestSends DEF ConNext
<1>3. CASE UNCHANGED conVars
  BY <1>3 DEF conVars, OneSends, Moving
<1>4. QED
  BY <1>2, <1>3

LEMMA SendsIsEnough == AnyCpus /\ OneSends => NoByteLost
<1> SUFFICES ASSUME AnyCpus, OneSends, online = {1} PROVE NoByteLost
  BY DEF NoByteLost
<1>1. Carried = IF at[1] = "txwrite" THEN {carry[1][1]} ELSE {}
  BY TheHart DEF Carried
<1>2. Cardinality(Carried) = Moving
  BY <1>1, FS_EmptySet, FS_Singleton DEF Moving
<1>3. \A i \in DOMAIN put : put[i] \in Elems(put)
  BY DEF Elems
<1>4. QED
  BY <1>1, <1>2, <1>3 DEF NoByteLost, OneSends, Elems

LEMMA ConInitSends == ConInit => OneSends
BY CpusAreNumbers DEF ConInit, OneSends, Moving, Elems, NoByte, NoCpu

----------------------------------------------------------------------------
(* Console, on one hart: what is given *)

\* Every number of the first set is below every number of the second.
Before(S, T) == \A x \in S, y \in T : x < y

Rising(q) == \A i, j \in DOMAIN q : i < j => q[i] < q[j]

\* The character the handler took out of the receiver.
InHand == IF at[1] = "rx" THEN Elems(carry[1]) ELSE {}

\* A character given is older than one in the ring, that one older than the one the handler
\* holds, then the one in the receiver, then those still to come.
OneGives ==
    online = {1} =>
      /\ Rising(given) /\ Rising(rxRing) /\ Rising(unread)
      /\ Before(Elems(given), Elems(rxRing) \cup InHand \cup Elems(rbr) \cup Elems(unread))
      /\ Before(Elems(rxRing), InHand \cup Elems(rbr) \cup Elems(unread))
      /\ Before(InHand, Elems(rbr) \cup Elems(unread))
      /\ Before(Elems(rbr), Elems(unread))

LEMMA RisingAppend ==
    ASSUME NEW q \in Seq(Nat), NEW e \in Nat, Rising(q), Before(Elems(q), {e})
    PROVE  Rising(Append(q, e))
<1> DEFINE a == Append(q, e)
<1>1. /\ Len(q) \in Nat /\ DOMAIN q = 1 .. Len(q) /\ DOMAIN a = 1 .. Len(q) + 1
      /\ a[Len(q) + 1] = e /\ \A i \in 1 .. Len(q) : a[i] = q[i]
  OBVIOUS
<1> HIDE DEF a
<1>2. ASSUME NEW i \in DOMAIN a, NEW j \in DOMAIN a, i < j PROVE a[i] < a[j]
  <2>1. i \in 1 .. Len(q) /\ a[i] = q[i] /\ q[i] \in Elems(q)
    BY <1>1, <1>2 DEF Elems
  <2>2. CASE j = Len(q) + 1
    BY <1>1, <2>1, <2>2 DEF Before
  <2>3. CASE j # Len(q) + 1
    BY <1>1, <1>2, <2>1, <2>3 DEF Rising
  <2>4. QED
    BY <2>2, <2>3
<1>3. QED
  BY <1>2 DEF Rising, a

LEMMA RisingTail ==
    ASSUME NEW q \in Seq(Nat), q # <<>>, Rising(q)
    PROVE  Rising(Tail(q)) /\ Before({Head(q)}, Elems(Tail(q)))
<1>1. /\ Len(q) \in Nat \ {0} /\ Head(q) = q[1] /\ DOMAIN q = 1 .. Len(q)
      /\ DOMAIN Tail(q) = 1 .. Len(q) - 1 /\ \A i \in 1 .. Len(q) - 1 : Tail(q)[i] = q[i + 1]
  BY HeadTailProperties, EmptySeq
<1>2. ASSUME NEW i \in DOMAIN Tail(q) PROVE i + 1 \in DOMAIN q /\ 1 < i + 1 /\ Tail(q)[i] = q[i + 1]
  BY <1>1
<1>3. Rising(Tail(q))
  BY <1>1, <1>2 DEF Rising
<1>4. Before({Head(q)}, Elems(Tail(q)))
  <2>1. ASSUME NEW x \in Elems(Tail(q)) PROVE Head(q) < x
    <3>1. PICK i \in DOMAIN Tail(q) : x = Tail(q)[i]
      BY DEF Elems
    <3>2. QED
      BY <1>1, <1>2, <3>1 DEF Rising
  <2>2. QED
    BY <2>1 DEF Before
<1>5. QED
  BY <1>3, <1>4

LEMMA ConInitGives == ConInit => OneGives
<1> SUFFICES ASSUME ConInit PROVE OneGives
  OBVIOUS
<1>1. Rising(given) /\ Rising(rxRing) /\ Elems(given) = {} /\ Elems(rxRing) = {} /\ Elems(rbr) = {}
  BY DEF ConInit, Rising, Elems, NoByte
<1>2. Rising(unread)
  BY ConsoleAssumption DEF ConInit, Rising
<1>3. online = {1} => InHand = {}
  BY CpusAreNumbers DEF ConInit, InHand
<1>4. QED
  BY <1>1, <1>2, <1>3 DEF OneGives, Before

\* With one hart, its characters.
LEMMA TheChars ==
    ASSUME AnyCpus, online = {1}
    PROVE  /\ 1 \in Cpus /\ at \in [Cpus -> ConPlaces]
           /\ carry \in [Cpus -> Seq(Bytes) \cup Seq(Nat)]
           /\ rxRing \in Seq(Nat) /\ rbr \in Seq(Nat) /\ unread \in Seq(Nat) /\ given \in Seq(Nat)
           /\ at[1] = "rx" => carry[1] \in Seq(Nat) /\ carry[1] = <<carry[1][1]>> /\ carry[1][1] \in Nat
           /\ rbr # <<>> => rbr = <<rbr[1]>> /\ rbr[1] \in Nat
<1>1. /\ 1 \in Cpus /\ at \in [Cpus -> ConPlaces] /\ CarryTypeOK
      /\ {rxRing, rbr, unread, given} \subseteq Seq(Nat) /\ Len(rbr) <= 1
  BY DEF AnyCpus, ConTypeOK
<1>2. rxRing \in Seq(Nat) /\ rbr \in Seq(Nat) /\ unread \in Seq(Nat) /\ given \in Seq(Nat)
  BY <1>1
<1>3. at[1] = "rx" => carry[1] \in Seq(Nat) /\ Len(carry[1]) = 1
  BY <1>1 DEF CarryTypeOK
<1>4. rbr # <<>> => Len(rbr) = 1
  BY <1>1, <1>2, ShortQueue
<1>5. at[1] = "rx" => carry[1] = <<carry[1][1]>> /\ carry[1][1] \in Nat
  BY <1>3
<1>6. rbr # <<>> => rbr = <<rbr[1]>> /\ rbr[1] \in Nat
  BY <1>2, <1>4
<1>7. QED
  BY <1>1, <1>2, <1>3, <1>5, <1>6 DEF CarryTypeOK

\* A character comes in: to the receiver, to the handler, to the ring or dropped.
LEMMA ArriveGives ==
    ASSUME AnyCpus, OneGives, online = {1}, online' = online, Arrive
    PROVE  OneGives'
<1>1. /\ unread # <<>> /\ rbr = <<>> /\ rbr' = <<Head(unread)>> /\ unread' = Tail(unread)
      /\ UNCHANGED <<given, rxRing, at, carry>>
  BY DEF Arrive, NoByte
<1>2. /\ Elems(unread) = {Head(unread)} \cup Elems(Tail(unread)) /\ Head(unread) \in Nat
      /\ Rising(Tail(unread)) /\ Before({Head(unread)}, Elems(Tail(unread)))
  BY <1>1, TheChars, ElemsOfTail, RisingTail DEF OneGives
<1>3. Elems(<<Head(unread)>>) = {Head(unread)} /\ Elems(<<>>) = {}
  BY DEF Elems
<1>4. InHand' = InHand
  BY <1>1 DEF InHand, Elems
<1>5. Elems(rbr') = {Head(unread)} /\ Elems(rbr) = {} /\ Elems(rbr') \cup Elems(unread') = Elems(unread)
  BY <1>1, <1>2, <1>3
<1>6. Rising(given') /\ Rising(rxRing') /\ Rising(unread')
  BY <1>1, <1>2 DEF OneGives
<1>7. Before(Elems(rbr'), Elems(unread'))
  BY <1>1, <1>2, <1>5
<1>8. QED
  BY <1>1, <1>4, <1>5, <1>6, <1>7 DEF OneGives, Before

LEMMA TakeGives ==
    ASSUME AnyCpus, OneGives, online = {1}, online' = online, RxRead(1)
    PROVE  OneGives'
<1>1. /\ at[1] = "isr" /\ at' = [at EXCEPT ![1] = "rx"] /\ carry' = [carry EXCEPT ![1] = rbr]
      /\ rbr' = <<>> /\ UNCHANGED <<given, rxRing, unread>>
  BY DEF RxRead, Goes, NoByte
<1>2. at'[1] = "rx" /\ carry'[1] = rbr
  BY <1>1, TheChars
<1>3. InHand = {} /\ InHand' = Elems(rbr) /\ Elems(rbr') = {}
  BY <1>1, <1>2 DEF InHand, Elems
<1>4. QED
  BY <1>1, <1>3 DEF OneGives, Before

LEMMA PushGives ==
    ASSUME AnyCpus, OneGives, online = {1}, online' = online, RxPush(1)
    PROVE  OneGives'
<1> DEFINE c == carry[1][1]
<1>1. /\ at[1] = "rx" /\ at' = [at EXCEPT ![1] = "isr"]
      /\ (rxRing' = rxRing \/ rxRing' = Append(rxRing, c))
      /\ UNCHANGED <<given, rbr, unread>>
  BY DEF RxPush, Goes
<1>2. at'[1] = "isr" /\ carry[1] = <<c>> /\ c \in Nat /\ rxRing \in Seq(Nat)
  BY <1>1, TheChars
<1> HIDE DEF c
<1>3. InHand = {c} /\ InHand' = {}
  <2>1. Elems(<<c>>) = {c}
    BY DEF Elems
  <2>2. QED
    BY <1>1, <1>2, <2>1 DEF InHand
<1>4. Before(Elems(rxRing), {c}) /\ Rising(rxRing)
  BY <1>3 DEF OneGives, Before
<1>5. Rising(Append(rxRing, c)) /\ Elems(Append(rxRing, c)) = Elems(rxRing) \cup {c}
  BY <1>2, <1>4, RisingAppend, ElemsOfAppend
<1>6. Rising(rxRing') /\ Elems(rxRing') \subseteq Elems(rxRing) \cup {c}
  BY <1>1, <1>4, <1>5
<1>7. QED
  BY <1>1, <1>3, <1>6 DEF OneGives, Before

\* A character is given, from the ring or past it.
LEMMA GetGives ==
    ASSUME AnyCpus, OneGives, online = {1}, online' = online, GetFromRing(1) \/ GetFromDevice(1)
    PROVE  OneGives'
<1>1. at[1] = "user" /\ UNCHANGED <<at, carry, unread>>
  BY DEF GetFromRing, GetFromDevice
<1>2. InHand = {} /\ InHand' = {}
  BY <1>1 DEF InHand
<1>3. CASE GetFromRing(1)
  <2>1. rxRing # <<>> /\ given' = Append(given, Head(rxRing)) /\ rxRing' = Tail(rxRing) /\ rbr' = rbr
    BY <1>3 DEF GetFromRing, NextChar
  <2>2. /\ Elems(rxRing) = {Head(rxRing)} \cup Elems(Tail(rxRing)) /\ Head(rxRing) \in Nat
        /\ Rising(Tail(rxRing)) /\ Before({Head(rxRing)}, Elems(Tail(rxRing)))
    BY <2>1, TheChars, ElemsOfTail, RisingTail DEF OneGives
  <2> DEFINE c == Head(rxRing)
  <2> HIDE DEF c
  <2>3. c \in Nat /\ Before(Elems(given), {c}) /\ Rising(given) /\ given \in Seq(Nat)
    BY <2>2, TheChars DEF OneGives, Before, c
  <2>4. Rising(Append(given, c)) /\ Elems(Append(given, c)) = Elems(given) \cup {c}
    BY <2>3, RisingAppend, ElemsOfAppend
  <2>5. Rising(given') /\ Elems(given') = Elems(given) \cup {Head(rxRing)}
    BY <2>1, <2>4 DEF c
  <2>6. QED
    BY <1>1, <1>2, <2>1, <2>2, <2>5 DEF OneGives, Before
<1>4. CASE GetFromDevice(1)
  <2> DEFINE c == rbr[1]
  <2>1. rbr # <<>> /\ rxRing = <<>> /\ given' = Append(given, c) /\ rbr' = <<>> /\ rxRing' = rxRing
    BY <1>4 DEF GetFromDevice, NoByte
  <2>2. rbr = <<c>> /\ c \in Nat /\ given \in Seq(Nat)
    BY <2>1, TheChars
  <2> HIDE DEF c
  <2>3. Elems(rbr) = {c} /\ Elems(rbr') = {} /\ Elems(rxRing) = {}
    <3>1. Elems(<<c>>) = {c} /\ Elems(<<>>) = {}
      BY DEF Elems
    <3>2. QED
      BY <2>1, <2>2, <3>1
  <2>4. Before(Elems(given), {c}) /\ Rising(given)
    BY <2>3 DEF OneGives, Before
  <2>5. Rising(Append(given, c)) /\ Elems(Append(given, c)) = Elems(given) \cup {c}
    BY <2>2, <2>4, RisingAppend, ElemsOfAppend
  <2>6. QED
    BY <1>1, <1>2, <2>1, <2>3, <2>5 DEF OneGives, Before
<1>5. QED
  BY <1>3, <1>4

\* The other steps move no character.
LEMMA RestGives ==
    ASSUME AnyCpus, OneGives, online = {1}, online' = online,
           \/ StartLine(1) \/ PutChar(1) \/ PollEmpty(1) \/ PollWrite(1) \/ Claim(1) \/ Send
           \/ TxLook(1) \/ TxPop(1) \/ TxWrite(1) \/ Disarm(1) \/ Complete(1)
    PROVE  OneGives'
<1>1. UNCHANGED <<given, rxRing, rbr, unread>>
  BY DEF StartLine, PutChar, PollEmpty, PollWrite, Claim, Send, TxLook, TxPop, TxWrite, Disarm, Complete
<1>2. 1 \in Cpus /\ at \in [Cpus -> ConPlaces]
  BY TheChars
<1>3. (at[1] # "rx" /\ at'[1] # "rx") \/ UNCHANGED <<at, carry>>
  BY <1>2 DEF StartLine, PutChar, PollEmpty, PollWrite, Claim, Send, TxLook, TxPop, TxWrite, Disarm,
     Complete, EndByte, Goes
<1>4. InHand' = InHand
  BY <1>3 DEF InHand
<1>5. QED
  BY <1>1, <1>4 DEF OneGives

LEMMA GivesKeeps == AnyCpus /\ OneGives /\ [ConNext]_conVars => OneGives'
<1> SUFFICES ASSUME AnyCpus, OneGives, [ConNext]_conVars, online' = {1} PROVE OneGives'
  BY DEF OneGives
<1>1. online' = online
  BY DEF ConNext, conVars, Send, Arrive, StartLine, PutChar, PollEmpty, PollWrite, Claim, RxRead, RxPush,
         TxLook, TxPop, TxWrite, Disarm, Complete, GetFromRing, GetFromDevice
<1>2. CASE ConNext
  BY <1>1, <1>2, ArriveGives, TakeGives, PushGives, GetGives, RestGives DEF ConNext
<1>3. CASE UNCHANGED conVars
  BY <1>3 DEF conVars, OneGives, InHand
<1>4. QED
  BY <1>2, <1>3

LEMMA GivesIsEnough == OneGives => GivenInOrder
BY DEF OneGives, GivenInOrder, Rising

\* On one hart no byte between putchar and the wire is lost or sent twice.
THEOREM NoByteIsLost == ConSpec => []NoByteLost
BY ConInitFits, ConInitSends, ConStepKeeps, SendsKeeps, SendsIsEnough, PTL DEF ConSpec

\* On one hart the characters are given in the order they were typed, each once.
THEOREM CharactersInOrder == ConSpec => []GivenInOrder
BY ConInitFits, ConInitGives, ConStepKeeps, GivesKeeps, GivesIsEnough, PTL DEF ConSpec

----------------------------------------------------------------------------
(* The machine *)

MachInv == BootInv /\ AnyCpus /\ OneSends /\ OneGives

\* What the run of the machine checks of the harts that come up, in a cold boot, and of the
\* console holds for any number of harts, lines and characters and any rings.
THEOREM MachineHoldsAlways == MachSpec => []MachineHolds
<1>1. MachInit => MachInv
  BY BootInitFits, ConInitFits, ConInitSends, ConInitGives DEF MachInit, MachInv
<1>2. MachInv /\ [MachNext]_machVars => MachInv'
  <2>1. [MachNext]_machVars => [BootNext]_bootVars /\ [ConNext]_conVars
    BY DEF MachNext, machVars, Booting, OnConsole, InShares, InEqual
  <2>2. QED
    BY <2>1, MCMachineAssumption, BootStepKeeps, ConStepKeeps, SendsKeeps, GivesKeeps DEF MachInv
<1>3. MachInv => MachineHolds
  BY BootInvIsEnough, HandlerIsAlone, SendsIsEnough, GivesIsEnough DEF MachInv, AnyCpus, MachineHolds
<1>4. QED
  BY <1>1, <1>2, <1>3, PTL DEF MachSpec
----------------------------------------------------------------------------
(* The run queue of one hart, with caps and shares and among equals *)

\* The equals are an instance of RunQueue too.
LEMMA EqualsAreAnInstance == Equal!RunQueueAssumption
<1>1. 4 % 2 = 0
  OBVIOUS
<1>2. OneGroup \in [Tasks -> Groups]
  BY MCMachineAssumption DEF OneGroup
<1> QED BY <1>1, <1>2, MCMachineAssumption, RunQueueAssumption DEF Equal!RunQueueAssumption

\* Each part keeps the invariant of its instance of RunQueue.
HartInv ==
    /\ part = "shares" => RInv
    /\ part = "equal" => Equal!RInv /\ Equal!UInv(0)

\* At the start the two instances agree.
LEMMA HartInitFits == MachInit => HartInv
<1> SUFFICES ASSUME MachInit PROVE HartInv
  OBVIOUS
<1>1. RInv
  BY InitHolds, RunQueueAssumption DEF MachInit
<1>2. Equal!Init
  BY DEF MachInit, Init, HartIds, Equal!Init, Equal!HartIds
<1>3. Equal!RInv /\ Equal!UInv(0)
  BY <1>2, EqualsAreAnInstance, MCMachineAssumption, Equal!InitHolds, Equal!UInit
<1> QED BY <1>1, <1>3 DEF HartInv

\* A step of the machine is, in each part, a step of that instance or none of it.
LEMMA HartStepFits ==
    ASSUME [MachNext]_machVars
    PROVE  /\ part' = part
           /\ part = "shares" => [Next]_vars
           /\ part = "equal" => [Equal!Next]_(Equal!vars)
BY DEF MachNext, machVars, Booting, OnConsole, InShares, InEqual, vars, taskVars, trapVars, acctVars,
   limitVars, Equal!vars, Equal!taskVars, Equal!trapVars, Equal!acctVars, Equal!limitVars

LEMMA HartKeeps == HartInv /\ [MachNext]_machVars => HartInv'
<1> SUFFICES ASSUME HartInv, [MachNext]_machVars PROVE HartInv'
  OBVIOUS
<1>1. part = "shares" => RInv'
  BY HartStepFits, StepHolds, RunQueueAssumption DEF HartInv
<1>2. part = "equal" => Equal!RInv' /\ Equal!UInv(0)'
  BY HartStepFits, EqualsAreAnInstance, MCMachineAssumption, Equal!StepHolds, Equal!UStep DEF HartInv
<1> QED BY <1>1, <1>2, HartStepFits DEF HartInv

LEMMA HartInvariant == MachSpec => []HartInv
BY HartInitFits, HartKeeps, PTL DEF MachSpec

\* With equal shares and no race no group is charged more ticks than have elapsed in its
\* window; with caps and shares in any order the tables keep their types.
THEOREM UseIsElapsedAlways == MachSpec => []UseIsElapsed
<1>1. HartInv => (part = "shares" => TypeOK)
  BY TypeIs DEF HartInv, RInv
<1>2. HartInv => (part = "equal" => Equal!TypeOK /\ Equal!UseWithinElapsed)
  BY EqualsAreAnInstance, MCMachineAssumption, Equal!UEnough DEF HartInv, Equal!RInv
<1> QED BY <1>1, <1>2, HartInvariant, PTL DEF UseIsElapsed

\* The least used of those within quota goes first, and a task over its quota only when all
\* that wait are over theirs, whatever caps and shares are set meanwhile.
THEOREM SharesDecideAlways == MachSpec => SharesDecide
<1>1. HartInv /\ [MachNext]_machVars => [part = "shares" => LeastTaken /\ CapsRespected]_machVars
  BY HartStepFits, CapsStep, LeastStep, RunQueueAssumption DEF HartInv
<1> QED BY <1>1, HartInvariant, PTL DEF MachSpec, SharesDecide
============================================================================
