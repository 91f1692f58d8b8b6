------------------------------ MODULE Console ------------------------------
(***************************************************************************)
(* The console of the kernel: lines written under the print lock           *)
(* (kernel/src/console.rs), the transmit and receive rings of the UART     *)
(* (uart.rs), and the interrupt that drains and fills them, claimed from   *)
(* the PLIC by one hart (plic.rs, trap.rs).                                *)
(*                                                                         *)
(* The UART has one byte in each direction.  Interrupts are off in the     *)
(* kernel: a hart writes or reads, or handles the interrupt.  What a       *)
(* critical section does is one step; registers read and written outside   *)
(* of one are steps of their own.                                          *)
(***************************************************************************)
EXTENDS Naturals, Sequences, FiniteSets

CONSTANTS
    Cpus,      \* harts: 1 .. n
    LineLen,   \* bytes of a line
    MaxLines,  \* bound of the model: lines written
    TxCap,     \* TX_CAP
    RxCap,     \* RING_CAP
    Typed      \* the characters typed; a character is told by its place here

ASSUME ConsoleAssumption ==
    /\ {LineLen, MaxLines, TxCap, RxCap} \subseteq Nat \ {0}
    /\ IsFiniteSet(Cpus) /\ Cpus = 1 .. Cardinality(Cpus)
    /\ Typed \in Seq(Nat)

VARIABLES
    online,   \* the harts that run
    at,       \* hart -> where it is
    line,     \* hart -> [id, next]: the line it writes, its next byte
    owner,    \* console::LOCK
    txRing,   \* TX
    thr,      \* the byte in the transmitter: empty or one byte
    txArmed,  \* IER_TX
    carry,    \* hart -> the byte it took out of a ring or a register
    claimed,  \* the hart that claimed the UART's interrupt, or NoCpu
    rxRing,   \* RING
    rbr,      \* the byte in the receiver: none or one
    lines,    \* lines begun
    \* --- history ---
    put,      \* bytes handed to putchar, in order
    wire,     \* bytes the UART sent
    unread,   \* characters still to come
    typed,    \* characters that reached the receiver
    given     \* characters getchar returned

conVars == <<online, at, line, owner, txRing, thr, txArmed, carry, claimed, rxRing, rbr, lines,
             put, wire, unread, typed, given>>

NoCpu  == 0
NoByte == <<>>
CtrlC  == 3
CtrlD  == 4

ConInit ==
    /\ online \in {1 .. n : n \in Cpus}
    /\ at = [h \in Cpus |-> "user"]
    /\ line = [h \in Cpus |-> [id |-> 0, next |-> 1]]
    /\ owner = NoCpu
    /\ txRing = <<>> /\ thr = NoByte /\ txArmed = FALSE
    /\ carry = [h \in Cpus |-> NoByte]
    /\ claimed = NoCpu
    /\ rxRing = <<>> /\ rbr = NoByte
    /\ lines = 0
    /\ put = <<>> /\ wire = <<>> /\ typed = <<>> /\ given = <<>>
    /\ unread = [i \in DOMAIN Typed |-> i]

Goes(h, from, to) == at[h] = from /\ at' = [at EXCEPT ![h] = to]

----------------------------------------------------------------------------
(* write_bytes(), _print() *)

\* Mutant: every byte takes the lock for itself.
MayWrite_Byte(h) == TRUE

\* The whole buffer is written under the lock.
MayWrite(h) == owner = NoCpu

StartLine(h) ==
    /\ lines < MaxLines
    /\ MayWrite(h)
    /\ Goes(h, "user", "put")
    /\ owner' = h
    /\ lines' = lines + 1
    /\ line' = [line EXCEPT ![h] = [id |-> lines + 1, next |-> 1]]
    /\ UNCHANGED <<online, txRing, thr, txArmed, carry, claimed, rxRing, rbr, put, wire, unread, typed, given>>

Byte(h) == <<line[h].id, line[h].next>>

EndByte(h) ==
    /\ at' = [at EXCEPT ![h] = IF line[h].next = LineLen THEN "user" ELSE "put"]
    /\ owner' = IF line[h].next = LineLen THEN NoCpu ELSE owner
    /\ line' = [line EXCEPT ![h].next = IF @ = LineLen THEN @ ELSE @ + 1]
    /\ put' = Append(put, Byte(h))

\* putchar(): enqueue, arm, and kick if the transmitter is empty.
PutChar(h) ==
    LET q == Append(txRing, Byte(h)) IN
    /\ at[h] = "put"
    /\ Len(txRing) < TxCap
    /\ txArmed' = TRUE
    /\ IF thr = NoByte THEN thr' = <<Head(q)>> /\ txRing' = Tail(q)
                       ELSE thr' = thr /\ txRing' = q
    /\ EndByte(h)
    /\ UNCHANGED <<online, carry, claimed, rxRing, rbr, lines, wire, unread, typed, given>>

\* putchar() with a full ring waits for the transmitter and then writes past the
\* ring; the lock is not held.
PollEmpty(h) ==
    /\ Len(txRing) = TxCap /\ thr = NoByte
    /\ Goes(h, "put", "poll")
    /\ UNCHANGED <<online, line, owner, txRing, thr, txArmed, carry, claimed, rxRing, rbr, lines,
                   put, wire, unread, typed, given>>

PollWrite(h) ==
    /\ at[h] = "poll"
    /\ thr' = <<Byte(h)>>
    /\ EndByte(h)
    /\ UNCHANGED <<online, txRing, txArmed, carry, claimed, rxRing, rbr, lines, wire, unread, typed, given>>

----------------------------------------------------------------------------
(* The device *)

Send ==
    /\ thr # NoByte
    /\ wire' = Append(wire, thr[1])
    /\ thr' = NoByte
    /\ UNCHANGED <<online, at, line, owner, txRing, txArmed, carry, claimed, rxRing, rbr, lines,
                   put, unread, typed, given>>

\* A character arrives; it waits on the line while the receiver is full.
Arrive ==
    /\ unread # <<>> /\ rbr = NoByte
    /\ rbr' = <<Head(unread)>>
    /\ unread' = Tail(unread)
    /\ typed' = Append(typed, Head(unread))
    /\ UNCHANGED <<online, at, line, owner, txRing, thr, txArmed, carry, claimed, rxRing, lines,
                   put, wire, given>>

----------------------------------------------------------------------------
(* The interrupt *)

Pending == (txArmed /\ thr = NoByte) \/ rbr # NoByte

\* Mutant: every hart that sees the interrupt handles it.
Claimable_All == TRUE

\* plic::claim(): one hart at a time until complete().
Claimable == claimed = NoCpu

Claim(h) ==
    /\ Pending /\ Claimable
    /\ Goes(h, "user", "isr")
    /\ claimed' = h
    /\ UNCHANGED <<online, line, owner, txRing, thr, txArmed, carry, rxRing, rbr, lines,
                   put, wire, unread, typed, given>>

\* on_irq(): receive first where there is something, drain where the transmitter
\* is empty and armed, else complete the interrupt.
RxRead(h) ==
    /\ rbr # NoByte
    /\ Goes(h, "isr", "rx")
    /\ carry' = [carry EXCEPT ![h] = rbr]
    /\ rbr' = NoByte
    /\ UNCHANGED <<online, line, owner, txRing, thr, txArmed, claimed, rxRing, lines,
                   put, wire, unread, typed, given>>

\* rx_drain(): Ctrl-C is for the foreground, Ctrl-D marks the end of the input (a
\* flag that only sys_read takes, and that is left out), another character is for
\* the ring; a full ring drops it.
RxPush(h) ==
    LET c == carry[h][1] IN
    /\ Goes(h, "rx", "isr")
    /\ rxRing' = IF Typed[c] \in {CtrlC, CtrlD} \/ Len(rxRing) = RxCap THEN rxRing
                 ELSE Append(rxRing, c)
    /\ carry' = [carry EXCEPT ![h] = NoByte]
    /\ UNCHANGED <<online, line, owner, txRing, thr, txArmed, claimed, rbr, lines,
                   put, wire, unread, typed, given>>

\* tx_drain(): the transmitter is seen empty, a byte is popped, the byte is
\* written: three steps, with the ring's lock in the second only.
TxLook(h) ==
    /\ txArmed /\ thr = NoByte
    /\ Goes(h, "isr", "txpop")
    /\ UNCHANGED <<online, line, owner, txRing, thr, txArmed, carry, claimed, rxRing, rbr, lines,
                   put, wire, unread, typed, given>>

\* Mutant: r = w is taken for an empty ring.
RunDry_Full == Len(txRing) \in {0, TxCap}

\* The ring ran dry.
RunDry == txRing = <<>>

TxPop(h) ==
    /\ at[h] = "txpop"
    /\ IF RunDry
       THEN at' = [at EXCEPT ![h] = "disarm"] /\ UNCHANGED <<txRing, carry>>
       ELSE /\ at' = [at EXCEPT ![h] = "txwrite"]
            /\ carry' = [carry EXCEPT ![h] = <<Head(txRing)>>]
            /\ txRing' = Tail(txRing)
    /\ UNCHANGED <<online, line, owner, thr, txArmed, claimed, rxRing, rbr, lines,
                   put, wire, unread, typed, given>>

\* Mutant: the byte stays where it is.
AfterWrite_Lost(h) == thr

\* What is in the transmitter is overwritten.
AfterWrite(h) == carry[h]

TxWrite(h) ==
    /\ Goes(h, "txwrite", "isr")
    /\ thr' = AfterWrite(h)
    /\ carry' = [carry EXCEPT ![h] = NoByte]
    /\ UNCHANGED <<online, line, owner, txRing, txArmed, claimed, rxRing, rbr, lines,
                   put, wire, unread, typed, given>>

Disarm(h) ==
    /\ Goes(h, "disarm", "isr")
    /\ txArmed' = FALSE
    /\ UNCHANGED <<online, line, owner, txRing, thr, carry, claimed, rxRing, rbr, lines,
                   put, wire, unread, typed, given>>

Complete(h) ==
    /\ ~Pending
    /\ Goes(h, "isr", "user")
    /\ claimed' = NoCpu
    /\ UNCHANGED <<online, line, owner, txRing, thr, txArmed, carry, rxRing, rbr, lines,
                   put, wire, unread, typed, given>>

----------------------------------------------------------------------------
(* getchar() *)

\* Mutant: the ring is a stack.
NextChar_Last == rxRing[Len(rxRing)]

NextChar == Head(rxRing)

GetFromRing(h) ==
    /\ at[h] = "user" /\ rxRing # <<>>
    /\ given' = Append(given, NextChar)
    /\ rxRing' = IF NextChar = Head(rxRing) THEN Tail(rxRing) ELSE SubSeq(rxRing, 1, Len(rxRing) - 1)
    /\ UNCHANGED <<online, at, line, owner, txRing, thr, txArmed, carry, claimed, rbr, lines,
                   put, wire, unread, typed>>

\* With an empty ring the receiver is read, and its character returned as it is.
GetFromDevice(h) ==
    /\ at[h] = "user" /\ rxRing = <<>> /\ rbr # NoByte
    /\ given' = Append(given, rbr[1])
    /\ rbr' = NoByte
    /\ UNCHANGED <<online, at, line, owner, txRing, thr, txArmed, carry, claimed, rxRing, lines,
                   put, wire, unread, typed>>

----------------------------------------------------------------------------

ConNext ==
    \/ Send \/ Arrive
    \/ \E h \in online :
         \/ StartLine(h) \/ PutChar(h) \/ PollEmpty(h) \/ PollWrite(h)
         \/ Claim(h) \/ RxRead(h) \/ RxPush(h)
         \/ TxLook(h) \/ TxPop(h) \/ TxWrite(h) \/ Disarm(h) \/ Complete(h)
         \/ GetFromRing(h) \/ GetFromDevice(h)

Handles(h) ==
    \/ PutChar(h) \/ PollEmpty(h) \/ PollWrite(h) \/ RxRead(h) \/ RxPush(h)
    \/ TxLook(h) \/ TxPop(h) \/ TxWrite(h) \/ Disarm(h) \/ Complete(h)

\* The UART sends and the interrupt is taken and handled; nobody need write or read.
ConFairness ==
    /\ WF_conVars(Send)
    /\ \A h \in Cpus :
         /\ SF_conVars(Claim(h))
         /\ WF_conVars(Handles(h))

ConSpec     == ConInit /\ [][ConNext]_conVars
FairConSpec == ConSpec /\ ConFairness

----------------------------------------------------------------------------

\* Safety.  The bytes of a line are handed to putchar together: a program's write
\* on one hart does not tear a line the kernel prints on another (write_bytes).
\* In what order they leave the UART is SentInOrder below, which does not hold.
LinesWhole ==
    \A i \in DOMAIN put :
      put[i][2] > 1 => i > 1 /\ put[i - 1] = <<put[i][1], put[i][2] - 1>>

\* Safety.  One hart handles the UART's interrupt at a time (claim, complete).
OneHandler ==
    Cardinality({h \in Cpus : at[h] \in {"isr", "rx", "txpop", "txwrite", "disarm"}}) <= 1

Carried  == {carry[h][1] : h \in {g \in Cpus : at[g] = "txwrite"}}

\* Safety, of one hart.  No byte is lost or sent twice between putchar and the wire,
\* a full ring included.
NoByteLost ==
    online = {1} =>
      /\ Len(wire) + Len(thr) + Len(txRing) + Cardinality(Carried) = Len(put)
      /\ \A i \in DOMAIN put :
           put[i] \in Carried \cup {wire[k] : k \in DOMAIN wire} \cup {thr[k] : k \in DOMAIN thr}
                      \cup {txRing[k] : k \in DOMAIN txRing}

\* Safety, of one hart.  Characters are given in the order they were typed and once,
\* from the ring or from the receiver; a full ring drops some.
GivenInOrder ==
    online = {1} =>
      \A i, j \in DOMAIN given : i < j => given[i] < given[j]

\* Liveness, of one hart.  What was written is sent at last: the interrupt is not
\* disarmed over a ring that holds something.
AllSent == online = {1} => []<>(txRing = <<>> /\ thr = NoByte)

\* Does not hold on two harts: the interrupt handler writes the transmitter without
\* the lock (uart.rs:133, against the comment at uart.rs:46).
NothingOverwritten ==
    [][\A h \in Cpus : at[h] = "txwrite" /\ at'[h] = "isr" => thr = NoByte]_conVars

\* Does not hold: getchar reads the receiver past the handler, which alone looks
\* for Ctrl-C (uart.rs:263).
CtrlCIsNotGiven == \A i \in DOMAIN given : Typed[given[i]] # CtrlC

\* Does not hold, on one hart either: with the ring full a byte is sent before those in
\* the ring (uart.rs:75).
SentInOrder == wire = SubSeq(put, 1, Len(wire))
============================================================================
