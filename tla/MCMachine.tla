----------------------------- MODULE MCMachine -----------------------------
\* Small instances of Boot, of Console and of RunQueue on one hart, one of them in a
\* behaviour: harts come up; harts share the console; tasks share a hart, with caps and
\* shares set in every order, or as equals that take turns.  Two harts that steal tasks
\* from each other are in MCSched.
EXTENDS Boot, Console, RunQueue, TLC

CONSTANTS t1, t2, t3, g1, g2

ASSUME MCMachineAssumption == ~Late /\ NHarts = 1 /\ g1 \in Groups /\ Uncapped # 50

MCTyped == <<1, 2, 3, 4>>

TwoAndOne == (t1 :> g1) @@ (t2 :> g1) @@ (t3 :> g2)
OneGroup  == [t \in Tasks |-> g1]

VARIABLE part

\* RunQueueProofs extends RunQueue: what it proves is about this very instance.
Equal == INSTANCE RunQueueProofs WITH GroupOf <- OneGroup, StashCap <- 3, Window <- 4, UseCap <- 5,
                                      Caps <- {50}, Shares <- {}

machVars == <<part, bootVars, conVars, vars>>

MachInit ==
    /\ part \in {"boot", "console", "shares", "equal"}
    /\ BootInit /\ ConInit /\ Init
    /\ part # "boot" => bootPc = [h \in Harts |-> "reset"]
    /\ part # "console" => online = {1}
    /\ part \in {"boot", "console"} => live = {t1}

Booting      == part = "boot" /\ BootNext /\ UNCHANGED <<part, conVars, vars>>
OnConsole(A) == part = "console" /\ A /\ UNCHANGED <<part, bootVars, vars>>
InShares     == part = "shares" /\ Next /\ UNCHANGED <<part, bootVars, conVars>>
InEqual(A)   == part = "equal" /\ A /\ UNCHANGED <<part, bootVars, conVars>>

MachNext == Booting \/ OnConsole(ConNext) \/ InShares \/ InEqual(Equal!Next)

\* The fairness of FairBootSpec, of FairConSpec and of RunQueue's FairSpec.
MachFairness ==
    /\ WF_machVars(Booting)
    /\ WF_machVars(OnConsole(Send))
    /\ \A h \in Cpus : SF_machVars(OnConsole(Claim(h))) /\ WF_machVars(OnConsole(Handles(h)))
    /\ SF_machVars(InEqual(Equal!Tick(0)))
    /\ WF_machVars(InEqual(Equal!SoftIrq(0)))
    /\ WF_pc(InEqual(Equal!TrapMoves(0)))

MachSpec == MachInit /\ [][MachNext]_machVars /\ MachFairness

----------------------------------------------------------------------------

\* Liveness: AllHartsUp of Boot, AllSent of Console, EveryHartPreempts and NoStarvation of
\* RunQueue among equals, each in the behaviours of its module.
HartsComeUp   == part = "boot" => AllHartsUp
OutputIsSent  == part = "console" => AllSent
TurnsAreTaken == part = "equal" => Equal!EveryHartPreempts /\ Equal!NoStarvation

\* Action property: LeastUsedFirst and CapsComeFirst of RunQueue, with caps and shares.
SharesDecide == [][part = "shares" => LeastTaken /\ CapsRespected]_machVars

\* Safety: UseWithinElapsed of RunQueue, where nothing races.
UseIsElapsed ==
    /\ part = "shares" => TypeOK
    /\ part = "equal" => Equal!TypeOK /\ Equal!UseWithinElapsed

\* Safety: a hart joins after the first has set up what it needs, and the self-test passes
\* only if every hart took its interrupt; one hart handles the UART, and the bytes of a line
\* are handed to putchar together.  On one hart no byte handed to putchar is lost or sent
\* twice, and typed characters are given in their order.  That bytes are sent in the order
\* they were handed over is not part of it (SentInOrder of Console), and on two harts bytes
\* are lost (NothingOverwritten).
MachineHolds ==
    /\ VerdictMeansDelivered /\ SentIsDelivered /\ JoinsAfterInit
    /\ LinesWhole /\ OneHandler /\ NoByteLost /\ GivenInOrder
============================================================================
