----------------------------- MODULE MCJournal -----------------------------
\* Small instances of Journal, one of them in a behaviour: one hart whose power fails,
\* also while it recovers; one hart whose power fails again and again; two harts whose
\* system calls overlap.
EXTENDS Journal

CONSTANTS x, y, h1, h2

\* One block, and one that is written again (an inode) after another.
SomeCalls == {<<x>>, <<x, y, x>>}
\* Calls that overlap: one may open the valve of the other.
TwinCalls == {<<x>>, <<y>>, <<y, y>>, <<x, x, x>>}
OneOrNone == {<<>>, <<x>>, <<y>>}
OneCall   == {<<x>>}

VARIABLE part

Twins == INSTANCE Journal WITH Harts <- {h1, h2}, Calls <- TwinCalls, NRec <- 5, Rebuilds <- 6,
                               MaxCuts <- 0, MaxGen <- 1

journalVars == <<part, vars>>

JournalInit ==
    \/ part \in {"cuts", "again"} /\ Init
    \/ part = "harts" /\ Twins!Init

WithCuts  == part = "cuts" /\ Next /\ cuts' <= 2 /\ UNCHANGED part
CutAgain  == part = "again" /\ Next /\ (\A i \in DOMAIN writes' : i <= 2 /\ writes'[i] = {x}) /\ UNCHANGED part
WithHarts == part = "harts" /\ Twins!Next /\ UNCHANGED part

JournalSpec == JournalInit /\ [][WithCuts \/ CutAgain \/ WithHarts]_journalVars

\* Two harts and power failures at once, with calls of a block at most.
MergedSpec == Init /\ part = "cuts" /\ [][WithCuts]_journalVars

\* One hart and power failures alone.
AgainSpec == Init /\ part = "again" /\ [][CutAgain]_journalVars

----------------------------------------------------------------------------

\* Safety: AckedSurvive of Journal on one hart, until a cut makes mount skip recovery.
CallsSurvive == part # "harts" /\ ~skipped => AckedSurvive

\* Refinement: IsDurableStore of Journal, on one hart.
KeepsThePromise ==
    /\ part # "harts" => Store!Init
    /\ [][part # "harts" /\ ~skipped' => Store!Next]_<<journalVars, Stable>>

\* Safety: NextIsFresh of Journal, over cuts and over harts.
NumbersAreFresh == IF part = "harts" THEN Twins!NextIsFresh ELSE NextIsFresh

\* Safety: CommitCountsMembers of Journal, over harts.
CommitsCount == part = "harts" => Twins!CommitCountsMembers

\* Safety: both, as what recovery relies on: a number is used by one transaction, and a
\* commit record counts the records of its own.
RecordsHold == NumbersAreFresh /\ CommitsCount
============================================================================
