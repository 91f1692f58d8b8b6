-------------------------------- MODULE Boot --------------------------------
(***************************************************************************)
(* From reset to the scheduler (kernel/src/entry.S, main.rs, sbi.rs):      *)
(* the first hart in _start wins and initialises what is shared, the       *)
(* others park until it is done or are started through SBI HSM, and an     *)
(* interrupt is sent to each hart that was started and waited for.         *)
(***************************************************************************)
EXTENDS Naturals, FiniteSets

CONSTANTS Harts, Late  \* Late: a hart may reach _start when the winner has cleared .bss

ASSUME BootAssumption == Harts # {} /\ IsFiniteSet(Harts) /\ Late \in BOOLEAN

VARIABLES
    bootPc,       \* hart -> where it is
    taken,    \* BOOT_TAKEN
    done,     \* BOOT_DONE
    inited,   \* mem, fs and task are initialised
    asked,    \* hart that runs rust_main -> the harts it called hart_start for
    started,  \* ... -> its started_mask
    unsent,   \* ... -> its send_mask
    ipi,      \* the harts with a software interrupt pending
    acked,    \* SOFT_ACK
    verdict,  \* ... -> its "[TEST] ipi": "none", "PASS" or "FAIL"
    \* --- history ---
    winners,  \* harts that called rust_main
    early     \* a hart joined before the shared initialisation was done

bootVars == <<bootPc, taken, done, inited, asked, started, unsent, ipi, acked, verdict, winners, early>>

NoneYet == [h \in Harts |-> {}]

\* Firmware sends at least one hart to _start and stops the others.
BootInit ==
    /\ bootPc \in [Harts -> {"reset", "stopped"}]
    /\ \E h \in Harts : bootPc[h] = "reset"
    /\ taken = FALSE /\ done = FALSE /\ inited = FALSE
    /\ asked = NoneYet /\ started = NoneYet /\ unsent = NoneYet /\ ipi = {} /\ acked = {}
    /\ verdict = [h \in Harts |-> "none"] /\ winners = {} /\ early = FALSE

Reach(h, from, to) == bootPc[h] = from /\ bootPc' = [bootPc EXCEPT ![h] = to]

\* Without Late the harts of a cold boot are all in _start before .bss is cleared.
MayEnter(h) == Late \/ \A g \in Harts : bootPc[g] \in {"reset", "stopped", "parked", "clear"}

\* Mutant: load, then store.
Taken_Look(h) == taken /\ \E g \in winners : bootPc[g] # "clear"

\* amoswap.
Taken(h) == taken

\* _start
AtStart(h) ==
    /\ MayEnter(h)
    /\ Reach(h, "reset", IF Taken(h) THEN "parked" ELSE "clear")
    /\ taken' = TRUE
    /\ winners' = IF Taken(h) THEN winners ELSE winners \cup {h}
    /\ UNCHANGED <<done, inited, asked, started, unsent, ipi, acked, verdict, early>>

\* clear_bss(): BOOT_TAKEN, BOOT_DONE, SOFT_ACK, the heap's and the frames' lists and the task
\* table are all in .bss.
ClearBss(h) ==
    /\ ~Late => \A g \in Harts : bootPc[g] # "reset"
    /\ Reach(h, "clear", "init")
    /\ taken' = FALSE /\ done' = FALSE /\ inited' = FALSE /\ acked' = {}
    /\ UNCHANGED <<asked, started, unsent, ipi, verdict, winners, early>>

\* mem, trap, timer, fs, task; then BOOT_DONE.
SharedInit(h) ==
    /\ Reach(h, "init", "release")
    /\ inited' = TRUE
    /\ UNCHANGED <<taken, done, asked, started, unsent, ipi, acked, verdict, winners, early>>

Release(h) ==
    /\ Reach(h, "release", "hsm")
    /\ done' = TRUE
    /\ UNCHANGED <<taken, inited, asked, started, unsent, ipi, acked, verdict, winners, early>>

\* Mutant: a hart that runs already counts as started.
Starts_Any(g) == TRUE

\* hart_start() succeeds for a stopped hart, and fails for one that runs.
Starts(g) == bootPc[g] = "stopped"

HartStart(h, g) ==
    /\ bootPc[h] = "hsm" /\ g \in Harts \ ({h} \cup asked[h])
    /\ asked' = [asked EXCEPT ![h] = @ \cup {g}]
    /\ IF Starts(g)
       THEN /\ started' = [started EXCEPT ![h] = @ \cup {g}]
            /\ unsent' = [unsent EXCEPT ![h] = @ \cup {g}]
            /\ bootPc' = IF bootPc[g] = "stopped" THEN [bootPc EXCEPT ![g] = "starting"] ELSE bootPc
       ELSE UNCHANGED <<bootPc, started, unsent>>
    /\ UNCHANGED <<taken, done, inited, ipi, acked, verdict, winners, early>>

AllAsked(h) ==
    /\ asked[h] = Harts \ {h}
    /\ Reach(h, "hsm", "send")
    /\ UNCHANGED <<taken, done, inited, asked, started, unsent, ipi, acked, verdict, winners, early>>

\* Mutant: the first send is the last one.
StillUnsent_Once(h, g) == unsent[h] \ {g}

\* A send fails until the hart has started, and is tried again.
StillUnsent(h, g) == IF bootPc[g] = "starting" THEN unsent[h] ELSE unsent[h] \ {g}

SendIpi(h, g) ==
    /\ bootPc[h] = "send" /\ g \in unsent[h]
    /\ unsent' = [unsent EXCEPT ![h] = StillUnsent(h, g)]
    /\ ipi' = IF bootPc[g] = "starting" THEN ipi ELSE ipi \cup {g}
    /\ UNCHANGED <<bootPc, taken, done, inited, asked, started, acked, verdict, winners, early>>

\* All sent, or five seconds are over.
SendOver(h) ==
    /\ Reach(h, "send", "wait")
    /\ UNCHANGED <<taken, done, inited, asked, started, unsent, ipi, acked, verdict, winners, early>>

\* Mutant: an interrupt that was sent counts.
Missing_Sent(h) == unsent[h] # {}

\* The verdict reads SOFT_ACK once more after the wait.
Missing(h) == ~(started[h] \subseteq acked)

\* All acknowledged, or fifteen seconds are over.
WaitOver(h) ==
    /\ Reach(h, "wait", "run")
    /\ verdict' = [verdict EXCEPT ![h] = IF Missing(h) THEN "FAIL" ELSE "PASS"]
    /\ UNCHANGED <<taken, done, inited, asked, started, unsent, ipi, acked, winners, early>>

----------------------------------------------------------------------------
(* The other harts *)

\* Mutant: a parked hart waits to be started.
MayJoin_Never == FALSE

\* Mutant: a parked hart does not wait.
MayJoin_Now == TRUE

\* _ap_park spins on BOOT_DONE.
MayJoin == done

\* _ap_park, or _start_secondary: rust_secondary_main.
Join(h) ==
    /\ \/ bootPc[h] = "parked" /\ MayJoin
       \/ bootPc[h] = "starting"
    /\ bootPc' = [bootPc EXCEPT ![h] = "ap"]
    /\ early' = (early \/ ~inited)
    /\ UNCHANGED <<taken, done, inited, asked, started, unsent, ipi, acked, verdict, winners>>

\* run_on: an interrupt waits until the hart is in a task or in idle's wfi.
Schedulable(h) ==
    /\ Reach(h, "ap", "up")
    /\ UNCHANGED <<taken, done, inited, asked, started, unsent, ipi, acked, verdict, winners, early>>

TakeIpi(h) ==
    /\ h \in ipi /\ bootPc[h] \in {"up", "run"}
    /\ ipi' = ipi \ {h}
    /\ acked' = acked \cup {h}
    /\ UNCHANGED <<bootPc, taken, done, inited, asked, started, unsent, verdict, winners, early>>

----------------------------------------------------------------------------

BootNext ==
    \E h \in Harts :
      \/ AtStart(h) \/ ClearBss(h) \/ SharedInit(h) \/ Release(h) \/ AllAsked(h)
      \/ SendOver(h) \/ WaitOver(h)
      \/ Join(h) \/ Schedulable(h) \/ TakeIpi(h)
      \/ \E g \in Harts : HartStart(h, g) \/ SendIpi(h, g)

BootSpec     == BootInit /\ [][BootNext]_bootVars
FairBootSpec == BootSpec /\ WF_bootVars(BootNext)

----------------------------------------------------------------------------

\* Safety.  One hart runs rust_main (entry.S:14).  It does not hold for a hart that
\* reaches _start when BOOT_TAKEN has been cleared with .bss (entry.S:77): that hart
\* wins too, clears what the first set up under the harts that use it, and the three
\* properties below fail as well.
OneWinner == Cardinality(winners) <= 1

\* Safety.  No hart joins the scheduler before memory, the file system and the task
\* table are there, whichever way it comes.
JoinsAfterInit == ~early

\* Safety.  The self-test passes only if every hart that was started took its
\* interrupt, and every hart it waits for can: it was stopped and has been started.
VerdictMeansDelivered ==
    \A h \in Harts :
      /\ verdict[h] = "PASS" => started[h] \subseteq acked
      /\ started[h] \cap {g \in Harts : bootPc[g] \in {"parked", "stopped"}} = {}

\* Safety.  A hart whose send was counted as made has the interrupt pending or took it.
SentIsDelivered == \A h \in Harts : started[h] \ unsent[h] \subseteq ipi \cup acked

\* Liveness.  Every hart comes to schedule: the winner whatever the others do.
AllHartsUp == <>(\A h \in Harts : bootPc[h] \in {"run", "up"})
============================================================================
